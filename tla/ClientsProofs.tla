---------------------------- MODULE ClientsProofs ----------------------------
(***************************************************************************)
(* Types and safety of Clients, for any number of endpoints, any lists of  *)
(* resources and any number of answers, responses and failures.            *)
(***************************************************************************)
EXTENDS Clients, FiniteSetTheorems, TLAPS

\* The names of tests, resources and methods that proofs below need to tell apart.
LEMMA Names ==
  /\ Light \in Uris /\ Led \in Uris /\ Room \in Uris /\ Unknown \in Uris
  /\ Presence \in Uris /\ Discovery \in Uris /\ Doxm \in Uris /\ "" \in Uris
  /\ Single \subseteq Methods /\ Discoveries \subseteq Methods
  /\ "OBSERVE" \in Methods /\ "PRESENCE" \in Methods
  /\ Methods = Single \cup Discoveries \cup {"OBSERVE", "PRESENCE"}
  /\ Single = {"GET", "PUT", "POST", "DELETE"} /\ Discoveries = {"DISCOVER", "PLATFORM", "DEVICE"}
  BY DEF Uris, Methods, Single, Discoveries

\* What a program may ask for.
MethodsOf(p) ==
  CASE p \in {"occlient", "tizen"} -> Methods
    [] p = "remote" -> Single \cup {"DISCOVER", "OBSERVE"}
    [] p = "basicops" -> {"DISCOVER", "GET", "PUT", "POST"}
    [] p \in {"coll", "ams", "slow"} -> {"DISCOVER", "GET", "PUT"}

\* Only the light clients have a thread that repeats a request, a DELETE.
RequestsOf(p) ==
  {q \in Requests : /\ q.method \in MethodsOf(p)
                    /\ q.again => p \in {"occlient", "tizen"} /\ q.method = "DELETE"}

LEMMA RequestTyped ==
  ASSUME NEW p, NEW method \in MethodsOf(p) \cap Methods, NEW uri \in Uris
  PROVE  Request(method, uri) \in RequestsOf(p)
  BY DEF Request, RequestsOf, Requests

LEMMA AgainTyped ==
  ASSUME NEW p \in {"occlient", "tizen"}, NEW method \in Methods, NEW uri \in Uris
  PROVE  /\ Request(method, uri) \in RequestsOf(p)
         /\ method = "DELETE" => [Request(method, uri) EXCEPT !.again = TRUE] \in RequestsOf(p)
         /\ [Request(method, uri) EXCEPT !.ifOk = TRUE] \in RequestsOf(p)
  BY DEF Request, RequestsOf, Requests, MethodsOf

LEMMA AskTyped ==
  ASSUME NEW m \in Discoveries
  PROVE  \A i \in DOMAIN <<Request(m, Discovery)>> :
           <<Request(m, Discovery)>>[i].method \in Discoveries
<1>1. Request(m, Discovery).method = m
  BY DEF Request
<1>. QED
  BY <1>1

LEMMA MethodsTyped ==
  ASSUME NEW p \in Programs
  PROVE  MethodsOf(p) \subseteq Methods /\ "DISCOVER" \in MethodsOf(p)
  BY DEF Programs, MethodsOf, Methods, Single, Discoveries

-----------------------------------------------------------------------------
(* What the callbacks decide.                                              *)

Listings == [uri : Uris, secure : BOOLEAN]

\* The answers a callback may be called with.
AnswerType == [response : BOOLEAN, ok : BOOLEAN, payload : BOOLEAN, resources : Seq(Listings)]

LEMMA AnswersTyped == Answers \subseteq AnswerType
<1> SUFFICES ASSUME NEW a \in Answers PROVE a \in AnswerType
  OBVIOUS
<1>1. CASE a = NullAnswer
  BY <1>1 DEF NullAnswer, AnswerType
<1>2. CASE a = EmptyAnswer(TRUE) \/ a = EmptyAnswer(FALSE)
  <2>1. ASSUME NEW ok \in BOOLEAN PROVE EmptyAnswer(ok) \in AnswerType
    BY DEF EmptyAnswer, AnswerType
  <2>. QED
    BY <1>2, <2>1
<1>3. CASE a \in {Answer(list) : list \in ResourceLists}
  <2>1. PICK list \in ResourceLists : a = Answer(list)
    BY <1>3
  <2>2. list \in Seq(Listings)
    BY ClientsConstants DEF Listings
  <2>. QED
    BY <2>1, <2>2 DEF Answer, AnswerType
<1>. QED
  BY <1>1, <1>2, <1>3 DEF Answers

\* What is true of every outcome o of a callback of p: its type, the requests it makes, and
\* that requests are made only after the address was saved, except by the collection client;
\* in basicops they are made when a resource is inserted.
Sound(o, p) ==
  /\ o \in Outcomes
  /\ o.requests \in Seq(RequestsOf(p))
  /\ o.requests # <<>> => ~o.crash /\ (o.saves \/ p = "coll") /\ p # "basicops"
  /\ o.collects => p = "basicops"

LEMMA PlainSound ==
  ASSUME NEW p
  PROVE  Sound(Keep, p) /\ Sound(Delete, p) /\ Sound(Crash, p)
<1>1. Keep \in Outcomes /\ Keep.requests = <<>> /\ ~Keep.collects
  BY DEF Keep, Outcomes
<1>2. Delete \in Outcomes /\ Delete.requests = <<>> /\ ~Delete.collects
  BY <1>1 DEF Delete, Outcomes
<1>3. Crash \in Outcomes /\ Crash.requests = <<>> /\ ~Crash.collects
  BY <1>2 DEF Crash, Outcomes
<1>. QED
  BY <1>1, <1>2, <1>3 DEF Sound

\* The instances have the names and the outcomes of this module.
LEMMA Same ==
  /\ Occlient!Keep = Keep /\ Occlient!Delete = Delete /\ Occlient!Crash = Crash
  /\ \A m, u : Occlient!Request(m, u) = Request(m, u)
  /\ Occlient!Light = Light /\ Occlient!Led = Led /\ Occlient!Room = Room /\ Occlient!Unknown = Unknown
  /\ Occlient!Presence = Presence /\ Occlient!Discovery = Discovery /\ Occlient!Doxm = Doxm
  /\ Tizen!Keep = Keep /\ Tizen!Delete = Delete /\ Tizen!Crash = Crash
  /\ \A m, u : Tizen!Request(m, u) = Request(m, u)
  /\ Tizen!Light = Light /\ Tizen!Led = Led /\ Tizen!Room = Room /\ Tizen!Unknown = Unknown
  /\ Tizen!Presence = Presence /\ Tizen!Discovery = Discovery /\ Tizen!Doxm = Doxm
  /\ Remote!Keep = Keep /\ Remote!Delete = Delete /\ Remote!Crash = Crash
  /\ \A m, u : Remote!Request(m, u) = Request(m, u)
  /\ Remote!Light = Light /\ Remote!Led = Led /\ Remote!Room = Room /\ Remote!Unknown = Unknown
  /\ Remote!Presence = Presence /\ Remote!Discovery = Discovery /\ Remote!Doxm = Doxm
  /\ Coll!Keep = Keep /\ Coll!Delete = Delete /\ Coll!Crash = Crash
  /\ \A m, u : Coll!Request(m, u) = Request(m, u)
  /\ Coll!Light = Light /\ Coll!Led = Led /\ Coll!Room = Room /\ Coll!Unknown = Unknown
  /\ Coll!Presence = Presence /\ Coll!Discovery = Discovery /\ Coll!Doxm = Doxm
  /\ Basic!Keep = Keep /\ Basic!Delete = Delete /\ Basic!Crash = Crash
  /\ \A m, u : Basic!Request(m, u) = Request(m, u)
  /\ Basic!Light = Light /\ Basic!Led = Led /\ Basic!Room = Room /\ Basic!Unknown = Unknown
  /\ Basic!Presence = Presence /\ Basic!Discovery = Discovery /\ Basic!Doxm = Doxm
  /\ Ams!Keep = Keep /\ Ams!Delete = Delete /\ Ams!Crash = Crash
  /\ \A m, u : Ams!Request(m, u) = Request(m, u)
  /\ Ams!Light = Light /\ Ams!Led = Led /\ Ams!Room = Room /\ Ams!Unknown = Unknown
  /\ Ams!Presence = Presence /\ Ams!Discovery = Discovery /\ Ams!Doxm = Doxm
  /\ Slow!Keep = Keep /\ Slow!Delete = Delete /\ Slow!Crash = Crash
  /\ \A m, u : Slow!Request(m, u) = Request(m, u)
  /\ Slow!Light = Light /\ Slow!Led = Led /\ Slow!Room = Room /\ Slow!Unknown = Unknown
  /\ Slow!Presence = Presence /\ Slow!Discovery = Discovery /\ Slow!Doxm = Doxm
  BY DEF Keep, Delete, Crash, Request, Light, Led, Room, Unknown, Presence, Discovery, Doxm,
         Occlient!Keep, Occlient!Delete, Occlient!Crash, Occlient!Request, Occlient!Light,
         Occlient!Led, Occlient!Room, Occlient!Unknown, Occlient!Presence, Occlient!Discovery,
         Occlient!Doxm, Tizen!Keep, Tizen!Delete, Tizen!Crash, Tizen!Request, Tizen!Light,
         Tizen!Led, Tizen!Room, Tizen!Unknown, Tizen!Presence, Tizen!Discovery, Tizen!Doxm,
         Remote!Keep, Remote!Delete, Remote!Crash, Remote!Request, Remote!Light, Remote!Led,
         Remote!Room, Remote!Unknown, Remote!Presence, Remote!Discovery, Remote!Doxm, Coll!Keep,
         Coll!Delete, Coll!Crash, Coll!Request, Coll!Light, Coll!Led, Coll!Room, Coll!Unknown,
         Coll!Presence, Coll!Discovery, Coll!Doxm, Basic!Keep, Basic!Delete, Basic!Crash,
         Basic!Request, Basic!Light, Basic!Led, Basic!Room, Basic!Unknown, Basic!Presence,
         Basic!Discovery, Basic!Doxm, Ams!Keep, Ams!Delete, Ams!Crash, Ams!Request, Ams!Light,
         Ams!Led, Ams!Room, Ams!Unknown, Ams!Presence, Ams!Discovery, Ams!Doxm, Slow!Keep,
         Slow!Delete, Slow!Crash, Slow!Request, Slow!Light, Slow!Led, Slow!Room, Slow!Unknown,
         Slow!Presence, Slow!Discovery, Slow!Doxm

LEMMA OcclientRequests ==
  ASSUME NEW t, NEW u \in BOOLEAN
  PROVE  /\ Occlient!InitTest(t) \in Seq(RequestsOf("occlient"))
         /\ Occlient!main(t, u) \in Seq(RequestsOf("occlient"))
         /\ \A i \in DOMAIN Occlient!main(t, u) : Occlient!main(t, u)[i].method \in Discoveries
<1> DEFINE R == RequestsOf("occlient")
<1>1. /\ Request("GET", Light) \in R /\ Request("PUT", Light) \in R /\ Request("POST", Light) \in R
      /\ Request("OBSERVE", Light) \in R /\ Request("GET", Unknown) \in R
      /\ Request("PLATFORM", Discovery) \in R /\ Request("DEVICE", Discovery) \in R
      /\ Request("DISCOVER", Discovery) \in R /\ Request("PRESENCE", Presence) \in R
      /\ [Request("PRESENCE", Presence) EXCEPT !.ifOk = TRUE] \in R
      /\ [Request("DELETE", Light) EXCEPT !.again = TRUE] \in R
  BY Names, AgainTyped
<1>2. \A m, uri : Request(m, uri).method = m
  BY DEF Request
<1> HIDE DEF R
<1>3. /\ Occlient!InitGetRequest \in Seq(R) /\ Occlient!InitPutRequest \in Seq(R)
      /\ Occlient!InitPostRequest \in Seq(R) /\ Occlient!InitObserveRequest \in Seq(R)
      /\ Occlient!InitGetRequestToUnavailableResource \in Seq(R) /\ Occlient!InitDeleteRequest \in Seq(R)
  <2>1. Occlient!InitGetRequest \in Seq(R)
    BY <1>1, Same DEF Occlient!InitGetRequest
  <2>2. Occlient!InitPutRequest \in Seq(R)
    BY <1>1, Same DEF Occlient!InitPutRequest
  <2>3. Occlient!InitObserveRequest \in Seq(R)
    BY <1>1, Same DEF Occlient!InitObserveRequest
  <2>4. Occlient!InitGetRequestToUnavailableResource \in Seq(R)
    BY <1>1, Same DEF Occlient!InitGetRequestToUnavailableResource
  <2>5. Occlient!InitDeleteRequest \in Seq(R)
    <3> DEFINE d == [Request("DELETE", Light) EXCEPT !.again = TRUE]
    <3>1. d \in R /\ Occlient!InitDeleteRequest = <<d>>
      BY <1>1, Same DEF Occlient!InitDeleteRequest
    <3> HIDE DEF d
    <3>. QED
      BY <3>1
  <2>6. Occlient!InitPostRequest \in Seq(R)
    BY <1>1, Same DEF Occlient!InitPostRequest
  <2>. QED
    BY <2>1, <2>2, <2>3, <2>4, <2>5, <2>6
<1>4. /\ Occlient!InitPlatformDiscovery \in Seq(R) /\ Occlient!InitDeviceDiscovery \in Seq(R)
      /\ Occlient!InitDiscovery \in Seq(R)
  BY <1>1, Same DEF Occlient!InitPlatformDiscovery, Occlient!InitDeviceDiscovery,
         Occlient!InitDiscovery
<1>5. Occlient!InitPresence(t) \in Seq(R)
  <2> DEFINE one == Request("PRESENCE", Presence)
             other == [Request("PRESENCE", Presence) EXCEPT !.ifOk = TRUE]
  <2>1. one \in R /\ other \in R
    BY <1>1
  <2>2. Occlient!InitPresence(t) = IF t = "PRESENCE_WITH_FILTERS" THEN <<one, other>> ELSE <<one>>
    BY Same DEF Occlient!InitPresence
  <2> HIDE DEF one, other
  <2>3. <<one, other>> \in Seq(R) /\ <<one>> \in Seq(R)
    BY <2>1
  <2>. QED
    BY <2>2, <2>3
<1>6. Occlient!InitTest(t) \in Seq(R)
  <2>1. <<>> \in Seq(R)
    OBVIOUS
  <2>. QED
    BY <1>3, <1>4, <1>5, <2>1 DEF Occlient!InitTest
<1>7. Occlient!main(t, u) \in Seq(R)
  BY <1>4 DEF Occlient!main
<1>8. \A i \in DOMAIN Occlient!main(t, u) : Occlient!main(t, u)[i].method \in Discoveries
  <2>1. \E m \in Discoveries : Occlient!main(t, u) = <<Request(m, Discovery)>>
    BY Same, Names DEF Occlient!main, Occlient!InitPlatformDiscovery,
           Occlient!InitDeviceDiscovery, Occlient!InitDiscovery
  <2>. QED
    BY <2>1, AskTyped
<1>. QED
  BY <1>6, <1>7, <1>8 DEF R

LEMMA OcclientSound ==
  ASSUME NEW t, NEW u \in BOOLEAN, NEW a \in AnswerType, NEW r, NEW n \in Nat
  PROVE  /\ Sound(Occlient!discoveryReqCB(t, a), "occlient")
         /\ Occlient!discoveryReqCB(t, a).requests # <<>> =>
              \E i \in DOMAIN a.resources : a.resources[i].uri = Light
         /\ \A o \in {Occlient!PlatformDiscoveryReqCB(u), Occlient!DeviceDiscoveryReqCB(u)} :
              Sound(o, "occlient") /\ o.requests = <<>>
         /\ Sound(Occlient!obsReqCB(t, r, n), "occlient") /\ Occlient!obsReqCB(t, r, n).requests = <<>>
         /\ Sound(Occlient!presenceCB(r, n), "occlient") /\ Occlient!presenceCB(r, n).requests = <<>>
<1> DEFINE R == RequestsOf("occlient")
<1>1. Occlient!InitTest(t) \in Seq(R) /\ Occlient!InitTest(t) \in Seq(Requests)
  <2>1. Occlient!InitTest(t) \in Seq(R)
    BY OcclientRequests
  <2>. QED
    BY <2>1 DEF RequestsOf
<1>2. <<>> \in Seq(R) /\ <<>> \in Seq(Requests)
  OBVIOUS
<1> HIDE DEF R
<1>3. /\ Sound(Occlient!discoveryReqCB(t, a), "occlient")
      /\ Occlient!discoveryReqCB(t, a).requests # <<>> =>
           \E i \in DOMAIN a.resources : a.resources[i].uri = Light
  BY <1>1, <1>2, Same DEF R, Sound, Outcomes, AnswerType, Keep, Delete, Occlient!discoveryReqCB,
         Occlient!Lists
<1>4. ASSUME NEW o \in {Occlient!PlatformDiscoveryReqCB(u), Occlient!DeviceDiscoveryReqCB(u)}
      PROVE  Sound(o, "occlient") /\ o.requests = <<>>
  BY <1>2, <1>4, Same DEF R, Sound, Outcomes, Keep, Delete, Occlient!PlatformDiscoveryReqCB,
         Occlient!DeviceDiscoveryReqCB
<1>5. Sound(Occlient!obsReqCB(t, r, n), "occlient") /\ Occlient!obsReqCB(t, r, n).requests = <<>>
  BY <1>2, Same DEF R, Sound, Outcomes, Keep, Delete, Occlient!obsReqCB, Occlient!KeepUnlessOver
<1>6. Sound(Occlient!presenceCB(r, n), "occlient") /\ Occlient!presenceCB(r, n).requests = <<>>
  BY <1>2, Same DEF R, Sound, Outcomes, Keep, Delete, Occlient!presenceCB
<1>. QED
  BY <1>3, <1>4, <1>5, <1>6

LEMMA TizenRequests ==
  ASSUME NEW t, NEW u \in BOOLEAN
  PROVE  /\ Tizen!InitTest(t) \in Seq(RequestsOf("tizen"))
         /\ Tizen!GMainLoopThread(t, u) \in Seq(RequestsOf("tizen"))
         /\ \A i \in DOMAIN Tizen!GMainLoopThread(t, u) :
              Tizen!GMainLoopThread(t, u)[i].method \in Discoveries
<1> DEFINE R == RequestsOf("tizen")
<1>1. /\ Request("GET", Light) \in R /\ Request("PUT", Light) \in R /\ Request("POST", Light) \in R
      /\ Request("OBSERVE", Light) \in R /\ Request("GET", Unknown) \in R
      /\ Request("PLATFORM", Discovery) \in R /\ Request("DEVICE", Discovery) \in R
      /\ Request("DISCOVER", Discovery) \in R /\ Request("PRESENCE", Presence) \in R
      /\ [Request("PRESENCE", Presence) EXCEPT !.ifOk = TRUE] \in R
      /\ [Request("DELETE", Light) EXCEPT !.again = TRUE] \in R
  BY Names, AgainTyped
<1>2. \A m, uri : Request(m, uri).method = m
  BY DEF Request
<1> HIDE DEF R
<1>3. /\ Tizen!InitGetRequest \in Seq(R) /\ Tizen!InitPutRequest \in Seq(R)
      /\ Tizen!InitPostRequest \in Seq(R) /\ Tizen!InitObserveRequest \in Seq(R)
      /\ Tizen!InitGetRequestToUnavailableResource \in Seq(R) /\ Tizen!InitDeleteRequest \in Seq(R)
  <2>1. Tizen!InitGetRequest \in Seq(R)
    BY <1>1, Same DEF Tizen!InitGetRequest
  <2>2. Tizen!InitPutRequest \in Seq(R)
    BY <1>1, Same DEF Tizen!InitPutRequest
  <2>3. Tizen!InitObserveRequest \in Seq(R)
    BY <1>1, Same DEF Tizen!InitObserveRequest
  <2>4. Tizen!InitGetRequestToUnavailableResource \in Seq(R)
    BY <1>1, Same DEF Tizen!InitGetRequestToUnavailableResource
  <2>5. Tizen!InitDeleteRequest \in Seq(R)
    <3> DEFINE d == [Request("DELETE", Light) EXCEPT !.again = TRUE]
    <3>1. d \in R /\ Tizen!InitDeleteRequest = <<d>>
      BY <1>1, Same DEF Tizen!InitDeleteRequest
    <3> HIDE DEF d
    <3>. QED
      BY <3>1
  <2>6. Tizen!InitPostRequest \in Seq(R)
    BY <1>1, Same DEF Tizen!InitPostRequest
  <2>. QED
    BY <2>1, <2>2, <2>3, <2>4, <2>5, <2>6
<1>4. /\ Tizen!InitPlatformDiscovery \in Seq(R) /\ Tizen!InitDeviceDiscovery \in Seq(R)
      /\ Tizen!InitDiscovery \in Seq(R)
  BY <1>1, Same DEF Tizen!InitPlatformDiscovery, Tizen!InitDeviceDiscovery, Tizen!InitDiscovery
<1>5. Tizen!InitPresence(t) \in Seq(R)
  <2> DEFINE one == Request("PRESENCE", Presence)
             other == [Request("PRESENCE", Presence) EXCEPT !.ifOk = TRUE]
  <2>1. one \in R /\ other \in R
    BY <1>1
  <2>2. Tizen!InitPresence(t) = IF t = "PRESENCE_WITH_FILTERS" THEN <<one, other>> ELSE <<one>>
    BY Same DEF Tizen!InitPresence
  <2> HIDE DEF one, other
  <2>3. <<one, other>> \in Seq(R) /\ <<one>> \in Seq(R)
    BY <2>1
  <2>. QED
    BY <2>2, <2>3
<1>6. Tizen!InitTest(t) \in Seq(R)
  <2>1. <<>> \in Seq(R)
    OBVIOUS
  <2>. QED
    BY <1>3, <1>4, <1>5, <2>1 DEF Tizen!InitTest
<1>7. Tizen!GMainLoopThread(t, u) \in Seq(R)
  BY <1>4 DEF Tizen!GMainLoopThread
<1>8. \A i \in DOMAIN Tizen!GMainLoopThread(t, u) : Tizen!GMainLoopThread(t, u)[i].method \in Discoveries
  <2>1. \E m \in Discoveries : Tizen!GMainLoopThread(t, u) = <<Request(m, Discovery)>>
    BY Same, Names DEF Tizen!GMainLoopThread, Tizen!InitPlatformDiscovery,
           Tizen!InitDeviceDiscovery, Tizen!InitDiscovery
  <2>. QED
    BY <2>1, AskTyped
<1>. QED
  BY <1>6, <1>7, <1>8 DEF R

LEMMA TizenSound ==
  ASSUME NEW t, NEW u \in BOOLEAN, NEW a \in AnswerType, NEW r, NEW n \in Nat
  PROVE  /\ Sound(Tizen!discoveryReqCB(t, a), "tizen")
         /\ ~Tizen!discoveryReqCB(t, a).crash
         /\ \A o \in {Tizen!PlatformDiscoveryReqCB(u), Tizen!DeviceDiscoveryReqCB(u)} :
              Sound(o, "tizen") /\ o.requests = <<>>
         /\ Sound(Tizen!obsReqCB(t, r, n), "tizen") /\ Tizen!obsReqCB(t, r, n).requests = <<>>
         /\ Sound(Tizen!presenceCB(r, n), "tizen") /\ Tizen!presenceCB(r, n).requests = <<>>
<1> DEFINE R == RequestsOf("tizen")
<1>1. Tizen!InitTest(t) \in Seq(R) /\ Tizen!InitTest(t) \in Seq(Requests)
  <2>1. Tizen!InitTest(t) \in Seq(R)
    BY TizenRequests
  <2>. QED
    BY <2>1 DEF RequestsOf
<1>2. <<>> \in Seq(R) /\ <<>> \in Seq(Requests)
  OBVIOUS
<1> HIDE DEF R
<1>3. /\ Sound(Tizen!discoveryReqCB(t, a), "tizen")
      /\ ~Tizen!discoveryReqCB(t, a).crash
  BY <1>1, <1>2, Same DEF R, Sound, Outcomes, AnswerType, Keep, Delete, Tizen!discoveryReqCB
<1>4. ASSUME NEW o \in {Tizen!PlatformDiscoveryReqCB(u), Tizen!DeviceDiscoveryReqCB(u)}
      PROVE  Sound(o, "tizen") /\ o.requests = <<>>
  BY <1>2, <1>4, Same DEF R, Sound, Outcomes, Keep, Delete, Tizen!PlatformDiscoveryReqCB,
         Tizen!DeviceDiscoveryReqCB
<1>5. Sound(Tizen!obsReqCB(t, r, n), "tizen") /\ Tizen!obsReqCB(t, r, n).requests = <<>>
  BY <1>2, Same DEF R, Sound, Outcomes, Keep, Delete, Tizen!obsReqCB, Tizen!KeepUnlessOver
<1>6. Sound(Tizen!presenceCB(r, n), "tizen") /\ Tizen!presenceCB(r, n).requests = <<>>
  BY <1>2, Same DEF R, Sound, Outcomes, Keep, Delete, Tizen!presenceCB
<1>. QED
  BY <1>3, <1>4, <1>5, <1>6

LEMMA RemoteSound ==
  ASSUME NEW t, NEW u \in BOOLEAN, NEW a \in AnswerType
  PROVE  /\ Sound(Remote!discoveryReqCB(t, a), "remote")
         /\ Remote!main \in Seq(RequestsOf("remote"))
         /\ \A i \in DOMAIN Remote!main : Remote!main[i].method \in Discoveries
         /\ \A r, n : /\ Sound(Remote!obsReqCB(t, r, n), "remote")
                      /\ Remote!obsReqCB(t, r, n).requests = <<>>
<1> DEFINE R == RequestsOf("remote")
<1>1. /\ Request("DELETE", Light) \in R
      /\ Request("DISCOVER", Discovery) \in R
      /\ Request("GET", Light) \in R
      /\ Request("OBSERVE", Light) \in R
      /\ Request("POST", Light) \in R
      /\ Request("PUT", Light) \in R
  BY Names, RequestTyped DEF MethodsOf
<1>2. \A m, uri : Request(m, uri).method = m
  BY DEF Request
<1>3. R \subseteq Requests
  BY DEF RequestsOf
<1> HIDE DEF R
<1>4. /\ Remote!InitGetRequest \in Seq(R) /\ Remote!InitGetRequest \in Seq(Requests)
      /\ Remote!InitPutRequest \in Seq(R) /\ Remote!InitPutRequest \in Seq(Requests)
      /\ Remote!InitPostRequest \in Seq(R) /\ Remote!InitPostRequest \in Seq(Requests)
      /\ Remote!InitDeleteRequest \in Seq(R) /\ Remote!InitDeleteRequest \in Seq(Requests)
      /\ Remote!InitObserveRequest \in Seq(R) /\ Remote!InitObserveRequest \in Seq(Requests)
      /\ Remote!InitDiscovery \in Seq(R) /\ Remote!InitDiscovery \in Seq(Requests)
      /\ <<>> \in Seq(R) /\ <<>> \in Seq(Requests)
  BY <1>1, <1>3, Same DEF Remote!InitGetRequest, Remote!InitPutRequest, Remote!InitPostRequest,
         Remote!InitDeleteRequest, Remote!InitObserveRequest, Remote!InitDiscovery
<1>5. Sound(Remote!discoveryReqCB(t, a), "remote")
  BY <1>4, Same DEF R, Sound, Outcomes, AnswerType, Keep, Delete, Crash, Remote!discoveryReqCB
<1>6. /\ Remote!main \in Seq(R)
      /\ \A i \in DOMAIN Remote!main : Remote!main[i].method \in Discoveries
  <2>1. Remote!main = <<Request("DISCOVER", Discovery)>> /\ "DISCOVER" \in Discoveries
    BY Same, Names DEF Remote!main, Remote!InitDiscovery
  <2>. QED
    BY <1>1, <2>1, AskTyped
<1>7. ASSUME NEW r, NEW n
      PROVE  Sound(Remote!obsReqCB(t, r, n), "remote") /\ Remote!obsReqCB(t, r, n).requests = <<>>
  <2>1. Sound(Remote!obsReqCB(t, r, n), "remote")
    BY <1>4, Same DEF R, Sound, Outcomes, Keep, Delete, Crash, Remote!obsReqCB,
           Remote!KeepUnlessOver
  <2>2. Remote!obsReqCB(t, r, n).requests = <<>>
    BY Same DEF Keep, Delete, Crash, Remote!obsReqCB, Remote!KeepUnlessOver
  <2>. QED
    BY <2>1, <2>2
<1>. QED
  BY <1>5, <1>6, <1>7 DEF R

LEMMA CollSound ==
  ASSUME NEW t, NEW u \in BOOLEAN, NEW a \in AnswerType
  PROVE  /\ Sound(Coll!discoveryReqCB(t, a), "coll")
         /\ Coll!main \in Seq(RequestsOf("coll"))
         /\ \A i \in DOMAIN Coll!main : Coll!main[i].method \in Discoveries
         /\ \A r, n : Sound(Coll!getReqCB(t, r, n), "coll") /\ Sound(Coll!putReqCB(r), "coll")
<1> DEFINE R == RequestsOf("coll")
<1>1. /\ Request("DISCOVER", Discovery) \in R
      /\ Request("GET", Room) \in R
      /\ Request("GET", Unknown) \in R
      /\ Request("PUT", Room) \in R
  BY Names, RequestTyped DEF MethodsOf
<1>2. \A m, uri : Request(m, uri).method = m
  BY DEF Request
<1>3. R \subseteq Requests
  BY DEF RequestsOf
<1> HIDE DEF R
<1>4. /\ Coll!InitGetRequest \in Seq(R) /\ Coll!InitGetRequest \in Seq(Requests)
      /\ Coll!InitPutRequest \in Seq(R) /\ Coll!InitPutRequest \in Seq(Requests)
      /\ Coll!InitGetRequestToUnavailableResource \in Seq(R)
      /\ Coll!InitGetRequestToUnavailableResource \in Seq(Requests)
      /\ Coll!InitDiscovery \in Seq(R) /\ Coll!InitDiscovery \in Seq(Requests)
      /\ <<>> \in Seq(R) /\ <<>> \in Seq(Requests)
  BY <1>1, <1>3, Same DEF Coll!InitGetRequest, Coll!InitPutRequest,
         Coll!InitGetRequestToUnavailableResource, Coll!InitDiscovery
<1>5. Sound(Coll!discoveryReqCB(t, a), "coll")
  BY <1>4, Same DEF R, Sound, Outcomes, AnswerType, Keep, Delete, Crash, Coll!discoveryReqCB
<1>6. /\ Coll!main \in Seq(R)
      /\ \A i \in DOMAIN Coll!main : Coll!main[i].method \in Discoveries
  <2>1. Coll!main = <<Request("DISCOVER", Discovery)>> /\ "DISCOVER" \in Discoveries
    BY Same, Names DEF Coll!main, Coll!InitDiscovery
  <2>. QED
    BY <1>1, <2>1, AskTyped
<1>7. \A r, n : Sound(Coll!getReqCB(t, r, n), "coll") /\ Sound(Coll!putReqCB(r), "coll")
  BY <1>4, Same DEF R, Sound, Outcomes, Keep, Delete, Crash, Coll!getReqCB, Coll!putReqCB
<1>. QED
  BY <1>5, <1>6, <1>7 DEF R

LEMMA SlowSound ==
  ASSUME NEW t, NEW u \in BOOLEAN, NEW a \in AnswerType
  PROVE  /\ Sound(Slow!discoveryReqCB(t, u, a), "slow")
         /\ Slow!main \in Seq(RequestsOf("slow"))
         /\ \A i \in DOMAIN Slow!main : Slow!main[i].method \in Discoveries
<1> DEFINE R == RequestsOf("slow")
<1>1. /\ Request("DISCOVER", Discovery) \in R
      /\ Request("GET", Led) \in R
      /\ Request("PUT", Led) \in R
  BY Names, RequestTyped DEF MethodsOf
<1>2. \A m, uri : Request(m, uri).method = m
  BY DEF Request
<1>3. R \subseteq Requests
  BY DEF RequestsOf
<1> HIDE DEF R
<1>4. /\ Slow!InitGetRequest \in Seq(R) /\ Slow!InitGetRequest \in Seq(Requests)
      /\ Slow!InitPutRequest \in Seq(R) /\ Slow!InitPutRequest \in Seq(Requests)
      /\ Slow!InitDiscovery \in Seq(R) /\ Slow!InitDiscovery \in Seq(Requests)
      /\ <<>> \in Seq(R) /\ <<>> \in Seq(Requests)
  BY <1>1, <1>3, Same DEF Slow!InitGetRequest, Slow!InitPutRequest, Slow!InitDiscovery
<1>5. Sound(Slow!discoveryReqCB(t, u, a), "slow")
  BY <1>4, Same DEF R, Sound, Outcomes, AnswerType, Keep, Delete, Crash, Slow!discoveryReqCB
<1>6. /\ Slow!main \in Seq(R)
      /\ \A i \in DOMAIN Slow!main : Slow!main[i].method \in Discoveries
  <2>1. Slow!main = <<Request("DISCOVER", Discovery)>> /\ "DISCOVER" \in Discoveries
    BY Same, Names DEF Slow!main, Slow!InitDiscovery
  <2>. QED
    BY <1>1, <2>1, AskTyped
<1>. QED
  BY <1>5, <1>6 DEF R

LEMMA BasicSound ==
  ASSUME NEW u \in BOOLEAN, NEW a \in AnswerType
  PROVE  /\ Sound(Basic!discoveryReqCB(u, a), "basicops")
         /\ Basic!discoveryReqCB(u, a).requests = <<>>
         /\ Basic!main \in Seq(RequestsOf("basicops"))
         /\ \A i \in DOMAIN Basic!main : Basic!main[i].method \in Discoveries
<1> DEFINE R == RequestsOf("basicops")
<1>1. Request("DISCOVER", Discovery) \in R
  BY Names, RequestTyped DEF MethodsOf
<1>2. <<>> \in Seq(R) /\ <<>> \in Seq(Requests)
  OBVIOUS
<1> HIDE DEF R
<1>3. /\ Sound(Basic!discoveryReqCB(u, a), "basicops")
      /\ Basic!discoveryReqCB(u, a).requests = <<>>
  BY <1>2, Same DEF R, Sound, Outcomes, AnswerType, Keep, Delete, Crash, Basic!discoveryReqCB
<1>4. Basic!main = <<Request("DISCOVER", Discovery)>> /\ "DISCOVER" \in Discoveries
  BY Same, Names DEF Basic!main, Basic!InitDiscovery
<1>5. Basic!main \in Seq(R)
  BY <1>1, <1>4
<1>6. \A i \in DOMAIN Basic!main : Basic!main[i].method \in Discoveries
  BY <1>4, AskTyped
<1>. QED
  BY <1>3, <1>5, <1>6 DEF R

\* A resource is queried with one GET, which comes first, and with PUT and POST.
LEMMA QuerySound ==
  ASSUME NEW t, NEW list, list # <<>>, Head(list).uri \in Uris
  PROVE  LET query == Basic!queryResource(t, list)
         IN /\ query \in Seq(RequestsOf("basicops")) /\ Len(query) \in 0 .. 5
            /\ \A j \in DOMAIN query : /\ query[j].uri = Head(list).uri
                                       /\ query[j].method \in Single
                                       /\ query[j].method = "GET" => j = 1
<1> DEFINE uri == Head(list).uri
           R == RequestsOf("basicops")
           query == Basic!queryResource(t, list)
           three == [i \in 1 .. 3 |-> Request("POST", uri)]
           op == <<Request("GET", uri)>> \o <<Request("PUT", uri)>> \o three
<1>1. query = IF t = "OP" THEN op ELSE <<>>
  BY Same DEF Basic!queryResource, Basic!getResource, Basic!InitGetRequest,
         Basic!InitPutRequest, Basic!InitPostRequest
<1>2. \A m \in {"GET", "PUT", "POST"} :
        /\ Request(m, uri) \in R /\ Request(m, uri).uri = uri
        /\ Request(m, uri).method = m /\ m \in Single
  <2>1. ASSUME NEW m \in {"GET", "PUT", "POST"}
        PROVE  m \in MethodsOf("basicops") \cap Methods
    BY DEF MethodsOf, Methods, Single
  <2>2. ASSUME NEW m \in {"GET", "PUT", "POST"}
        PROVE  Request(m, uri).uri = uri /\ Request(m, uri).method = m
    BY DEF Request
  <2>3. ASSUME NEW m \in {"GET", "PUT", "POST"}
        PROVE  Request(m, uri) \in R
    BY <2>1, RequestTyped
  <2>4. {"GET", "PUT", "POST"} \subseteq Single
    BY DEF Single
  <2>. QED
    BY <2>2, <2>3, <2>4
<1> DEFINE get == Request("GET", uri)
           put == Request("PUT", uri)
           post == Request("POST", uri)
<1>3. /\ op = <<get>> \o <<put>> \o [i \in 1 .. 3 |-> post]
      /\ get \in R /\ put \in R /\ post \in R
      /\ get.uri = uri /\ put.uri = uri /\ post.uri = uri
      /\ get.method = "GET" /\ put.method = "PUT" /\ post.method = "POST"
      /\ {"GET", "PUT", "POST"} \subseteq Single
  BY <1>2
<1> HIDE DEF get, put, post, uri, R
<1>4. /\ op \in Seq(R) /\ DOMAIN op = 1 .. 5 /\ Len(op) = 5
      /\ op[1] = get /\ op[2] = put /\ op[3] = post /\ op[4] = post /\ op[5] = post
  <2>1. [i \in 1 .. 3 |-> post] \in Seq(R) /\ <<get>> \in Seq(R) /\ <<put>> \in Seq(R)
    BY <1>3
  <2>2. /\ Len([i \in 1 .. 3 |-> post]) = 3 /\ <<get>> \o <<put>> \in Seq(R)
        /\ Len(<<get>> \o <<put>>) = 2
        /\ (<<get>> \o <<put>>)[1] = get /\ (<<get>> \o <<put>>)[2] = put
    BY <2>1
  <2>3. Len(op) = 5
    BY <2>1, <2>2, <1>3
  <2>. QED
    BY <2>1, <2>2, <2>3, <1>3
<1>5. <<>> \in Seq(R) /\ DOMAIN <<>> = {} /\ Len(<<>>) = 0
  OBVIOUS
<1> HIDE DEF op
<1>6. query \in Seq(R) /\ Len(query) \in 0 .. 5
  BY <1>1, <1>4, <1>5
<1>7. ASSUME NEW j \in DOMAIN query
      PROVE  /\ query[j].uri = uri /\ query[j].method \in Single
             /\ query[j].method = "GET" => j = 1
  <2>1. query = op /\ j \in 1 .. 5
    BY <1>1, <1>4, <1>5
  <2>2. CASE j = 1
    BY <2>1, <2>2, <1>3, <1>4
  <2>3. CASE j = 2
    BY <2>1, <2>3, <1>3, <1>4
  <2>4. CASE j \in 3 .. 5
    BY <2>1, <2>4, <1>3, <1>4
  <2>. QED
    BY <2>1, <2>2, <2>3, <2>4
<1>. QED
  BY <1>6, <1>7 DEF R, uri

\* What is asked for is what the answer lists, and at a secure port only what it lists as
\* secure, doxm excluded.
AsksForListed(o, a) ==
  \A j \in DOMAIN o.requests :
    \/ o.requests[j].uri = "" /\ ~o.secure
    \/ \E i \in DOMAIN a.resources :
         /\ a.resources[i].uri = o.requests[j].uri
         /\ o.secure => o.requests[j].uri # Doxm /\ a.resources[i].secure

LEMMA AmsSound ==
  ASSUME NEW t, NEW u \in BOOLEAN, NEW a \in AnswerType
  PROVE  /\ Sound(Ams!discoveryReqCB(t, u, a), "ams")
         /\ AsksForListed(Ams!discoveryReqCB(t, u, a), a)
         /\ Ams!main \in Seq(RequestsOf("ams"))
         /\ \A i \in DOMAIN Ams!main : Ams!main[i].method \in Discoveries
<1> DEFINE R == RequestsOf("ams")
           o == Ams!discoveryReqCB(t, u, a)
           target == Ams!parseClientResponse(a.resources)
           first == Ams!FirstSecure(a.resources)
<1>1. Request("DISCOVER", Discovery) \in R
  BY Names, RequestTyped DEF MethodsOf
<1>2. a.resources \in Seq(Listings)
  BY DEF AnswerType
<1>3. /\ target.secure \in BOOLEAN /\ target.uri \in Uris
      /\ \/ target.uri = "" /\ ~target.secure
         \/ \E i \in DOMAIN a.resources :
              /\ a.resources[i].uri = target.uri
              /\ target.secure => target.uri # Doxm /\ a.resources[i].secure
  <2>1. CASE a.resources = <<>>
    BY <2>1, Names DEF Ams!parseClientResponse
  <2>2. CASE a.resources # <<>> /\ first = {}
    <3>1. Len(a.resources) \in DOMAIN a.resources
      BY <1>2, <2>2
    <3>2. target = [uri |-> a.resources[Len(a.resources)].uri, secure |-> FALSE]
      BY <2>2 DEF Ams!parseClientResponse
    <3>3. a.resources[Len(a.resources)] \in Listings
      BY <3>1, <1>2
    <3>4. target.uri = a.resources[Len(a.resources)].uri /\ target.secure = FALSE
      BY <3>2
    <3> HIDE DEF target
    <3>. QED
      BY <3>1, <3>3, <3>4 DEF Listings
  <2>3. CASE a.resources # <<>> /\ first # {}
    <3>1. PICK i : i = CHOOSE k \in first : TRUE
      OBVIOUS
    <3>2. i \in first
      BY <3>1, <2>3
    <3>3. i \in DOMAIN a.resources /\ a.resources[i].secure /\ a.resources[i].uri # Doxm
      BY <3>2, Same DEF Ams!FirstSecure
    <3>4. target = [uri |-> a.resources[i].uri, secure |-> TRUE]
      BY <3>1, <2>3 DEF Ams!parseClientResponse
    <3>5. a.resources[i] \in Listings
      BY <3>3, <1>2
    <3>. QED
      BY <3>3, <3>4, <3>5 DEF Listings
  <2>. QED
    BY <2>1, <2>2, <2>3
<1> DEFINE get == Request("GET", target.uri)
           put == Request("PUT", target.uri)
           op == <<get>> \o <<put>>
<1>4. get \in R /\ put \in R /\ get.uri = target.uri /\ put.uri = target.uri
  <2>1. "GET" \in MethodsOf("ams") \cap Methods /\ "PUT" \in MethodsOf("ams") \cap Methods
    BY DEF MethodsOf, Methods, Single
  <2>2. get.uri = target.uri /\ put.uri = target.uri
    BY DEF Request
  <2>. QED
    BY <2>1, <2>2, <1>3, RequestTyped
<1>5. R \subseteq Requests
  BY DEF RequestsOf
<1>6. <<>> \in Seq(R) /\ <<>> \in Seq(Requests) /\ DOMAIN <<>> = {}
  OBVIOUS
<1>7. o = IF ~a.ok THEN [Keep EXCEPT !.keep = ~u]
          ELSE IF ~a.payload THEN Crash
          ELSE [Keep EXCEPT !.keep = ~u, !.saves = TRUE, !.secure = target.secure,
                            !.requests = IF t = "OP" THEN op ELSE <<>>]
  BY Same DEF Ams!discoveryReqCB, Ams!InitGetRequest, Ams!InitPutRequest
<1> HIDE DEF R, o, target, get, put
<1>8. /\ op \in Seq(R) /\ op \in Seq(Requests)
      /\ \A j \in DOMAIN op : op[j].uri = target.uri
  BY <1>4, <1>5
<1> HIDE DEF op
<1>9. Sound(o, "ams")
  BY <1>3, <1>6, <1>7, <1>8 DEF R, Sound, Outcomes, Keep, Delete, Crash
<1>10. ASSUME NEW j \in DOMAIN o.requests
       PROVE  o.requests[j].uri = target.uri /\ o.secure = target.secure
  BY <1>6, <1>7, <1>8 DEF Keep, Delete, Crash
<1>11. Ams!main = <<Request("DISCOVER", Discovery)>> /\ "DISCOVER" \in Discoveries
  BY Same, Names DEF Ams!main, Ams!InitDiscovery
<1>12. Ams!main \in Seq(R)
  BY <1>1, <1>11
<1>13. \A i \in DOMAIN Ams!main : Ams!main[i].method \in Discoveries
  BY <1>11, AskTyped
<1>14. AsksForListed(o, a)
  BY <1>3, <1>10 DEF AsksForListed
<1>. QED
  BY <1>9, <1>12, <1>13, <1>14 DEF R, o

LEMMA FirstSound ==
  ASSUME ConfigOK
  PROVE  LET first == FirstRequests(program, test, unicast)
         IN first \in Seq(RequestsOf(program)) /\ \A j \in DOMAIN first : first[j].method \in Discoveries
<1>1. NullAnswer \in AnswerType
  BY AnswersTyped DEF Answers
<1>. QED
  BY <1>1, OcclientRequests, TizenRequests, RemoteSound, CollSound, BasicSound, AmsSound, SlowSound
     DEF ConfigOK, Programs, FirstRequests

\* What an answer to a discovery makes a program do: the light client runs its test against a
\* responder that lists /a/light, and the client of ams asks for what the answer lists.
LEMMA AnswerSound ==
  ASSUME ConfigOK, NEW m \in MethodsOf(program) \cap Discoveries, NEW a \in AnswerType
  PROVE  LET o == AnswerOutcome(m, a)
         IN /\ Sound(o, program)
            /\ program = "occlient" /\ o.requests # <<>> =>
                 \E i \in DOMAIN a.resources : a.resources[i].uri = Light
            /\ program = "ams" => AsksForListed(o, a)
<1>1. CASE m = "DISCOVER"
  <2>1. AnswerOutcome(m, a) = DiscoverOutcome(a)
    BY <1>1 DEF AnswerOutcome
  <2>2. CASE program = "occlient"
    BY <2>1, <2>2, OcclientSound DEF ConfigOK, DiscoverOutcome
  <2>3. CASE program = "tizen"
    BY <2>1, <2>3, TizenSound DEF ConfigOK, DiscoverOutcome
  <2>4. CASE program = "remote"
    BY <2>1, <2>4, RemoteSound DEF ConfigOK, DiscoverOutcome
  <2>5. CASE program = "coll"
    BY <2>1, <2>5, CollSound DEF ConfigOK, DiscoverOutcome
  <2>6. CASE program = "basicops"
    BY <2>1, <2>6, BasicSound DEF ConfigOK, DiscoverOutcome
  <2>7. CASE program = "ams"
    <3>1. DiscoverOutcome(a) = Ams!discoveryReqCB(test, unicast, a)
      BY <2>7 DEF DiscoverOutcome
    <3>. QED
      BY <2>1, <2>7, <3>1, AmsSound DEF ConfigOK
  <2>8. CASE program = "slow"
    BY <2>1, <2>8, SlowSound DEF ConfigOK, DiscoverOutcome
  <2>. QED
    BY <2>2, <2>3, <2>4, <2>5, <2>6, <2>7, <2>8 DEF ConfigOK, Programs
<1>2. CASE m # "DISCOVER"
  <2>1. m \in {"PLATFORM", "DEVICE"} /\ program \in {"occlient", "tizen"}
    BY <1>2 DEF ConfigOK, Programs, MethodsOf, Discoveries, Single
  <2>2. CASE program = "occlient"
    <3>1. AnswerOutcome(m, a) \in {Occlient!PlatformDiscoveryReqCB(unicast),
                                   Occlient!DeviceDiscoveryReqCB(unicast)}
      BY <2>1, <2>2 DEF AnswerOutcome
    <3>. QED
      BY <2>2, <3>1, OcclientSound DEF ConfigOK
  <2>3. CASE program = "tizen"
    <3>1. AnswerOutcome(m, a) \in {Tizen!PlatformDiscoveryReqCB(unicast),
                                   Tizen!DeviceDiscoveryReqCB(unicast)}
      BY <2>1, <2>3 DEF AnswerOutcome
    <3>. QED
      BY <2>3, <3>1, TizenSound DEF ConfigOK
  <2>. QED
    BY <2>1, <2>2, <2>3
<1>. QED
  BY <1>1, <1>2

\* What the callback of a request or of a subscription does.
ResponseOutcome(m, r) ==
  IF m \in Single THEN SingleOutcome(m, r) ELSE NotificationOutcome(m, r)

LEMMA ResponseSound ==
  ASSUME ConfigOK, CountersOK, NEW m \in MethodsOf(program) \ Discoveries, NEW r
  PROVE  LET o == ResponseOutcome(m, r)
         IN Sound(o, program) /\ (o.requests # <<>> => program = "coll") /\ ~o.collects
<1>1. CASE m \in Single
  <2>1. CASE program # "coll"
    <3>1. ResponseOutcome(m, r) = Delete
      BY <1>1, <2>1 DEF ResponseOutcome, SingleOutcome, ConfigOK, Programs
    <3>2. Delete.requests = <<>> /\ ~Delete.collects
      BY DEF Delete, Keep
    <3>. QED
      BY <3>1, <3>2, PlainSound
  <2>2. CASE program = "coll"
    <3>1. m \in {"GET", "PUT"}
      BY <2>2 DEF MethodsOf, Discoveries
    <3>2. NullAnswer \in AnswerType
      BY AnswersTyped DEF Answers
    <3>3. CASE m = "GET"
      <4>1. ResponseOutcome(m, r) = Coll!getReqCB(test, r, gNumObserveNotifies + 1)
        BY <1>1, <2>2, <3>3 DEF ResponseOutcome, SingleOutcome
      <4>. QED
        BY <2>2, <3>2, <4>1, CollSound DEF ConfigOK, Sound
    <3>4. CASE m = "PUT"
      <4>1. ResponseOutcome(m, r) = Coll!putReqCB(r)
        BY <1>1, <2>2, <3>4 DEF ResponseOutcome, SingleOutcome
      <4>. QED
        BY <2>2, <3>2, <4>1, CollSound DEF ConfigOK, Sound
    <3>. QED
      BY <3>1, <3>3, <3>4
  <2>. QED
    BY <2>1, <2>2
<1>2. CASE m \notin Single
  <2>1. /\ m \in {"OBSERVE", "PRESENCE"} /\ program \in {"occlient", "tizen", "remote"}
        /\ program = "remote" => m = "OBSERVE"
    BY <1>2 DEF ConfigOK, Programs, MethodsOf, Discoveries, Single, Methods
  <2>2. gNumObserveNotifies + 1 \in Nat /\ gNumPresenceNotifies + 1 \in Nat
    BY DEF CountersOK
  <2>3. NullAnswer \in AnswerType
    BY AnswersTyped DEF Answers
  <2>4. CASE program = "occlient"
    <3>1. ResponseOutcome(m, r) \in {Occlient!obsReqCB(test, r, gNumObserveNotifies + 1),
                                     Occlient!presenceCB(r, gNumPresenceNotifies + 1)}
      BY <1>2, <2>1, <2>4 DEF ResponseOutcome, NotificationOutcome
    <3>2. /\ Sound(Occlient!obsReqCB(test, r, gNumObserveNotifies + 1), "occlient")
          /\ Occlient!obsReqCB(test, r, gNumObserveNotifies + 1).requests = <<>>
      BY <2>2, <2>3, OcclientSound DEF ConfigOK
    <3>3. /\ Sound(Occlient!presenceCB(r, gNumPresenceNotifies + 1), "occlient")
          /\ Occlient!presenceCB(r, gNumPresenceNotifies + 1).requests = <<>>
      BY <2>2, <2>3, OcclientSound DEF ConfigOK
    <3>. QED
      BY <2>4, <3>1, <3>2, <3>3 DEF Sound, Outcomes
  <2>5. CASE program = "tizen"
    <3>1. ResponseOutcome(m, r) \in {Tizen!obsReqCB(test, r, gNumObserveNotifies + 1),
                                     Tizen!presenceCB(r, gNumPresenceNotifies + 1)}
      BY <1>2, <2>1, <2>5 DEF ResponseOutcome, NotificationOutcome
    <3>2. /\ Sound(Tizen!obsReqCB(test, r, gNumObserveNotifies + 1), "tizen")
          /\ Tizen!obsReqCB(test, r, gNumObserveNotifies + 1).requests = <<>>
      BY <2>2, <2>3, TizenSound DEF ConfigOK
    <3>3. /\ Sound(Tizen!presenceCB(r, gNumPresenceNotifies + 1), "tizen")
          /\ Tizen!presenceCB(r, gNumPresenceNotifies + 1).requests = <<>>
      BY <2>2, <2>3, TizenSound DEF ConfigOK
    <3>. QED
      BY <2>5, <3>1, <3>2, <3>3 DEF Sound, Outcomes
  <2>6. CASE program = "remote"
    <3>1. ResponseOutcome(m, r) = Remote!obsReqCB(test, r, gNumObserveNotifies + 1)
      BY <1>2, <2>1, <2>6 DEF ResponseOutcome, NotificationOutcome
    <3>. QED
      BY <2>3, <2>6, <3>1, RemoteSound DEF ConfigOK, Sound, Outcomes
  <2>. QED
    BY <2>1, <2>4, <2>5, <2>6
<1>. QED
  BY <1>1, <1>2

-----------------------------------------------------------------------------
(* Types.                                                                  *)

\* The requests that are waiting and the transactions are those of the program, only a light
\* client has threads, and only the client of basicops collects resources.
TypeInv ==
  /\ TypeOK
  /\ todo \in Seq(RequestsOf(program))
  /\ \A i \in DOMAIN calls : calls[i].method \in MethodsOf(program)
  /\ sleeping > 0 => program \in {"occlient", "tizen"}
  /\ uris # <<>> => program = "basicops" /\ answerer \in Endpoints

LEMMA InitTyped == Init => TypeInv
<1> SUFFICES ASSUME Init PROVE TypeInv
  OBVIOUS
<1>1. ConfigOK
  BY DEF Init, ConfigOK
<1>2. todo \in Seq(RequestsOf(program)) /\ RequestsOf(program) \subseteq Requests
  BY <1>1, FirstSound DEF Init, RequestsOf
<1>3. todo \in Seq(Requests)
  BY <1>2
<1>4. verdict \in Outcomes
  BY PlainSound DEF Init, Sound
<1>5. CallbackOK
  BY <1>3, <1>4 DEF Init, CallbackOK
<1>6. MainOK /\ CountersOK
  BY DEF Init, MainOK, CountersOK
<1>7. AddressOK
  <2>1. [addr |-> NoEndpoint, port |-> <<NoEndpoint, FALSE>>] \in Addresses
    BY DEF Addresses, Ports
  <2>2. serverAddr = [addr |-> NoEndpoint, port |-> <<NoEndpoint, FALSE>>] /\ resourceList = <<>>
    BY DEF Init
  <2>. QED
    BY <2>1, <2>2 DEF AddressOK
<1>8. CallsOK
  BY DEF Init, CallsOK
<1>9. HistoryOK
  <2>1. MaxAnswers \in Nat /\ MaxFailures \in Nat /\ MaxResponses[program] \in Nat
    BY <1>1, ClientsConstants, ResponsesBounded DEF ConfigOK
  <2>2. answers = 0 /\ responses = 0 /\ failures = 0 /\ heard = {}
    BY DEF Init
  <2>3. /\ answers \in 0 .. MaxAnswers /\ failures \in 0 .. MaxFailures
        /\ responses \in 0 .. MaxResponses[program]
    BY <2>1, <2>2
  <2>4. badCancel \in BOOLEAN
    BY DEF Init
  <2>5. heard \subseteq Endpoints \X Uris \X BOOLEAN
    BY <2>2
  <2>. QED
    BY <2>3, <2>4, <2>5 DEF HistoryOK
<1>. QED
  BY <1>1, <1>2, <1>5, <1>6, <1>7, <1>8, <1>9 DEF TypeInv, TypeOK, Init

\* Where a request goes is an address.
LEMMA DestinationTyped ==
  ASSUME TypeInv, program = "coll" => answerer \in Endpoints \cup {NoEndpoint}
  PROVE  Destination \in Addresses
<1>1. [addr |-> answerer, port |-> <<answerer, FALSE>>] \in Addresses
  BY DEF TypeInv, TypeOK, CallbackOK, Addresses, Ports
<1>2. serverAddr \in Addresses
  BY DEF TypeInv, TypeOK, AddressOK
<1>3. ASSUME resourceList # <<>> PROVE Basic!getResource(resourceList).endpoint \in Addresses
  <2>1. Head(resourceList) \in [sid : Endpoints, uri : Uris, endpoint : Addresses]
    <3>1. resourceList \in Seq([sid : Endpoints, uri : Uris, endpoint : Addresses])
      BY DEF TypeInv, TypeOK, AddressOK
    <3> DEFINE T == [sid : Endpoints, uri : Uris, endpoint : Addresses]
    <3> HIDE DEF T
    <3>2. resourceList \in Seq(T)
      BY <3>1 DEF T
    <3>3. Head(resourceList) \in T
      BY <1>3, <3>2
    <3>. QED
      BY <3>3 DEF T
  <2>. QED
    BY <2>1 DEF Basic!getResource
<1>. QED
  BY <1>1, <1>2, <1>3 DEF Destination

LEMMA CallTyped ==
  ASSUME NEW q \in Requests, NEW dest \in Addresses, NEW by \in {"main", "thread"}
  PROVE  Call(q, dest, by) \in CallType /\ Call(q, dest, by).method = q.method
  BY DEF Requests, Addresses, Call, CallType

\* The calls after one more, whose method the program uses.
LEMMA CallAppended ==
  ASSUME TypeInv, NEW c \in CallType, c.method \in MethodsOf(program),
         calls' = Append(calls, c), live' = live \cup {Len(calls')}, program' = program,
         gObserveDoHandle' \in {gObserveDoHandle, Len(calls')},
         gPresenceHandle' \in {gPresenceHandle, Len(calls')}
  PROVE  CallsOK' /\ (\A i \in DOMAIN calls : calls[i].method \in MethodsOf(program))'
<1>1. /\ calls \in Seq(CallType) /\ live \subseteq DOMAIN calls
      /\ gObserveDoHandle \in 0 .. Len(calls) /\ gPresenceHandle \in 0 .. Len(calls)
      /\ \A i \in DOMAIN calls : calls[i].method \in MethodsOf(program)
  BY DEF TypeInv, TypeOK, CallsOK
<1>2. /\ calls' \in Seq(CallType) /\ Len(calls') = Len(calls) + 1 /\ Len(calls) \in Nat
      /\ DOMAIN calls' = 1 .. Len(calls) + 1 /\ DOMAIN calls = 1 .. Len(calls)
      /\ calls'[Len(calls) + 1] = c
      /\ \A i \in DOMAIN calls : calls'[i] = calls[i]
  BY <1>1
<1>3. CallsOK'
  BY <1>1, <1>2 DEF CallsOK
<1>4. \A i \in DOMAIN calls' : calls'[i].method \in MethodsOf(program)
  BY <1>1, <1>2
<1>. QED
  BY <1>3, <1>4

\* A step that leaves the calls, the threads and the callback alone.
LEMMA LoopTyped ==
  ASSUME TypeInv, UNCHANGED loopFrame, MainOK'
  PROVE  TypeInv'
  BY DEF TypeInv, TypeOK, loopFrame, commandLine, callback, stackVars, counters, history,
         ConfigOK, CallbackOK, AddressOK, CallsOK, CountersOK, HistoryOK

LEMMA AnswerTyped ==
  ASSUME TypeInv, NEW h \in live, NEW e \in Endpoints, NEW answer \in Answers,
         ProcessAnswer(h, e, answer)
  PROVE  TypeInv'
<1> DEFINE m == calls[h].method
           outcome == AnswerOutcome(m, answer)
<1>1. ConfigOK /\ program' = program /\ test' = test /\ unicast' = unicast
  BY DEF TypeInv, TypeOK, ProcessAnswer, callbackFrame, commandLine
<1>2. answer \in AnswerType /\ answer.resources \in Seq(Listings)
  BY AnswersTyped DEF AnswerType
<1>3. h \in DOMAIN calls /\ m \in MethodsOf(program) \cap Discoveries
  BY DEF TypeInv, TypeOK, CallsOK, ProcessAnswer
<1>4. Sound(outcome, program)
  BY <1>1, <1>2, <1>3, AnswerSound
<1>5. /\ Begin(h, e, outcome) /\ h \in Nat
      /\ uris' = IF outcome.collects THEN answer.resources ELSE <<>>
      /\ answers' = answers + 1 /\ answers < MaxAnswers
      /\ heard' = heard \cup {<<e, Discovery, FALSE>>} \cup Listed(e, answer)
      /\ UNCHANGED <<callbackFrame, serverAddr, resourceList, stackVars, counters, sleeping,
                     responses, failures, badCancel>>
  <2>1. h \in Nat
    BY <1>3 DEF TypeInv, TypeOK, CallsOK
  <2>. QED
    BY <2>1 DEF ProcessAnswer
<1> HIDE DEF outcome, m
<1>6. /\ todo' \in Seq(RequestsOf(program)) /\ todo' \in Seq(Requests)
      /\ verdict' \in Outcomes
  BY <1>4, <1>5 DEF Begin, Sound, Outcomes
<1>7. uris' \in Seq([uri : Uris, secure : BOOLEAN]) /\ (uris' # <<>> => program = "basicops")
  BY <1>2, <1>4, <1>5 DEF Sound, Listings
<1>8. CallbackOK' /\ answerer' \in Endpoints
  BY <1>5, <1>6, <1>7 DEF CallbackOK, Begin
<1>9. MainOK'
  BY <1>5 DEF TypeInv, TypeOK, MainOK, Begin, callbackFrame
<1>10. Listed(e, answer) \subseteq Endpoints \X Uris \X BOOLEAN
  <2>1. \A i \in DOMAIN answer.resources : answer.resources[i] \in [uri : Uris, secure : BOOLEAN]
    <3>1. \A i \in DOMAIN answer.resources : answer.resources[i] \in Listings
      BY <1>2
    <3>. QED
      BY <3>1 DEF Listings
  <2> SUFFICES ASSUME NEW x \in Listed(e, answer) PROVE x \in Endpoints \X Uris \X BOOLEAN
    OBVIOUS
  <2>2. PICK i \in DOMAIN answer.resources :
           x = <<e, answer.resources[i].uri, answer.resources[i].secure>>
    BY DEF Listed
  <2>. QED
    BY <2>1, <2>2
<1>11. HistoryOK'
  <2>1. <<e, Discovery, FALSE>> \in Endpoints \X Uris \X BOOLEAN /\ MaxAnswers \in Nat
    BY Names, ClientsConstants
  <2>2. heard' \subseteq Endpoints \X Uris \X BOOLEAN
    BY <1>5, <1>10, <2>1 DEF TypeInv, TypeOK, HistoryOK
  <2>3. answers' \in 0 .. MaxAnswers
    BY <1>5, <2>1 DEF TypeInv, TypeOK, HistoryOK
  <2>. QED
    BY <1>1, <1>5, <2>2, <2>3 DEF TypeInv, TypeOK, HistoryOK
<1>12. AddressOK' /\ CallsOK' /\ CountersOK' /\ ConfigOK' /\ sleeping' = sleeping /\ calls' = calls
  BY <1>1, <1>5 DEF TypeInv, TypeOK, AddressOK, CallsOK, CountersOK, ConfigOK, stackVars, counters
<1>. QED
  BY <1>1, <1>6, <1>7, <1>8, <1>9, <1>11, <1>12 DEF TypeInv, TypeOK

LEMMA ResponseTyped ==
  ASSUME TypeInv, NEW h \in live, NEW r \in Responses, ProcessResponse(h, r)
  PROVE  TypeInv'
<1> DEFINE m == calls[h].method
           outcome == ResponseOutcome(m, r)
           stored == IF m = "PRESENCE" THEN gPresenceHandle ELSE gObserveDoHandle
<1>1. ConfigOK /\ CountersOK /\ program' = program /\ test' = test /\ unicast' = unicast
  BY DEF TypeInv, TypeOK, ProcessResponse, callbackFrame, commandLine
<1>2. /\ h \in DOMAIN calls /\ h \in Nat /\ calls[h] \in CallType
      /\ m \in MethodsOf(program) \ Discoveries
  BY DEF TypeInv, TypeOK, CallsOK, ProcessResponse
<1>3. Sound(outcome, program) /\ ~outcome.collects
  BY <1>1, <1>2, ResponseSound
<1>4. /\ Begin(h, calls[h].addr, outcome) /\ uris' = <<>>
      /\ m \in Single => responses < MaxResponses[program]
      /\ responses' = IF m \in Single THEN responses + 1 ELSE responses
      /\ OCCancel(IF outcome.of = "own" THEN h ELSE stored, outcome.cancel)
      /\ gNumObserveNotifies' = IF outcome.counts /\ m # "PRESENCE"
                                THEN gNumObserveNotifies + 1 ELSE gNumObserveNotifies
      /\ gNumPresenceNotifies' = IF outcome.counts /\ m = "PRESENCE"
                                 THEN gNumPresenceNotifies + 1 ELSE gNumPresenceNotifies
      /\ UNCHANGED <<callbackFrame, serverAddr, resourceList, calls, gObserveDoHandle,
                     gPresenceHandle, sleeping, answers, failures, heard>>
  BY DEF ProcessResponse, ResponseOutcome
<1> HIDE DEF outcome, m, stored
<1>5. /\ todo' \in Seq(RequestsOf(program)) /\ todo' \in Seq(Requests)
      /\ verdict' \in Outcomes /\ calls[h].addr \in Endpoints \cup {NoEndpoint}
  BY <1>2, <1>3, <1>4 DEF Begin, Sound, Outcomes, CallType
<1>6. CallbackOK'
  BY <1>2, <1>4, <1>5 DEF CallbackOK, Begin
<1>7. MainOK'
  BY <1>4 DEF TypeInv, TypeOK, MainOK, Begin, callbackFrame
<1>8. live' \subseteq live /\ badCancel' \in BOOLEAN
  BY <1>4 DEF OCCancel, TypeInv, TypeOK, HistoryOK
<1>9. HistoryOK'
  BY <1>1, <1>4, <1>8, ResponsesBounded DEF TypeInv, TypeOK, HistoryOK, ConfigOK
<1>10. CountersOK'
  BY <1>1, <1>4 DEF CountersOK
<1>11. AddressOK' /\ CallsOK' /\ ConfigOK' /\ sleeping' = sleeping /\ calls' = calls
  BY <1>1, <1>4, <1>8 DEF TypeInv, TypeOK, AddressOK, CallsOK, ConfigOK
<1>. QED
  BY <1>1, <1>4, <1>5, <1>6, <1>7, <1>9, <1>10, <1>11 DEF TypeInv, TypeOK

LEMMA SaveTyped ==
  ASSUME TypeInv, SaveHost \/ SavePort
  PROVE  TypeInv'
<1>1. /\ UNCHANGED <<bodyFrame, uris, verdict, todo, lastOk, resourceList, stackVars>>
      /\ main' \in {"port", "run"}
      /\ \/ serverAddr' = [serverAddr EXCEPT !.addr = answerer]
         \/ serverAddr' = [serverAddr EXCEPT !.port = <<answerer, verdict.secure>>]
  BY DEF SaveHost, SavePort
<1>2. answerer \in Endpoints \cup {NoEndpoint} /\ verdict.secure \in BOOLEAN
  BY DEF TypeInv, TypeOK, CallbackOK, Outcomes
<1>3. serverAddr' \in Addresses
  <2>1. serverAddr \in Addresses
    BY DEF TypeInv, TypeOK, AddressOK
  <2>2. <<answerer, verdict.secure>> \in Ports
    BY <1>2 DEF Ports
  <2>. QED
    BY <1>1, <1>2, <2>1, <2>2 DEF Addresses
<1>4. AddressOK'
  BY <1>1, <1>3 DEF TypeInv, TypeOK, AddressOK
<1>5. MainOK'
  BY <1>1 DEF TypeInv, TypeOK, MainOK, bodyFrame, callbackFrame
<1>6. CallbackOK' /\ ConfigOK' /\ CallsOK' /\ CountersOK' /\ HistoryOK'
  BY <1>1 DEF TypeInv, TypeOK, CallbackOK, ConfigOK, CallsOK, CountersOK, HistoryOK, bodyFrame,
         callbackFrame, commandLine, counters, stackVars, history
<1>. QED
  BY <1>1, <1>4, <1>5, <1>6
     DEF TypeInv, TypeOK, bodyFrame, callbackFrame, commandLine, stackVars

\* A request that is made, refused, or left out: at most one call more, to Destination.
LEMMA InvokeTyped ==
  ASSUME TypeInv, InvokeOCDoResource
  PROVE  TypeInv'
<1>1. /\ todo \in Seq(RequestsOf(program)) /\ todo # <<>> /\ todo \in Seq(Requests)
      /\ todo' = Tail(todo) /\ UNCHANGED requestFrame
  BY DEF TypeInv, TypeOK, CallbackOK, InvokeOCDoResource
<1>2. Head(todo) \in RequestsOf(program) /\ todo' \in Seq(RequestsOf(program)) /\ todo' \in Seq(Requests)
  BY <1>1
<1>3. /\ Head(todo) \in Requests /\ Head(todo).method \in MethodsOf(program)
      /\ Head(todo).again => program \in {"occlient", "tizen"}
  BY <1>2 DEF RequestsOf
<1>4. ConfigOK' /\ MainOK' /\ AddressOK' /\ program' = program /\ uris' = uris /\ answerer' = answerer
  BY <1>1 DEF TypeInv, TypeOK, ConfigOK, MainOK, AddressOK, requestFrame, callbackFrame, commandLine
<1>5. lastOk' \in BOOLEAN
  BY DEF InvokeOCDoResource, Accept, Refuse, TypeInv, TypeOK, CallbackOK
<1>6. CallbackOK'
  BY <1>1, <1>2, <1>5 DEF TypeInv, TypeOK, CallbackOK, requestFrame
<1>7. sleeping' \in Nat /\ (sleeping' > 0 => program \in {"occlient", "tizen"})
  <2>1. sleeping \in Nat /\ (sleeping > 0 => program \in {"occlient", "tizen"})
    BY DEF TypeInv, TypeOK, CountersOK
  <2>2. \/ sleeping' = sleeping
        \/ Head(todo).again /\ sleeping' = sleeping + 1
    BY DEF InvokeOCDoResource
  <2>. QED
    BY <2>1, <2>2, <1>3
<1>8. CountersOK'
  BY <1>1, <1>7 DEF TypeInv, TypeOK, CountersOK, requestFrame
<1>9. failures' \in 0 .. MaxFailures
  <2>1. failures \in 0 .. MaxFailures /\ MaxFailures \in Nat
    BY ClientsConstants DEF TypeInv, TypeOK, HistoryOK
  <2>2. failures' = failures \/ (failures < MaxFailures /\ failures' = failures + 1)
    BY DEF InvokeOCDoResource, Accept, Refuse
  <2>. QED
    BY <2>1, <2>2
<1>10. HistoryOK'
  BY <1>1, <1>4, <1>9 DEF TypeInv, TypeOK, HistoryOK, requestFrame
<1>11. CallsOK' /\ (\A i \in DOMAIN calls : calls[i].method \in MethodsOf(program))'
  <2>1. CASE Accept /\ StoreHandle(Head(todo).method, Len(calls'))
    <3> DEFINE c == Call(Head(todo), Destination, "main")
    <3>1. Destination \in Addresses
      BY DestinationTyped DEF TypeInv, TypeOK, CallbackOK
    <3>2. c \in CallType /\ c.method \in MethodsOf(program)
      BY <1>3, <3>1, CallTyped
    <3>3. /\ calls' = Append(calls, c) /\ live' = live \cup {Len(calls')}
          /\ gObserveDoHandle' \in {gObserveDoHandle, Len(calls')}
          /\ gPresenceHandle' \in {gPresenceHandle, Len(calls')}
      BY <2>1 DEF Accept, StoreHandle
    <3> HIDE DEF c
    <3>. QED
      BY <1>4, <3>2, <3>3, CallAppended
  <2>2. CASE UNCHANGED <<stackVars, gObserveDoHandle, gPresenceHandle>>
    BY <1>4, <2>2 DEF TypeInv, TypeOK, CallsOK, stackVars
  <2>. QED
    BY <2>1, <2>2 DEF InvokeOCDoResource, Refuse
<1>. QED
  BY <1>2, <1>4, <1>6, <1>7, <1>8, <1>10, <1>11 DEF TypeInv, TypeOK

LEMMA CollectTyped ==
  ASSUME TypeInv, collectUniqueResource
  PROVE  TypeInv'
<1> DEFINE sid == DeviceOf[answerer]
           endpoint == [addr |-> answerer, port |-> <<answerer, FALSE>>]
           entry == [sid |-> sid, uri |-> Head(uris).uri, endpoint |-> endpoint]
           Entries == [sid : Endpoints, uri : Uris, endpoint : Addresses]
<1>1. /\ uris # <<>> /\ todo = <<>> /\ uris' = Tail(uris)
      /\ program = "basicops" /\ answerer \in Endpoints
      /\ UNCHANGED <<bodyFrame, main, verdict, lastOk, serverAddr, stackVars>>
  BY DEF TypeInv, collectUniqueResource
<1>2. uris \in Seq(Listings) /\ resourceList \in Seq(Entries)
  BY DEF TypeInv, TypeOK, CallbackOK, AddressOK, Listings
<1>3. Head(uris) \in Listings /\ uris' \in Seq(Listings)
  BY <1>1, <1>2
<1>4. entry \in Entries /\ Head(uris).uri \in Uris /\ entry.uri = Head(uris).uri
  <2>1. endpoint \in Addresses
    BY <1>1 DEF Addresses, Ports
  <2>2. sid \in Endpoints
    BY <1>1, ClientsConstants
  <2> HIDE DEF endpoint, sid
  <2>. QED
    BY <1>3, <2>1, <2>2 DEF Listings
<1>5. \/ resourceList' = resourceList /\ todo' = todo
      \/ resourceList' = <<entry>> \o resourceList /\ todo' = Basic!queryResource(test, resourceList')
  BY DEF collectUniqueResource, Basic!insertResource
<1>6. /\ <<entry>> \o resourceList \in Seq(Entries) /\ <<entry>> \o resourceList # <<>>
      /\ Head(<<entry>> \o resourceList) = entry
  <2> HIDE DEF entry, Entries
  <2>. QED
    BY <1>2, <1>4
<1>7. resourceList' \in Seq(Entries) /\ todo' \in Seq(RequestsOf(program))
  <2>1. CASE resourceList' = resourceList /\ todo' = todo
    BY <1>1, <1>2, <2>1
  <2>2. CASE /\ resourceList' = <<entry>> \o resourceList
             /\ todo' = Basic!queryResource(test, resourceList')
    <3>1. resourceList' # <<>> /\ Head(resourceList').uri \in Uris
      <4> HIDE DEF entry
      <4>. QED
        BY <1>4, <1>6, <2>2
    <3>2. todo' \in Seq(RequestsOf("basicops"))
      BY <2>2, <3>1, QuerySound
    <3>. QED
      BY <1>1, <1>6, <2>2, <3>2
  <2>. QED
    BY <1>5, <2>1, <2>2
<1>8. todo' \in Seq(Requests)
  BY <1>7 DEF RequestsOf
<1>9. CallbackOK' /\ (uris' # <<>> => program' = "basicops" /\ answerer' \in Endpoints)
  BY <1>1, <1>3, <1>8 DEF TypeInv, TypeOK, CallbackOK, Listings, bodyFrame, callbackFrame, commandLine
<1>10. AddressOK'
  BY <1>1, <1>7 DEF TypeInv, TypeOK, AddressOK
<1>11. /\ ConfigOK' /\ MainOK' /\ CallsOK' /\ CountersOK' /\ HistoryOK'
       /\ program' = program /\ calls' = calls /\ sleeping' = sleeping
  BY <1>1 DEF TypeInv, TypeOK, ConfigOK, MainOK, CallsOK, CountersOK, HistoryOK, bodyFrame,
         callbackFrame, commandLine, counters, stackVars, history
<1>. QED
  BY <1>7, <1>9, <1>10, <1>11 DEF TypeInv, TypeOK

LEMMA ReturnTyped ==
  ASSUME TypeInv, Return
  PROVE  TypeInv'
<1>1. /\ main' = "test" /\ live' \subseteq live /\ uris = <<>>
      /\ current' = 0 /\ answerer' = NoEndpoint /\ verdict' = Keep /\ lastOk' = TRUE
      /\ UNCHANGED <<callbackFrame, uris, todo, serverAddr, resourceList, calls, counters,
                     sleeping, history>>
  BY DEF Return
<1>2. verdict' \in Outcomes
  BY <1>1, PlainSound DEF Sound
<1>3. CallbackOK'
  BY <1>1, <1>2 DEF TypeInv, TypeOK, CallbackOK
<1>4. MainOK'
  BY <1>1 DEF TypeInv, TypeOK, MainOK, callbackFrame
<1>5. /\ ConfigOK' /\ AddressOK' /\ CallsOK' /\ CountersOK' /\ HistoryOK'
      /\ program' = program
  BY <1>1 DEF TypeInv, TypeOK, ConfigOK, AddressOK, CallsOK, CountersOK, HistoryOK,
         callbackFrame, commandLine, counters, history
<1>. QED
  BY <1>1, <1>3, <1>4, <1>5 DEF TypeInv, TypeOK

LEMMA ThreadTyped ==
  ASSUME TypeInv, RequestDeleteDeathResourceTask
  PROVE  TypeInv'
<1>1. /\ sleeping > 0 /\ sleeping' = sleeping - 1
      /\ UNCHANGED <<callbackFrame, main, serverAddr, callback, resourceList, counters, answers,
                     responses, heard, badCancel>>
  BY DEF RequestDeleteDeathResourceTask
<1>2. program \in {"occlient", "tizen"} /\ program' = program
  BY <1>1 DEF TypeInv, callbackFrame, commandLine
<1>3. /\ ConfigOK' /\ MainOK' /\ CallbackOK' /\ AddressOK'
      /\ todo' = todo /\ uris' = uris /\ answerer' = answerer
  BY <1>1 DEF TypeInv, TypeOK, ConfigOK, MainOK, CallbackOK, AddressOK, callbackFrame,
         commandLine, callback
<1>4. CountersOK'
  BY <1>1 DEF TypeInv, TypeOK, CountersOK, counters
<1>5. failures' \in 0 .. MaxFailures
  <2>1. failures \in 0 .. MaxFailures /\ MaxFailures \in Nat
    BY ClientsConstants DEF TypeInv, TypeOK, HistoryOK
  <2>2. failures' = failures \/ (failures < MaxFailures /\ failures' = failures + 1)
    BY DEF RequestDeleteDeathResourceTask
  <2>. QED
    BY <2>1, <2>2
<1>6. HistoryOK'
  BY <1>1, <1>2, <1>5 DEF TypeInv, TypeOK, HistoryOK
<1>7. CallsOK' /\ (\A i \in DOMAIN calls : calls[i].method \in MethodsOf(program))'
  <2> DEFINE q == Occlient!RequestDeleteDeathResourceTask
             c == Call(q, serverAddr, "thread")
  <2>1. CASE calls' = Append(calls, c) /\ live' = live \cup {Len(calls')}
    <3>1. q \in RequestsOf(program) /\ q.method = "DELETE"
      <4>1. q = Request("DELETE", Light) /\ Request("DELETE", Light).method = "DELETE"
        BY Same DEF Occlient!RequestDeleteDeathResourceTask, Request
      <4>. QED
        BY <1>2, <4>1, Names, AgainTyped
    <3>2. q \in Requests /\ serverAddr \in Addresses
      BY <3>1 DEF RequestsOf, TypeInv, TypeOK, AddressOK
    <3>3. c \in CallType /\ c.method \in MethodsOf(program)
      BY <3>1, <3>2, CallTyped DEF RequestsOf
    <3>4. gObserveDoHandle' = gObserveDoHandle /\ gPresenceHandle' = gPresenceHandle
      BY <1>1 DEF counters
    <3> HIDE DEF c
    <3>. QED
      BY <1>2, <2>1, <3>3, <3>4, CallAppended
  <2>2. CASE UNCHANGED stackVars
    BY <1>1, <1>2, <2>2 DEF TypeInv, TypeOK, CallsOK, stackVars, counters
  <2>. QED
    BY <2>1, <2>2 DEF RequestDeleteDeathResourceTask
<1>8. sleeping' > 0 => program' \in {"occlient", "tizen"}
  BY <1>2
<1>. QED
  BY <1>2, <1>3, <1>4, <1>6, <1>7, <1>8 DEF TypeInv, TypeOK

LEMMA StepTyped == TypeInv /\ [Next]_vars => TypeInv'
<1> SUFFICES ASSUME TypeInv, [Next]_vars PROVE TypeInv'
  OBVIOUS
<1>1. CASE LoopTest \/ ProcessNothing \/ ProcessFails \/ Exit \/ GMainLoop \/ handleSigInt
  <2>1. UNCHANGED loopFrame /\ MainOK'
    BY <1>1 DEF LoopTest, ProcessNothing, ProcessFails, Exit, GMainLoop, handleSigInt, TypeInv,
           TypeOK, MainOK
  <2>. QED
    BY <2>1, LoopTyped
<1>2. CASE \E h \in live, e \in Endpoints, answer \in Answers : ProcessAnswer(h, e, answer)
  BY <1>2, AnswerTyped
<1>3. CASE \E h \in live, r \in Responses : ProcessResponse(h, r)
  BY <1>3, ResponseTyped
<1>4. CASE SaveHost \/ SavePort
  BY <1>4, SaveTyped
<1>5. CASE InvokeOCDoResource
  BY <1>5, InvokeTyped
<1>6. CASE collectUniqueResource
  BY <1>6, CollectTyped
<1>7. CASE Return
  BY <1>7, ReturnTyped
<1>8. CASE RequestDeleteDeathResourceTask
  BY <1>8, ThreadTyped
<1>9. CASE UNCHANGED vars
  <2>1. UNCHANGED loopFrame /\ MainOK'
    BY <1>9 DEF vars, loopFrame, TypeInv, TypeOK, MainOK
  <2>. QED
    BY <2>1, LoopTyped
<1>. QED
  BY <1>1, <1>2, <1>3, <1>4, <1>5, <1>6, <1>7, <1>8, <1>9 DEF Next, Main, Terminated

\* The requests that are waiting and the calls are always those the program may make, a thread
\* sleeps only in the light clients, and only the client of basicops collects resources.
THEOREM TypedAlways == Spec => []TypeInv
  BY InitTyped, StepTyped, PTL DEF Spec

\* Every variable of every client has its type in every reachable state.
THEOREM TypeCorrect == Spec => []TypeOK
<1>1. TypeInv => TypeOK
  BY DEF TypeInv
<1>. QED
  BY <1>1, TypedAlways, PTL

-----------------------------------------------------------------------------
(* Requests reach endpoints that answered.                                 *)

AnsweredIn(past) == {e \in Endpoints : <<e, Discovery, FALSE>> \in past}

\* What RequestsReachResponders says of one call c of program p, when past was heard.
Reaches(c, p, past) ==
  /\ c.addr \in AnsweredIn(past) /\ c.port[1] \in AnsweredIn(past)
  /\ c.by = "main" =>
       /\ c.port[1] = c.addr
       /\ p = "occlient" => \E s \in BOOLEAN : <<c.addr, Light, s>> \in past
       /\ p \in {"basicops", "ams"} /\ c.uri # "" =>
            \E s \in BOOLEAN : <<c.addr, c.uri, s>> \in past
       /\ p = "ams" /\ c.port[2] => c.uri # Doxm /\ <<c.addr, c.uri, TRUE>> \in past

LEMMA ReachesLater ==
  ASSUME NEW c, NEW p, NEW past, NEW later, past \subseteq later, Reaches(c, p, past)
  PROVE  Reaches(c, p, later)
  BY DEF Reaches, AnsweredIn

\* Where the requests of the callback will go when the address is saved.
Coming ==
  CASE program = "basicops" /\ resourceList # <<>> -> Basic!getResource(resourceList).endpoint
    [] program = "coll" -> [addr |-> answerer, port |-> <<answerer, FALSE>>]
    [] OTHER -> IF main \in {"host", "port"}
                THEN [addr |-> answerer, port |-> <<answerer, verdict.secure>>]
                ELSE serverAddr

CallsReach ==
  \A i \in DOMAIN calls : calls[i].method \notin Discoveries => Reaches(calls[i], program, heard)

TodoReaches ==
  main \in {"host", "port", "run"} =>
    \A j \in DOMAIN todo :
      todo[j].method \notin Discoveries => Reaches(Call(todo[j], Coming, "main"), program, heard)

\* The address a thread will use, and the one a callback is about to save.
AddressAnswered ==
  /\ sleeping > 0 => serverAddr.addr \in AnsweredIn(heard) /\ serverAddr.port[1] \in AnsweredIn(heard)
  /\ main \in {"host", "port"} => answerer \in AnsweredIn(heard)
  /\ main = "port" => serverAddr.addr = answerer

\* The resources a callback of basicops still has to collect, and those it did.
CollectedHeard ==
  /\ uris # <<>> =>
       /\ answerer \in AnsweredIn(heard)
       /\ \A k \in DOMAIN uris : <<answerer, uris[k].uri, uris[k].secure>> \in heard
  /\ \A k \in DOMAIN resourceList :
       /\ resourceList[k].endpoint.addr \in AnsweredIn(heard)
       /\ resourceList[k].endpoint.port = <<resourceList[k].endpoint.addr, FALSE>>
       /\ \E s \in BOOLEAN : <<resourceList[k].endpoint.addr, resourceList[k].uri, s>> \in heard

ReachInv == TypeInv /\ CallsReach /\ TodoReaches /\ AddressAnswered /\ CollectedHeard

LEMMA InitReaches == Init => ReachInv
<1> SUFFICES ASSUME Init PROVE ReachInv
  OBVIOUS
<1>1. TypeInv
  BY InitTyped
<1>2. \A j \in DOMAIN todo : todo[j].method \in Discoveries
  BY <1>1, FirstSound DEF Init, TypeInv, TypeOK
<1>3. CallsReach /\ CollectedHeard
  BY DEF Init, CallsReach, CollectedHeard
<1>4. TodoReaches /\ AddressAnswered
  BY <1>2 DEF Init, TodoReaches, AddressAnswered
<1>. QED
  BY <1>1, <1>3, <1>4 DEF ReachInv

\* A step that leaves the callback, the calls and the addresses alone, and begins no callback.
LEMMA LoopReaches ==
  ASSUME ReachInv, UNCHANGED loopFrame, main' = main \/ main' \notin {"host", "port", "run"}
  PROVE  CallsReach' /\ TodoReaches' /\ AddressAnswered' /\ CollectedHeard'
<1>1. CallsReach' /\ CollectedHeard' /\ AddressAnswered'
  BY DEF ReachInv, CallsReach, CollectedHeard, AddressAnswered, loopFrame, commandLine, callback,
         stackVars, history
<1>2. TodoReaches'
  <2>1. CASE main' = main
    BY <2>1 DEF ReachInv, TodoReaches, Coming, loopFrame, commandLine, callback, history
  <2>2. CASE main' \notin {"host", "port", "run"}
    BY <2>2 DEF TodoReaches
  <2>. QED
    BY <2>1, <2>2
<1>. QED
  BY <1>1, <1>2

LEMMA AnswerReaches ==
  ASSUME ReachInv, NEW h \in live, NEW e \in Endpoints, NEW answer \in Answers,
         ProcessAnswer(h, e, answer)
  PROVE  CallsReach' /\ TodoReaches' /\ AddressAnswered' /\ CollectedHeard'
<1> DEFINE m == calls[h].method
           outcome == AnswerOutcome(m, answer)
<1>1. ConfigOK /\ program' = program
  BY DEF ReachInv, TypeInv, TypeOK, ProcessAnswer, callbackFrame, commandLine
<1>2. answer \in AnswerType /\ answer.resources \in Seq(Listings)
  BY AnswersTyped DEF AnswerType
<1>3. h \in DOMAIN calls /\ m \in MethodsOf(program) \cap Discoveries
  BY DEF ReachInv, TypeInv, TypeOK, CallsOK, ProcessAnswer
<1>4. /\ Sound(outcome, program)
      /\ program = "occlient" /\ outcome.requests # <<>> =>
           \E i \in DOMAIN answer.resources : answer.resources[i].uri = Light
      /\ program = "ams" => AsksForListed(outcome, answer)
  BY <1>1, <1>2, <1>3, AnswerSound
<1>5. /\ Begin(h, e, outcome)
      /\ uris' = IF outcome.collects THEN answer.resources ELSE <<>>
      /\ heard' = heard \cup {<<e, Discovery, FALSE>>} \cup Listed(e, answer)
      /\ UNCHANGED <<callbackFrame, serverAddr, resourceList, stackVars, counters, sleeping,
                     responses, failures, badCancel>>
  BY DEF ProcessAnswer
<1> HIDE DEF outcome, m
<1>6. heard \subseteq heard' /\ e \in AnsweredIn(heard')
  BY <1>5 DEF AnsweredIn
<1>7. AnsweredIn(heard) \subseteq AnsweredIn(heard')
  BY <1>6 DEF AnsweredIn
<1>8. ASSUME program \in {"occlient", "basicops", "ams"}, NEW i \in DOMAIN answer.resources
      PROVE  /\ <<e, answer.resources[i].uri, answer.resources[i].secure>> \in heard'
             /\ answer.resources[i].secure \in BOOLEAN
  <2>1. answer.resources[i] \in Listings
    BY <1>2
  <2>2. answer.resources[i].uri \in Uris /\ answer.resources[i].secure \in BOOLEAN
    BY <2>1 DEF Listings
  <2>3. <<e, answer.resources[i].uri, answer.resources[i].secure>> \in Listed(e, answer)
    BY <1>8, <2>2 DEF Listed
  <2>. QED
    BY <1>5, <2>2, <2>3
<1>9. CallsReach'
  <2>1. calls' = calls
    BY <1>5 DEF stackVars
  <2>2. ASSUME NEW i \in DOMAIN calls, calls[i].method \notin Discoveries
        PROVE  Reaches(calls[i], program, heard')
    <3>1. Reaches(calls[i], program, heard)
      BY <2>2 DEF ReachInv, CallsReach
    <3>. QED
      BY <1>6, <3>1, ReachesLater
  <2>. QED
    BY <1>1, <2>1, <2>2 DEF CallsReach
<1>10. CollectedHeard'
  <2>1. uris' # <<>> => program = "basicops" /\ uris' = answer.resources
    BY <1>4, <1>5 DEF Sound
  <2>2. answerer' = e
    BY <1>5 DEF Begin
  <2>3. uris' # <<>> =>
          /\ answerer' \in AnsweredIn(heard')
          /\ \A k \in DOMAIN uris' : <<answerer', uris'[k].uri, uris'[k].secure>> \in heard'
    BY <1>6, <1>8, <2>1, <2>2
  <2>. QED
    BY <1>5, <1>6, <1>7, <2>3 DEF ReachInv, CollectedHeard
<1>11. AddressAnswered'
  <2>1. answerer' = e /\ main' # "port" /\ sleeping' = sleeping /\ serverAddr' = serverAddr
    BY <1>5 DEF Begin
  <2>. QED
    BY <1>6, <1>7, <2>1 DEF ReachInv, AddressAnswered
<1>12. TodoReaches'
  <2> SUFFICES ASSUME NEW j \in DOMAIN todo'
               PROVE  Reaches(Call(todo'[j], Coming', "main"), program', heard')
    BY DEF TodoReaches
  <2> DEFINE c == Call(todo'[j], Coming', "main")
  <2>1. /\ todo' = outcome.requests /\ verdict' = outcome /\ answerer' = e
        /\ main' = IF outcome.crash THEN "crashed" ELSE IF outcome.saves THEN "host" ELSE "run"
    BY <1>5 DEF Begin
  <2>2. todo' # <<>> /\ outcome.requests # <<>>
    BY <2>1
  <2>3. program # "basicops" /\ ~outcome.crash /\ (outcome.saves \/ program = "coll")
    BY <1>4, <2>2 DEF Sound
  <2>4. CASE program = "coll"
    <3>1. Coming' = [addr |-> e, port |-> <<e, FALSE>>]
      BY <1>1, <2>1, <2>4 DEF Coming
    <3>2. c.addr = e /\ c.port[1] = e
      BY <3>1 DEF Call
    <3> HIDE DEF c
    <3>. QED
      BY <1>1, <1>6, <2>4, <3>2 DEF Reaches, c
  <2>5. CASE program # "coll"
    <3>1. Coming' = [addr |-> e, port |-> <<e, outcome.secure>>]
      BY <1>1, <2>1, <2>3, <2>5 DEF Coming
    <3>2. /\ c.addr = e /\ c.port[1] = e /\ c.port[2] = outcome.secure
          /\ c.uri = outcome.requests[j].uri
      BY <2>1, <3>1 DEF Call
    <3>3. program = "occlient" => \E s \in BOOLEAN : <<e, Light, s>> \in heard'
      <4> SUFFICES ASSUME program = "occlient" PROVE \E s \in BOOLEAN : <<e, Light, s>> \in heard'
        OBVIOUS
      <4>1. PICK i \in DOMAIN answer.resources : answer.resources[i].uri = Light
        BY <1>4, <2>2
      <4>. QED
        BY <1>8, <4>1
    <3>4. program = "ams" =>
            /\ c.uri # "" => \E s \in BOOLEAN : <<e, c.uri, s>> \in heard'
            /\ c.port[2] => c.uri # Doxm /\ <<e, c.uri, TRUE>> \in heard'
      <4> SUFFICES ASSUME program = "ams"
                   PROVE  /\ c.uri # "" => \E s \in BOOLEAN : <<e, c.uri, s>> \in heard'
                          /\ c.port[2] => c.uri # Doxm /\ <<e, c.uri, TRUE>> \in heard'
        OBVIOUS
      <4> HIDE DEF c
      <4>1. CASE c.uri = "" /\ ~c.port[2]
        BY <4>1
      <4>2. CASE \E i \in DOMAIN answer.resources :
                   /\ answer.resources[i].uri = c.uri
                   /\ c.port[2] => c.uri # Doxm /\ answer.resources[i].secure
        <5>1. PICK i \in DOMAIN answer.resources :
                     /\ answer.resources[i].uri = c.uri
                     /\ c.port[2] => c.uri # Doxm /\ answer.resources[i].secure
          BY <4>2
        <5>2. /\ <<e, c.uri, answer.resources[i].secure>> \in heard'
              /\ answer.resources[i].secure \in BOOLEAN
          BY <1>8, <5>1
        <5>3. c.port[2] => answer.resources[i].secure = TRUE
          BY <5>1, <5>2
        <5>. QED
          BY <5>1, <5>2, <5>3
      <4>. QED
        BY <1>4, <2>1, <3>2, <4>1, <4>2 DEF AsksForListed
    <3> HIDE DEF c
    <3>. QED
      BY <1>1, <1>6, <2>3, <3>2, <3>3, <3>4 DEF Reaches, c
  <2>. QED
    BY <2>4, <2>5
<1>. QED
  BY <1>9, <1>10, <1>11, <1>12

LEMMA ResponseReaches ==
  ASSUME ReachInv, NEW h \in live, NEW r \in Responses, ProcessResponse(h, r)
  PROVE  CallsReach' /\ TodoReaches' /\ AddressAnswered' /\ CollectedHeard'
<1> DEFINE m == calls[h].method
           outcome == ResponseOutcome(m, r)
<1>1. ConfigOK /\ CountersOK /\ program' = program
  BY DEF ReachInv, TypeInv, TypeOK, ProcessResponse, callbackFrame, commandLine
<1>2. /\ h \in DOMAIN calls /\ m \in MethodsOf(program) \ Discoveries
  BY DEF ReachInv, TypeInv, TypeOK, CallsOK, ProcessResponse
<1>3. Sound(outcome, program) /\ (outcome.requests # <<>> => program = "coll")
  BY <1>1, <1>2, ResponseSound
<1>4. /\ Begin(h, calls[h].addr, outcome) /\ uris' = <<>>
      /\ UNCHANGED <<callbackFrame, serverAddr, resourceList, calls, gObserveDoHandle,
                     gPresenceHandle, sleeping, answers, failures, heard>>
  BY DEF ProcessResponse, ResponseOutcome
<1>5. calls[h].addr \in AnsweredIn(heard)
  BY <1>2 DEF ReachInv, CallsReach, Reaches
<1> HIDE DEF outcome, m
<1>6. CallsReach' /\ CollectedHeard'
  BY <1>1, <1>4 DEF ReachInv, CallsReach, CollectedHeard
<1>7. AddressAnswered'
  BY <1>4, <1>5 DEF ReachInv, AddressAnswered, Begin
<1>8. TodoReaches'
  <2> SUFFICES ASSUME NEW j \in DOMAIN todo'
               PROVE  Reaches(Call(todo'[j], Coming', "main"), program, heard')
    BY <1>1 DEF TodoReaches
  <2> DEFINE c == Call(todo'[j], Coming', "main")
  <2>1. program = "coll"
    BY <1>3, <1>4 DEF Begin
  <2>2. Coming' = [addr |-> calls[h].addr, port |-> <<calls[h].addr, FALSE>>]
    BY <1>1, <1>4, <2>1 DEF Coming, Begin
  <2>3. c.addr = calls[h].addr /\ c.port[1] = calls[h].addr
    BY <2>2 DEF Call
  <2> HIDE DEF c
  <2>. QED
    BY <1>4, <1>5, <2>1, <2>3 DEF Reaches, c
<1>. QED
  BY <1>6, <1>7, <1>8

LEMMA SaveReaches ==
  ASSUME ReachInv, SaveHost \/ SavePort
  PROVE  CallsReach' /\ TodoReaches' /\ AddressAnswered' /\ CollectedHeard'
<1>1. /\ UNCHANGED <<bodyFrame, uris, verdict, todo, lastOk, resourceList, stackVars>>
      /\ program' = program /\ heard' = heard /\ answerer' = answerer /\ sleeping' = sleeping
  BY DEF SaveHost, SavePort, bodyFrame, callbackFrame, commandLine, history
<1>2. serverAddr \in Addresses /\ answerer \in AnsweredIn(heard)
  BY DEF ReachInv, TypeInv, TypeOK, AddressOK, AddressAnswered, SaveHost, SavePort
<1>3. CallsReach' /\ CollectedHeard'
  BY <1>1 DEF ReachInv, CallsReach, CollectedHeard, stackVars
<1>4. /\ serverAddr'.addr \in {serverAddr.addr, answerer}
      /\ serverAddr'.port \in {serverAddr.port, <<answerer, verdict.secure>>}
      /\ main' = "port" => serverAddr'.addr = answerer
  BY <1>2 DEF SaveHost, SavePort, Addresses
<1>5. AddressAnswered'
  BY <1>1, <1>2, <1>4 DEF ReachInv, AddressAnswered
<1>6. Coming' = Coming
  <2>1. CASE SaveHost
    BY <1>1, <2>1 DEF Coming, SaveHost
  <2>2. CASE SavePort
    <3>1. serverAddr' = [addr |-> answerer, port |-> <<answerer, verdict.secure>>]
      BY <1>2, <2>2 DEF SavePort, Addresses, ReachInv, AddressAnswered
    <3>. QED
      BY <1>1, <2>2, <3>1 DEF Coming, SavePort
  <2>. QED
    BY <2>1, <2>2
<1>7. TodoReaches'
  <2>1. main \in {"host", "port"}
    BY DEF SaveHost, SavePort
  <2>. QED
    BY <1>1, <1>6, <2>1 DEF ReachInv, TodoReaches
<1>. QED
  BY <1>3, <1>5, <1>7

\* The calls after one more, that reaches an endpoint that answered.
LEMMA ReachAppended ==
  ASSUME ReachInv, NEW c, c.method \notin Discoveries => Reaches(c, program, heard),
         calls' = Append(calls, c), program' = program, heard' = heard
  PROVE  CallsReach'
<1>1. calls \in Seq(CallType)
  BY DEF ReachInv, TypeInv, TypeOK, CallsOK
<1>2. /\ DOMAIN calls' = 1 .. Len(calls) + 1 /\ DOMAIN calls = 1 .. Len(calls)
      /\ calls'[Len(calls) + 1] = c /\ Len(calls) \in Nat
      /\ \A i \in DOMAIN calls : calls'[i] = calls[i]
  BY <1>1
<1>. QED
  BY <1>2 DEF ReachInv, CallsReach

LEMMA InvokeReaches ==
  ASSUME ReachInv, InvokeOCDoResource
  PROVE  CallsReach' /\ TodoReaches' /\ AddressAnswered' /\ CollectedHeard'
<1>1. /\ main = "run" /\ todo # <<>> /\ todo' = Tail(todo) /\ UNCHANGED requestFrame
      /\ program' = program /\ heard' = heard /\ main' = main
  BY DEF InvokeOCDoResource, requestFrame, callbackFrame, commandLine
<1>2. todo \in Seq(RequestsOf(program))
  BY DEF ReachInv, TypeInv
<1>3. /\ 1 \in DOMAIN todo /\ Head(todo) = todo[1] /\ Head(todo) \in RequestsOf(program)
      /\ \A j \in DOMAIN todo' : j + 1 \in DOMAIN todo /\ todo'[j] = todo[j + 1]
  <2> DEFINE T == RequestsOf(program)
  <2> HIDE DEF T
  <2>1. todo \in Seq(T)
    BY <1>2 DEF T
  <2>2. /\ 1 \in DOMAIN todo /\ Head(todo) = todo[1] /\ Head(todo) \in T
        /\ \A j \in DOMAIN todo' : j + 1 \in DOMAIN todo /\ todo'[j] = todo[j + 1]
    BY <1>1, <2>1
  <2>. QED
    BY <2>2 DEF T
<1>4. Destination = Coming /\ Coming' = Coming
  BY <1>1 DEF Destination, Coming, requestFrame
<1>5. Head(todo).method \notin Discoveries =>
        Reaches(Call(Head(todo), Destination, "main"), program, heard)
  BY <1>1, <1>3, <1>4 DEF ReachInv, TodoReaches
<1>6. CallsReach'
  <2>1. CASE Accept
    <3> DEFINE c == Call(Head(todo), Destination, "main")
    <3>1. calls' = Append(calls, c)
      BY <2>1 DEF Accept
    <3>2. c.method = Head(todo).method
      BY DEF Call
    <3> HIDE DEF c
    <3>3. c.method \notin Discoveries => Reaches(c, program, heard)
      BY <1>5, <3>2 DEF c
    <3>. QED
      BY <1>1, <3>1, <3>3, ReachAppended
  <2>2. CASE UNCHANGED stackVars
    BY <1>1, <2>2 DEF ReachInv, CallsReach, stackVars
  <2>. QED
    BY <2>1, <2>2 DEF InvokeOCDoResource, Refuse
<1>7. TodoReaches'
  BY <1>1, <1>3, <1>4 DEF ReachInv, TodoReaches
<1>8. CollectedHeard'
  BY <1>1 DEF ReachInv, CollectedHeard, requestFrame
<1>9. \/ sleeping' = sleeping
      \/ serverAddr.addr \in AnsweredIn(heard) /\ serverAddr.port[1] \in AnsweredIn(heard)
  <2>1. CASE sleeping' # sleeping
    <3>1. Head(todo).again
      BY <2>1 DEF InvokeOCDoResource
    <3>2. program \in {"occlient", "tizen"} /\ Head(todo).method = "DELETE"
      BY <1>3, <3>1 DEF RequestsOf
    <3>3. Reaches(Call(Head(todo), serverAddr, "main"), program, heard)
      BY <1>5, <3>2 DEF Destination, Discoveries
    <3>. QED
      BY <3>3 DEF Reaches, Call
  <2>. QED
    BY <2>1
<1>10. AddressAnswered'
  BY <1>1, <1>9 DEF ReachInv, AddressAnswered, requestFrame
<1>. QED
  BY <1>6, <1>7, <1>8, <1>10

LEMMA CollectReaches ==
  ASSUME ReachInv, collectUniqueResource
  PROVE  CallsReach' /\ TodoReaches' /\ AddressAnswered' /\ CollectedHeard'
<1> DEFINE endpoint == [addr |-> answerer, port |-> <<answerer, FALSE>>]
           entry == [sid |-> DeviceOf[answerer], uri |-> Head(uris).uri, endpoint |-> endpoint]
           Entries == [sid : Endpoints, uri : Uris, endpoint : Addresses]
<1>1. /\ uris # <<>> /\ todo = <<>> /\ uris' = Tail(uris) /\ main = "run" /\ main' = "run"
      /\ program = "basicops" /\ program' = program /\ heard' = heard
      /\ answerer \in Endpoints /\ answerer' = answerer
      /\ UNCHANGED <<bodyFrame, verdict, lastOk, serverAddr, stackVars>>
  BY DEF ReachInv, TypeInv, collectUniqueResource, bodyFrame, callbackFrame, commandLine, history
<1>2. uris \in Seq(Listings) /\ resourceList \in Seq(Entries)
  BY DEF ReachInv, TypeInv, TypeOK, CallbackOK, AddressOK, Listings
<1>3. /\ 1 \in DOMAIN uris /\ Head(uris) = uris[1] /\ Head(uris) \in Listings
      /\ \A k \in DOMAIN uris' : k + 1 \in DOMAIN uris /\ uris'[k] = uris[k + 1]
  BY <1>1, <1>2
<1>4. /\ answerer \in AnsweredIn(heard)
      /\ \A k \in DOMAIN uris : <<answerer, uris[k].uri, uris[k].secure>> \in heard
  BY <1>1 DEF ReachInv, CollectedHeard
<1>5. \E s \in BOOLEAN : <<answerer, Head(uris).uri, s>> \in heard
  BY <1>3, <1>4 DEF Listings
<1>6. \/ resourceList' = resourceList /\ todo' = todo
      \/ resourceList' = <<entry>> \o resourceList /\ todo' = Basic!queryResource(test, resourceList')
  BY DEF collectUniqueResource, Basic!insertResource
<1>7. /\ entry.uri = Head(uris).uri /\ entry.endpoint.addr = answerer
      /\ entry.endpoint.port = <<answerer, FALSE>> /\ entry.endpoint = endpoint
  OBVIOUS
<1> HIDE DEF entry, endpoint, Entries
<1>8. LET more == <<entry>> \o resourceList
      IN /\ more # <<>> /\ Head(more) = entry
         /\ \A k \in DOMAIN more :
              more[k] = entry \/ (k - 1 \in DOMAIN resourceList /\ more[k] = resourceList[k - 1])
  BY <1>2
<1>9. CollectedHeard'
  <2>1. uris' # <<>> =>
          /\ answerer' \in AnsweredIn(heard')
          /\ \A k \in DOMAIN uris' : <<answerer', uris'[k].uri, uris'[k].secure>> \in heard'
    BY <1>1, <1>3, <1>4
  <2> DEFINE Heard(x) == /\ x.endpoint.addr \in AnsweredIn(heard)
                         /\ x.endpoint.port = <<x.endpoint.addr, FALSE>>
                         /\ \E s \in BOOLEAN : <<x.endpoint.addr, x.uri, s>> \in heard
  <2>2. Heard(entry)
    BY <1>4, <1>5, <1>7
  <2>3. \A k \in DOMAIN resourceList : Heard(resourceList[k])
    BY DEF ReachInv, CollectedHeard
  <2>4. \A k \in DOMAIN resourceList' : Heard(resourceList'[k])
    <3> HIDE DEF Heard
    <3>. QED
      BY <1>6, <1>8, <2>2, <2>3
  <2>. QED
    BY <1>1, <2>1, <2>4 DEF CollectedHeard
<1>10. TodoReaches'
  <2> SUFFICES ASSUME NEW j \in DOMAIN todo'
               PROVE  Reaches(Call(todo'[j], Coming', "main"), program, heard)
    BY <1>1 DEF TodoReaches
  <2>1. resourceList' = <<entry>> \o resourceList /\ todo' = Basic!queryResource(test, resourceList')
    BY <1>1, <1>6
  <2>2. resourceList' # <<>> /\ Head(resourceList') = entry /\ entry.uri \in Uris
    BY <1>3, <1>7, <1>8, <2>1 DEF Listings
  <2>3. todo'[j].uri = entry.uri
    BY <2>1, <2>2, QuerySound
  <2>4. Coming' = endpoint
    BY <1>1, <1>7, <2>2 DEF Coming, Basic!getResource
  <2> DEFINE c == Call(todo'[j], Coming', "main")
  <2>5. c.addr = answerer /\ c.port[1] = answerer /\ c.uri = entry.uri
    BY <2>3, <2>4 DEF Call, endpoint
  <2> HIDE DEF c
  <2>. QED
    BY <1>1, <1>4, <1>5, <1>7, <2>5 DEF Reaches, c
<1>11. CallsReach' /\ AddressAnswered'
  BY <1>1 DEF ReachInv, CallsReach, AddressAnswered, bodyFrame, stackVars
<1>. QED
  BY <1>9, <1>10, <1>11

LEMMA ReturnReaches ==
  ASSUME ReachInv, Return
  PROVE  CallsReach' /\ TodoReaches' /\ AddressAnswered' /\ CollectedHeard'
<1>1. /\ main' = "test" /\ uris' = <<>> /\ program' = program /\ heard' = heard
      /\ serverAddr' = serverAddr /\ resourceList' = resourceList /\ calls' = calls
      /\ sleeping' = sleeping
  BY DEF Return, callbackFrame, commandLine, history
<1>2. CallsReach' /\ TodoReaches' /\ CollectedHeard'
  BY <1>1 DEF ReachInv, CallsReach, TodoReaches, CollectedHeard
<1>3. AddressAnswered'
  BY <1>1 DEF ReachInv, AddressAnswered
<1>. QED
  BY <1>2, <1>3

LEMMA ThreadReaches ==
  ASSUME ReachInv, RequestDeleteDeathResourceTask
  PROVE  CallsReach' /\ TodoReaches' /\ AddressAnswered' /\ CollectedHeard'
<1>1. /\ sleeping > 0 /\ sleeping' = sleeping - 1 /\ program' = program /\ heard' = heard
      /\ UNCHANGED <<main, serverAddr, callback, resourceList>>
  BY DEF RequestDeleteDeathResourceTask, callbackFrame, commandLine
<1>2. TodoReaches' /\ CollectedHeard'
  BY <1>1 DEF ReachInv, TodoReaches, CollectedHeard, Coming, callback
<1>3. AddressAnswered'
  BY <1>1 DEF ReachInv, TypeInv, TypeOK, CountersOK, AddressAnswered, callback
<1>4. CallsReach'
  <2> DEFINE c == Call(Occlient!RequestDeleteDeathResourceTask, serverAddr, "thread")
  <2>1. Reaches(c, program, heard)
    BY <1>1 DEF ReachInv, AddressAnswered, Reaches, Call
  <2> HIDE DEF c
  <2>2. CASE calls' = Append(calls, c)
    BY <1>1, <2>1, <2>2, ReachAppended
  <2>3. CASE UNCHANGED stackVars
    BY <1>1, <2>3 DEF ReachInv, CallsReach, stackVars
  <2>. QED
    BY <2>2, <2>3 DEF RequestDeleteDeathResourceTask, c
<1>. QED
  BY <1>2, <1>3, <1>4

LEMMA StepReaches == ReachInv /\ [Next]_vars => ReachInv'
<1> SUFFICES ASSUME ReachInv, [Next]_vars PROVE ReachInv'
  OBVIOUS
<1>1. TypeInv'
  BY StepTyped DEF ReachInv
<1>2. CASE \/ LoopTest \/ ProcessNothing \/ ProcessFails \/ Exit \/ GMainLoop \/ handleSigInt
           \/ UNCHANGED vars
  <2>1. UNCHANGED loopFrame /\ (main' = main \/ main' \notin {"host", "port", "run"})
    BY <1>2 DEF LoopTest, ProcessNothing, ProcessFails, Exit, GMainLoop, handleSigInt, vars, loopFrame
  <2>. QED
    BY <1>1, <2>1, LoopReaches DEF ReachInv
<1>3. CASE \E h \in live, e \in Endpoints, answer \in Answers : ProcessAnswer(h, e, answer)
  BY <1>1, <1>3, AnswerReaches DEF ReachInv
<1>4. CASE \E h \in live, r \in Responses : ProcessResponse(h, r)
  BY <1>1, <1>4, ResponseReaches DEF ReachInv
<1>5. CASE SaveHost \/ SavePort
  BY <1>1, <1>5, SaveReaches DEF ReachInv
<1>6. CASE InvokeOCDoResource
  BY <1>1, <1>6, InvokeReaches DEF ReachInv
<1>7. CASE collectUniqueResource
  BY <1>1, <1>7, CollectReaches DEF ReachInv
<1>8. CASE Return
  BY <1>1, <1>8, ReturnReaches DEF ReachInv
<1>9. CASE RequestDeleteDeathResourceTask
  BY <1>1, <1>9, ThreadReaches DEF ReachInv
<1>. QED
  BY <1>2, <1>3, <1>4, <1>5, <1>6, <1>7, <1>8, <1>9 DEF Next, Main, Terminated

\* Whatever answers come, from however many endpoints and in whatever order, every request of
\* a test goes to the whole address of an endpoint that answered and lists what is asked for.
THEOREM Reach == Spec => []RequestsReachResponders
<1>1. ReachInv => RequestsReachResponders
  BY DEF ReachInv, CallsReach, Reaches, AnsweredIn, RequestsReachResponders, Answered
<1>. QED
  BY <1>1, InitReaches, StepReaches, PTL DEF Spec

-----------------------------------------------------------------------------
(* A resource is collected and queried once.                               *)

\* A resource is listed once, at an address of its device.
ListedOnce ==
  /\ \A k \in DOMAIN resourceList :
       resourceList[k].sid = DeviceOf[resourceList[k].endpoint.addr]
  /\ \A i, k \in DOMAIN resourceList :
       resourceList[i].sid = resourceList[k].sid /\ resourceList[i].uri = resourceList[k].uri
         => i = k

\* A GET was made for a resource of the list, and no two for one.
GetsListed ==
  /\ \A i \in CallsOf("GET") :
       \E k \in DOMAIN resourceList :
         /\ resourceList[k].sid = DeviceOf[calls[i].addr] /\ resourceList[k].uri = calls[i].uri
  /\ \A i, k \in CallsOf("GET") :
       DeviceOf[calls[i].addr] = DeviceOf[calls[k].addr] /\ calls[i].uri = calls[k].uri => i = k

\* A GET that is waiting comes first, is for the resource inserted last, and is its first.
GetIsFirst ==
  \A j \in DOMAIN todo :
    todo[j].method = "GET" =>
      /\ j = 1 /\ resourceList # <<>> /\ todo[1].uri = Head(resourceList).uri
      /\ \A i \in CallsOf("GET") :
           ~(DeviceOf[calls[i].addr] = Head(resourceList).sid /\ calls[i].uri = Head(resourceList).uri)

QueryInv == TypeInv /\ (program = "basicops" => ListedOnce /\ GetsListed /\ GetIsFirst)

LEMMA InitQueried == Init => QueryInv
<1> SUFFICES ASSUME Init PROVE QueryInv
  OBVIOUS
<1>1. TypeInv
  BY InitTyped
<1>2. \A j \in DOMAIN todo : todo[j].method # "GET"
  BY <1>1, FirstSound DEF Init, TypeInv, TypeOK, Discoveries
<1>. QED
  BY <1>1, <1>2 DEF Init, QueryInv, ListedOnce, GetsListed, GetIsFirst, CallsOf

\* The calls of a program that is not making a GET.
LEMMA OtherAppended ==
  ASSUME TypeInv, ListedOnce, GetsListed, NEW c, c.method # "GET",
         calls' = Append(calls, c) \/ calls' = calls, resourceList' = resourceList
  PROVE  ListedOnce' /\ GetsListed' /\ CallsOf("GET")' = CallsOf("GET")
         /\ \A i \in CallsOf("GET") : calls'[i] = calls[i]
<1>1. calls \in Seq(CallType)
  BY DEF TypeInv, TypeOK, CallsOK
<1>2. CASE calls' = Append(calls, c)
  <2>1. /\ DOMAIN calls' = 1 .. Len(calls) + 1 /\ DOMAIN calls = 1 .. Len(calls)
        /\ calls'[Len(calls) + 1] = c /\ Len(calls) \in Nat
        /\ \A i \in DOMAIN calls : calls'[i] = calls[i]
    BY <1>1, <1>2
  <2>2. CallsOf("GET")' = CallsOf("GET")
    BY <2>1 DEF CallsOf
  <2>3. \A i \in CallsOf("GET") : calls'[i] = calls[i]
    BY <2>1 DEF CallsOf
  <2>4. ListedOnce'
    BY DEF ListedOnce
  <2>5. GetsListed'
    BY <2>2, <2>3 DEF GetsListed
  <2>. QED
    BY <2>2, <2>3, <2>4, <2>5
<1>3. CASE calls' = calls
  BY <1>3 DEF ListedOnce, GetsListed, CallsOf
<1>. QED
  BY <1>2, <1>3

\* A callback that begins makes no request at once, so that no GET is waiting.
LEMMA CallbackQueried ==
  ASSUME QueryInv, program = "basicops", program' = program, todo' = <<>>,
         UNCHANGED <<calls, resourceList>>
  PROVE  ListedOnce' /\ GetsListed' /\ GetIsFirst'
  BY DEF QueryInv, ListedOnce, GetsListed, GetIsFirst, CallsOf

LEMMA InvokeQueried ==
  ASSUME QueryInv, program = "basicops", InvokeOCDoResource
  PROVE  ListedOnce' /\ GetsListed' /\ GetIsFirst'
<1> DEFINE c == Call(Head(todo), Destination, "main")
           Entries == [sid : Endpoints, uri : Uris, endpoint : Addresses]
<1>1. /\ TypeInv /\ ListedOnce /\ GetsListed /\ GetIsFirst
      /\ todo # <<>> /\ todo' = Tail(todo) /\ resourceList' = resourceList
      /\ calls' = Append(calls, c) \/ calls' = calls
  BY DEF QueryInv, InvokeOCDoResource, Accept, Refuse, requestFrame, stackVars
<1>2. /\ 1 \in DOMAIN todo /\ Head(todo) = todo[1]
      /\ \A j \in DOMAIN todo' : j + 1 \in DOMAIN todo /\ todo'[j] = todo[j + 1] /\ j \in Nat \ {0}
  <2> DEFINE T == RequestsOf(program)
  <2>1. todo \in Seq(T)
    BY DEF QueryInv, TypeInv
  <2> HIDE DEF T
  <2>. QED
    BY <1>1, <2>1
<1>3. c.method = Head(todo).method /\ c.uri = Head(todo).uri /\ c.addr = Destination.addr
  BY DEF Call
<1> HIDE DEF c
<1>4. GetIsFirst'
  <2>1. \A j \in DOMAIN todo' : todo'[j].method # "GET"
    BY <1>1, <1>2 DEF GetIsFirst
  <2>. QED
    BY <2>1 DEF GetIsFirst
<1>5. CASE c.method # "GET" \/ calls' = calls
  <2>1. CASE calls' = calls
    BY <1>1, <1>4, <2>1 DEF ListedOnce, GetsListed, CallsOf
  <2>2. CASE c.method # "GET"
    BY <1>1, <1>4, <2>2, OtherAppended
  <2>. QED
    BY <1>5, <2>1, <2>2
<1>6. CASE c.method = "GET" /\ calls' = Append(calls, c)
  <2>1. /\ resourceList # <<>> /\ c.uri = Head(resourceList).uri
        /\ \A i \in CallsOf("GET") :
             ~(DeviceOf[calls[i].addr] = Head(resourceList).sid /\ calls[i].uri = Head(resourceList).uri)
    BY <1>1, <1>2, <1>3, <1>6 DEF GetIsFirst
  <2>2. 1 \in DOMAIN resourceList /\ Head(resourceList) = resourceList[1]
    <3>1. resourceList \in Seq(Entries)
      BY DEF QueryInv, TypeInv, TypeOK, AddressOK
    <3> HIDE DEF Entries
    <3>. QED
      BY <2>1, <3>1
  <2>3. c.addr = resourceList[1].endpoint.addr
    BY <1>3, <2>1, <2>2 DEF Destination, Basic!getResource
  <2>4. DeviceOf[c.addr] = resourceList[1].sid
    BY <1>1, <2>2, <2>3 DEF ListedOnce
  <2>5. /\ DOMAIN calls' = 1 .. Len(calls) + 1 /\ DOMAIN calls = 1 .. Len(calls)
        /\ calls'[Len(calls) + 1] = c /\ Len(calls) \in Nat
        /\ \A i \in DOMAIN calls : calls'[i] = calls[i]
    <3>1. calls \in Seq(CallType)
      BY DEF QueryInv, TypeInv, TypeOK, CallsOK
    <3>. QED
      BY <1>6, <3>1
  <2>6. \A i \in CallsOf("GET")' : i = Len(calls) + 1 \/ (i \in CallsOf("GET") /\ calls'[i] = calls[i])
    BY <2>5 DEF CallsOf
  <2>7. ListedOnce'
    BY <1>1 DEF ListedOnce
  <2>8. ASSUME NEW i \in CallsOf("GET")'
        PROVE  \E k \in DOMAIN resourceList' :
                 resourceList'[k].sid = DeviceOf[calls'[i].addr] /\ resourceList'[k].uri = calls'[i].uri
    BY <1>1, <2>1, <2>2, <2>4, <2>5, <2>6 DEF GetsListed
  <2>9. ASSUME NEW i \in CallsOf("GET")', NEW k \in CallsOf("GET")',
               DeviceOf[calls'[i].addr] = DeviceOf[calls'[k].addr], calls'[i].uri = calls'[k].uri
        PROVE  i = k
    <3>1. CASE i = Len(calls) + 1 /\ k # i
      BY <2>1, <2>2, <2>4, <2>5, <2>6, <2>9, <3>1
    <3>2. CASE k = Len(calls) + 1 /\ k # i
      BY <2>1, <2>2, <2>4, <2>5, <2>6, <2>9, <3>2
    <3>3. CASE i # Len(calls) + 1 /\ k # Len(calls) + 1
      BY <1>1, <2>6, <2>9, <3>3 DEF GetsListed
    <3>. QED
      BY <3>1, <3>2, <3>3
  <2>10. GetsListed'
    BY <2>8, <2>9 DEF GetsListed
  <2>. QED
    BY <1>4, <2>7, <2>10
<1>. QED
  BY <1>1, <1>5, <1>6

LEMMA CollectQueried ==
  ASSUME QueryInv, program = "basicops", collectUniqueResource
  PROVE  ListedOnce' /\ GetsListed' /\ GetIsFirst'
<1> DEFINE endpoint == [addr |-> answerer, port |-> <<answerer, FALSE>>]
           sid == DeviceOf[answerer]
           uri == Head(uris).uri
           entry == [sid |-> sid, uri |-> uri, endpoint |-> endpoint]
           Entries == [sid : Endpoints, uri : Uris, endpoint : Addresses]
<1>1. /\ TypeInv /\ ListedOnce /\ GetsListed /\ uris # <<>> /\ todo = <<>> /\ calls' = calls
      /\ uris \in Seq(Listings) /\ resourceList \in Seq(Entries)
  BY DEF QueryInv, TypeInv, TypeOK, CallbackOK, AddressOK, Listings, collectUniqueResource, stackVars
<1>2. uri \in Uris
  <2>1. Head(uris) \in Listings
    BY <1>1
  <2>. QED
    BY <2>1 DEF Listings
<1>3. CASE UNCHANGED <<resourceList, todo>>
  BY <1>1, <1>3, CallbackQueried DEF ListedOnce, GetsListed, GetIsFirst, CallsOf
<1>4. CASE /\ ~Basic!IsOld(resourceList, sid, endpoint, uri)
           /\ resourceList' = Basic!insertResource(resourceList, sid, endpoint, uri)
           /\ todo' = Basic!queryResource(test, resourceList')
  <2>1. /\ resourceList' = <<entry>> \o resourceList
        /\ \A k \in DOMAIN resourceList : ~(resourceList[k].sid = sid /\ resourceList[k].uri = uri)
    BY <1>4 DEF Basic!insertResource, Basic!IsOld
  <2>2. /\ entry.sid = sid /\ entry.uri = uri /\ entry.endpoint.addr = answerer
    OBVIOUS
  <2>3. DeviceOf[entry.endpoint.addr] = entry.sid
    BY <2>2
  <2> HIDE DEF entry, endpoint, sid, uri, Entries
  <2>4. /\ resourceList' # <<>> /\ Head(resourceList') = entry /\ resourceList'[1] = entry
        /\ \A k \in DOMAIN resourceList' :
             k = 1 \/ (k - 1 \in DOMAIN resourceList /\ resourceList'[k] = resourceList[k - 1])
        /\ \A k \in DOMAIN resourceList :
             k + 1 \in DOMAIN resourceList' /\ resourceList'[k + 1] = resourceList[k]
        /\ DOMAIN resourceList \subseteq Nat /\ DOMAIN resourceList' \subseteq Nat
    BY <1>1, <2>1
  <2>5. ListedOnce'
    <3>1. \A k \in DOMAIN resourceList' : resourceList'[k].sid = DeviceOf[resourceList'[k].endpoint.addr]
      BY <1>1, <2>3, <2>4 DEF ListedOnce
    <3>2. ASSUME NEW i \in DOMAIN resourceList', NEW k \in DOMAIN resourceList',
                 resourceList'[i].sid = resourceList'[k].sid, resourceList'[i].uri = resourceList'[k].uri
          PROVE  i = k
      <4>1. CASE i = 1 /\ k # 1
        BY <2>1, <2>2, <2>4, <3>2, <4>1
      <4>2. CASE i # 1 /\ k = 1
        BY <2>1, <2>2, <2>4, <3>2, <4>2
      <4>3. CASE i # 1 /\ k # 1
        <5>1. i - 1 = k - 1
          BY <1>1, <2>4, <3>2, <4>3 DEF ListedOnce
        <5>. QED
          BY <2>4, <5>1
      <4>. QED
        BY <4>1, <4>2, <4>3
    <3>. QED
      BY <3>1, <3>2 DEF ListedOnce
  <2>6. CallsOf("GET")' = CallsOf("GET")
    BY <1>1 DEF CallsOf
  <2>7. GetsListed'
    <3>1. ASSUME NEW i \in CallsOf("GET")
          PROVE  \E k \in DOMAIN resourceList' :
                   resourceList'[k].sid = DeviceOf[calls[i].addr] /\ resourceList'[k].uri = calls[i].uri
      <4>1. PICK k \in DOMAIN resourceList :
                   resourceList[k].sid = DeviceOf[calls[i].addr] /\ resourceList[k].uri = calls[i].uri
        BY <1>1 DEF GetsListed
      <4>. QED
        BY <2>4, <4>1
    <3>. QED
      BY <1>1, <2>6, <3>1 DEF GetsListed
  <2>8. \A i \in CallsOf("GET") : ~(DeviceOf[calls[i].addr] = sid /\ calls[i].uri = uri)
    BY <1>1, <2>1 DEF GetsListed
  <2>9. \A j \in DOMAIN todo' : todo'[j].uri = entry.uri /\ (todo'[j].method = "GET" => j = 1)
    BY <1>2, <1>4, <2>2, <2>4, QuerySound
  <2>10. GetIsFirst'
    BY <1>1, <2>2, <2>4, <2>6, <2>8, <2>9 DEF GetIsFirst
  <2>. QED
    BY <2>5, <2>7, <2>10
<1>. QED
  BY <1>3, <1>4 DEF collectUniqueResource

LEMMA StepQueried == QueryInv /\ [Next]_vars => QueryInv'
<1> SUFFICES ASSUME QueryInv, [Next]_vars PROVE QueryInv'
  OBVIOUS
<1>1. TypeInv /\ TypeInv' /\ ConfigOK /\ CountersOK
  BY StepTyped DEF QueryInv, TypeInv, TypeOK
<1>2. program' = program
  BY DEF Next, Main, LoopTest, ProcessNothing, ProcessFails, Exit, ProcessAnswer, ProcessResponse,
         SaveHost, SavePort, InvokeOCDoResource, collectUniqueResource, Return, GMainLoop,
         handleSigInt, RequestDeleteDeathResourceTask, Terminated, vars, loopFrame, callbackFrame,
         bodyFrame, requestFrame, commandLine
<1> SUFFICES ASSUME program = "basicops" PROVE ListedOnce' /\ GetsListed' /\ GetIsFirst'
  BY <1>1, <1>2 DEF QueryInv
<1>3. ListedOnce /\ GetsListed /\ GetIsFirst
  BY DEF QueryInv
<1>4. CASE UNCHANGED <<calls, resourceList, todo>>
  BY <1>3, <1>4 DEF ListedOnce, GetsListed, GetIsFirst, CallsOf
<1>5. CASE \E h \in live, e \in Endpoints, answer \in Answers : ProcessAnswer(h, e, answer)
  <2>1. PICK h \in live, e \in Endpoints, answer \in Answers : ProcessAnswer(h, e, answer)
    BY <1>5
  <2> DEFINE outcome == AnswerOutcome(calls[h].method, answer)
  <2>2. calls[h].method \in MethodsOf(program) \cap Discoveries /\ answer \in AnswerType
    BY <1>1, <2>1, AnswersTyped DEF TypeInv, TypeOK, CallsOK, ProcessAnswer
  <2>3. Sound(outcome, program)
    BY <1>1, <2>2, AnswerSound
  <2>4. todo' = outcome.requests /\ UNCHANGED <<calls, resourceList>>
    BY <2>1 DEF ProcessAnswer, Begin, stackVars
  <2> HIDE DEF outcome
  <2>. QED
    BY <1>2, <2>3, <2>4, CallbackQueried DEF Sound
<1>6. CASE \E h \in live, r \in Responses : ProcessResponse(h, r)
  <2>1. PICK h \in live, r \in Responses : ProcessResponse(h, r)
    BY <1>6
  <2> DEFINE outcome == ResponseOutcome(calls[h].method, r)
  <2>2. calls[h].method \in MethodsOf(program) \ Discoveries
    BY <1>1, <2>1 DEF TypeInv, TypeOK, CallsOK, ProcessResponse
  <2>3. Sound(outcome, program)
    BY <1>1, <2>2, ResponseSound
  <2>4. todo' = outcome.requests /\ UNCHANGED <<calls, resourceList>>
    BY <2>1 DEF ProcessResponse, Begin, ResponseOutcome
  <2> HIDE DEF outcome
  <2>. QED
    BY <1>2, <2>3, <2>4, CallbackQueried DEF Sound
<1>7. CASE InvokeOCDoResource
  BY <1>7, InvokeQueried
<1>8. CASE collectUniqueResource
  BY <1>8, CollectQueried
<1>9. CASE RequestDeleteDeathResourceTask
  BY <1>1, <1>9 DEF RequestDeleteDeathResourceTask, TypeInv
<1>10. CASE \/ LoopTest \/ ProcessNothing \/ ProcessFails \/ Exit \/ GMainLoop \/ handleSigInt
            \/ SaveHost \/ SavePort \/ Return \/ UNCHANGED vars
  BY <1>4, <1>10 DEF LoopTest, ProcessNothing, ProcessFails, Exit, GMainLoop, handleSigInt,
         SaveHost, SavePort, Return, vars, loopFrame, callback, stackVars
<1>. QED
  BY <1>5, <1>6, <1>7, <1>8, <1>9, <1>10 DEF Next, Main, Terminated

\* However often and from whatever address a device answers, the client of basicops collects a
\* resource of it once and makes one GET for it.
THEOREM Queried == Spec => []QueriedOnce
<1>1. QueryInv => QueriedOnce
  BY DEF QueryInv, ListedOnce, GetsListed, QueriedOnce
<1>. QED
  BY <1>1, InitQueried, StepQueried, PTL DEF Spec

-----------------------------------------------------------------------------
(* Subscriptions end.                                                      *)

Kinds == {"OBSERVE", "PRESENCE"}

Stored(K) == IF K = "PRESENCE" THEN gPresenceHandle ELSE gObserveDoHandle
Counted(K) == IF K = "PRESENCE" THEN gNumPresenceNotifies ELSE gNumObserveNotifies

\* The programs that keep the handle of a subscription of kind K.
Keeps(K) == program \in (IF K = "PRESENCE" THEN {"occlient", "tizen"} ELSE {"tizen", "remote"})

\* The runs in which the notification that reaches the threshold, and it alone, cancels.
CancelsAtThreshold(K) == K = "PRESENCE" \/ program = "remote" \/ (program = "tizen" /\ test = "OBS")

Ended(K) == CallsOf(K) \ live

LEMMA FiniteCalls ==
  ASSUME NEW all \in Seq(CallType), NEW T \in SUBSET DOMAIN all
  PROVE  IsFiniteSet(T) /\ Cardinality(T) \in Nat
<1>1. DOMAIN all = 1 .. Len(all) /\ Len(all) \in Nat
  OBVIOUS
<1>2. IsFiniteSet(DOMAIN all)
  BY <1>1, FS_Interval
<1>3. IsFiniteSet(T)
  BY <1>2, FS_Subset
<1>. QED
  BY <1>3, FS_CardinalityType

LEMMA CallsOfFinite ==
  ASSUME TypeInv, NEW K
  PROVE  /\ IsFiniteSet(CallsOf(K)) /\ IsFiniteSet(Ended(K))
         /\ Cardinality(CallsOf(K)) \in Nat /\ Cardinality(Ended(K)) \in Nat
<1>1. calls \in Seq(CallType)
  BY DEF TypeInv, TypeOK, CallsOK
<1>2. CallsOf(K) \in SUBSET DOMAIN calls /\ Ended(K) \in SUBSET DOMAIN calls
  BY DEF CallsOf, Ended
<1>. QED
  BY <1>1, <1>2, FiniteCalls

\* The same of the calls after a step.
LEMMA CallsOfFiniteNext ==
  ASSUME TypeInv', NEW K
  PROVE  /\ IsFiniteSet(CallsOf(K)') /\ IsFiniteSet(Ended(K)')
         /\ Cardinality(CallsOf(K)') \in Nat /\ Cardinality(Ended(K)') \in Nat
<1>1. calls' \in Seq(CallType)
  BY DEF TypeInv, TypeOK, CallsOK
<1>2. CallsOf(K)' \in SUBSET DOMAIN calls' /\ Ended(K)' \in SUBSET DOMAIN calls'
  BY DEF CallsOf, Ended
<1>. QED
  BY <1>1, <1>2, FiniteCalls

LEMMA OneOnly ==
  ASSUME NEW S, IsFiniteSet(S), Cardinality(S) <= 1, NEW a \in S, NEW b \in S
  PROVE  a = b
<1>1. SUFFICES ASSUME a # b PROVE FALSE
  OBVIOUS
<1>2. IsFiniteSet({a}) /\ Cardinality({a}) = 1
  BY FS_Singleton
<1>3. IsFiniteSet({a} \cup {b}) /\ Cardinality({a} \cup {b}) = 2
  <2>1. /\ IsFiniteSet({a} \cup {b})
        /\ Cardinality({a} \cup {b}) = IF b \in {a} THEN Cardinality({a}) ELSE Cardinality({a}) + 1
    BY <1>2, FS_AddElement, Zenon
  <2>. QED
    BY <1>1, <1>2, <2>1
<1>4. {a} \cup {b} \in SUBSET S
  OBVIOUS
<1>5. Cardinality({a} \cup {b}) <= Cardinality(S) /\ Cardinality(S) \in Nat
  BY <1>4, FS_Subset, FS_CardinalityType
<1>. QED
  BY <1>3, <1>5

\* What a callback does to subscriptions.
LEMMA CancelSound ==
  ASSUME ConfigOK, CountersOK, NEW m \in MethodsOf(program) \ Discoveries, NEW r
  PROVE  LET o == ResponseOutcome(m, r)
         IN /\ program # "coll" /\ o.cancel # "none" /\ o.of # "own" => m \in Kinds /\ Keeps(m)
            /\ program # "coll" /\ m \in Single => ~o.counts
            /\ m \in Kinds /\ CancelsAtThreshold(m) /\ o.counts /\ Counted(m) + 1 = MaxNotifications =>
                 o.cancel = "low" /\ o.of # "own" /\ Keeps(m)
            /\ program = "occlient" /\ test = "OBS" /\ m = "OBSERVE" /\ o.counts
               /\ Counted(m) + 1 > MaxNotifications => o.cancel = "low" /\ o.of = "own"
<1>1. m \in Single \/ m \in Kinds
  BY MethodsTyped DEF ConfigOK, Methods, Kinds
<1>2. CASE m \in Single
  <2>1. m \notin Kinds
    BY <1>2 DEF Single, Kinds
  <2>2. program # "coll" => ResponseOutcome(m, r) = Delete
    BY <1>2 DEF ResponseOutcome, SingleOutcome, ConfigOK, Programs
  <2>3. Delete.cancel = "none" /\ ~Delete.counts
    BY DEF Delete, Keep
  <2>. QED
    BY <1>2, <2>1, <2>2, <2>3 DEF Kinds
<1>3. CASE m = "OBSERVE"
  <2>1. program \in {"occlient", "tizen", "remote"} /\ m \notin Single
    BY <1>3 DEF ConfigOK, Programs, MethodsOf, Single
  <2> DEFINE n == gNumObserveNotifies + 1
  <2>2. Counted(m) + 1 = n /\ n \in Nat /\ MaxNotifications \in Nat
    BY <1>3, ClientConstants DEF Counted, CountersOK
  <2> HIDE DEF n
  <2>3. CASE program = "occlient"
    <3> DEFINE o == Occlient!obsReqCB(test, r, n)
    <3>1. ResponseOutcome(m, r) = o
      BY <1>3, <2>1, <2>3 DEF ResponseOutcome, NotificationOutcome, n
    <3>2. o.of = "own"
      BY Same DEF Occlient!obsReqCB, Occlient!KeepUnlessOver, Keep, Delete
    <3>3. n > MaxNotifications /\ o.counts /\ test = "OBS" => o.cancel = "low"
      BY <2>2, Same DEF Occlient!obsReqCB, Keep, Delete
    <3> HIDE DEF o
    <3>. QED
      BY <1>3, <2>1, <2>2, <2>3, <3>1, <3>2, <3>3 DEF CancelsAtThreshold
  <2>4. CASE program = "tizen"
    <3> DEFINE o == Tizen!obsReqCB(test, r, n)
    <3>1. ResponseOutcome(m, r) = o
      BY <1>3, <2>1, <2>4 DEF ResponseOutcome, NotificationOutcome, n
    <3>2. n = MaxNotifications /\ o.counts /\ test = "OBS" => o.cancel = "low" /\ o.of # "own"
      BY <2>2, Same DEF Tizen!obsReqCB, Keep, Delete
    <3> HIDE DEF o
    <3>. QED
      BY <1>3, <2>1, <2>2, <2>4, <3>1, <3>2 DEF CancelsAtThreshold, Keeps, Kinds
  <2>5. CASE program = "remote"
    <3> DEFINE o == Remote!obsReqCB(test, r, n)
    <3>1. ResponseOutcome(m, r) = o
      BY <1>3, <2>1, <2>5 DEF ResponseOutcome, NotificationOutcome, n
    <3>2. n = MaxNotifications /\ o.counts => o.cancel = "low" /\ o.of # "own"
      BY <2>2, Same DEF Remote!obsReqCB, Keep, Delete, Crash
    <3> HIDE DEF o
    <3>. QED
      BY <1>3, <2>1, <2>2, <2>5, <3>1, <3>2 DEF Keeps, Kinds
  <2>. QED
    BY <2>1, <2>3, <2>4, <2>5
<1>4. CASE m = "PRESENCE"
  <2>1. program \in {"occlient", "tizen"} /\ m \notin Single
    BY <1>4 DEF ConfigOK, Programs, MethodsOf, Single
  <2> DEFINE n == gNumPresenceNotifies + 1
  <2>2. Counted(m) + 1 = n
    BY <1>4 DEF Counted
  <2>3. Keeps(m) /\ m \in Kinds
    BY <1>4, <2>1 DEF Keeps, Kinds
  <2> HIDE DEF n
  <2>4. CASE program = "occlient"
    <3> DEFINE o == Occlient!presenceCB(r, n)
    <3>1. ResponseOutcome(m, r) = o
      BY <1>4, <2>1, <2>4 DEF ResponseOutcome, NotificationOutcome, n
    <3>2. n = MaxNotifications /\ o.counts => o.cancel = "low" /\ o.of # "own"
      BY Same DEF Occlient!presenceCB, Keep, Delete
    <3> HIDE DEF o
    <3>. QED
      BY <1>4, <2>1, <2>2, <2>3, <3>1, <3>2
  <2>5. CASE program = "tizen"
    <3> DEFINE o == Tizen!presenceCB(r, n)
    <3>1. ResponseOutcome(m, r) = o
      BY <1>4, <2>1, <2>5 DEF ResponseOutcome, NotificationOutcome, n
    <3>2. n = MaxNotifications /\ o.counts => o.cancel = "low" /\ o.of # "own"
      BY Same DEF Tizen!presenceCB, Keep, Delete
    <3> HIDE DEF o
    <3>. QED
      BY <1>4, <2>1, <2>2, <2>3, <2>5, <3>1, <3>2
  <2>. QED
    BY <2>1, <2>4, <2>5
<1>. QED
  BY <1>1, <1>2, <1>3, <1>4 DEF Kinds

\* As seen by the subscriptions, a step makes no call, makes one, or is a callback.
NoCall ==
  /\ calls' = calls /\ live' \subseteq live /\ badCancel' = badCancel
  /\ \A K \in Kinds : Stored(K)' = Stored(K) /\ Counted(K)' = Counted(K)

OneCall(c) ==
  /\ calls' = Append(calls, c) /\ live' = live \cup {Len(calls')} /\ badCancel' = badCancel
  /\ \A K \in Kinds :
       /\ Counted(K)' = Counted(K)
       /\ Keeps(K) => Stored(K)' = IF c.method = K THEN Len(calls') ELSE Stored(K)

Calledback(h, r) ==
  LET m == calls[h].method
      o == ResponseOutcome(m, r)
  IN /\ calls' = calls /\ m \in MethodsOf(program) \ Discoveries
     /\ OCCancel(IF o.of = "own" THEN h ELSE IF m = "PRESENCE" THEN gPresenceHandle
                                             ELSE gObserveDoHandle, o.cancel)
     /\ \A K \in Kinds :
          /\ Stored(K)' = Stored(K)
          /\ Counted(K)' = IF o.counts /\ (m = "PRESENCE" <=> K = "PRESENCE")
                           THEN Counted(K) + 1 ELSE Counted(K)

LEMMA StepKinds ==
  ASSUME TypeInv, [Next]_vars
  PROVE  /\ program' = program /\ test' = test
         /\ NoCall \/ (\E c : OneCall(c)) \/ (\E h \in live, r \in Responses : Calledback(h, r))
<1>1. program' = program /\ test' = test
  BY DEF Next, Main, LoopTest, ProcessNothing, ProcessFails, Exit, ProcessAnswer, ProcessResponse,
         SaveHost, SavePort, InvokeOCDoResource, collectUniqueResource, Return, GMainLoop,
         handleSigInt, RequestDeleteDeathResourceTask, Terminated, vars, loopFrame, callbackFrame,
         bodyFrame, requestFrame, commandLine
<1>2. CASE \/ LoopTest \/ ProcessNothing \/ ProcessFails \/ Exit \/ GMainLoop \/ handleSigInt
           \/ SaveHost \/ SavePort \/ collectUniqueResource \/ UNCHANGED vars
  <2>1. UNCHANGED <<stackVars, counters, history>>
    BY <1>2 DEF LoopTest, ProcessNothing, ProcessFails, Exit, GMainLoop, handleSigInt, SaveHost,
           SavePort, collectUniqueResource, vars, loopFrame, bodyFrame
  <2>. QED
    BY <1>1, <2>1 DEF NoCall, Stored, Counted, stackVars, counters, history
<1>3. CASE \E h \in live, e \in Endpoints, answer \in Answers : ProcessAnswer(h, e, answer)
  <2>1. UNCHANGED <<stackVars, counters, badCancel>>
    BY <1>3 DEF ProcessAnswer
  <2>. QED
    BY <1>1, <2>1 DEF NoCall, Stored, Counted, stackVars, counters
<1>4. CASE Return
  <2>1. calls' = calls /\ live' \subseteq live /\ UNCHANGED <<counters, history>>
    BY <1>4 DEF Return
  <2>. QED
    BY <1>1, <2>1 DEF NoCall, Stored, Counted, counters, history
<1>5. CASE \E h \in live, r \in Responses : ProcessResponse(h, r)
  <2>1. PICK h \in live, r \in Responses : ProcessResponse(h, r)
    BY <1>5
  <2> DEFINE m == calls[h].method
             o == ResponseOutcome(m, r)
  <2>2. m \in MethodsOf(program) \ Discoveries
    BY <2>1 DEF TypeInv, TypeOK, CallsOK, ProcessResponse
  <2>3. /\ calls' = calls
        /\ OCCancel(IF o.of = "own" THEN h ELSE IF m = "PRESENCE" THEN gPresenceHandle
                                                ELSE gObserveDoHandle, o.cancel)
        /\ gObserveDoHandle' = gObserveDoHandle /\ gPresenceHandle' = gPresenceHandle
        /\ gNumObserveNotifies' = IF o.counts /\ m # "PRESENCE"
                                  THEN gNumObserveNotifies + 1 ELSE gNumObserveNotifies
        /\ gNumPresenceNotifies' = IF o.counts /\ m = "PRESENCE"
                                   THEN gNumPresenceNotifies + 1 ELSE gNumPresenceNotifies
    BY <2>1 DEF ProcessResponse, ResponseOutcome
  <2>4. Calledback(h, r)
    BY <2>2, <2>3 DEF Calledback, Stored, Counted
  <2>. QED
    BY <1>1, <2>4
<1>6. CASE InvokeOCDoResource
  <2>1. UNCHANGED <<gNumObserveNotifies, gNumPresenceNotifies, badCancel>>
    BY <1>6 DEF InvokeOCDoResource, requestFrame
  <2>2. CASE Accept /\ StoreHandle(Head(todo).method, Len(calls'))
    <3> DEFINE c == Call(Head(todo), Destination, "main")
    <3>1. c.method = Head(todo).method
      BY DEF Call
    <3>2. calls' = Append(calls, c) /\ live' = live \cup {Len(calls')}
      BY <2>2 DEF Accept
    <3> HIDE DEF c
    <3>3. ASSUME NEW K \in Kinds, Keeps(K)
          PROVE  Stored(K)' = IF c.method = K THEN Len(calls') ELSE Stored(K)
      BY <2>2, <3>1, <3>3 DEF Kinds, Keeps, Stored, StoreHandle, Stores,
             Occlient!InvokeOCDoResource, Tizen!InvokeOCDoResource, Remote!InvokeOCDoResource
    <3>4. OneCall(c)
      BY <2>1, <3>2, <3>3 DEF OneCall, Counted
    <3>. QED
      BY <1>1, <3>4
  <2>3. CASE UNCHANGED <<stackVars, gObserveDoHandle, gPresenceHandle>>
    BY <1>1, <2>1, <2>3 DEF NoCall, Stored, Counted, stackVars
  <2>. QED
    BY <1>6, <2>2, <2>3 DEF InvokeOCDoResource, Refuse
<1>7. CASE RequestDeleteDeathResourceTask
  <2>1. UNCHANGED <<counters, badCancel>>
    BY <1>7 DEF RequestDeleteDeathResourceTask
  <2> DEFINE c == Call(Occlient!RequestDeleteDeathResourceTask, serverAddr, "thread")
  <2>2. c.method = "DELETE"
    BY Same DEF Call, Occlient!RequestDeleteDeathResourceTask, Request
  <2> HIDE DEF c
  <2>3. CASE calls' = Append(calls, c) /\ live' = live \cup {Len(calls')}
    <3>1. OneCall(c)
      BY <2>1, <2>2, <2>3 DEF OneCall, Kinds, Stored, Counted, counters
    <3>. QED
      BY <1>1, <3>1
  <2>4. CASE UNCHANGED stackVars
    BY <1>1, <2>1, <2>4 DEF NoCall, Stored, Counted, stackVars, counters
  <2>. QED
    BY <1>7, <2>3, <2>4 DEF RequestDeleteDeathResourceTask, c
<1>. QED
  BY <1>2, <1>3, <1>4, <1>5, <1>6, <1>7 DEF Next, Main, Terminated

\* The handle that is kept is that of a subscription, if there is one.
HandlesKept ==
  \A K \in Kinds : Keeps(K) /\ CallsOf(K) # {} => Stored(K) \in CallsOf(K)

\* A single subscription is over when the threshold is reached.
ThresholdEnds ==
  \A K \in Kinds :
    CancelsAtThreshold(K) /\ Cardinality(CallsOf(K)) <= 1 =>
      /\ Counted(K) <= MaxNotifications
      /\ Counted(K) = MaxNotifications => CallsOf(K) # {} /\ CallsOf(K) \cap live = {}

\* In occlient every notification beyond the threshold is the last of an observation.
BeyondEnds ==
  program = "occlient" /\ test = "OBS" =>
    gNumObserveNotifies <= MaxNotifications + Cardinality(Ended("OBSERVE"))

SubscriptionInv == TypeInv /\ HandlesKept /\ ThresholdEnds /\ BeyondEnds /\ CancelsLive

LEMMA InitSubscribed == Init => SubscriptionInv
<1> SUFFICES ASSUME Init PROVE SubscriptionInv
  OBVIOUS
<1>1. TypeInv
  BY InitTyped
<1>2. \A K : CallsOf(K) = {}
  BY DEF Init, CallsOf
<1>3. MaxNotifications \in Nat \ {0}
  BY ClientConstants
<1>4. ASSUME NEW K \in Kinds, CancelsAtThreshold(K) PROVE Counted(K) = 0
  BY <1>4 DEF Init, CancelsAtThreshold, Counted
<1>5. HandlesKept /\ ThresholdEnds
  BY <1>2, <1>3, <1>4 DEF HandlesKept, ThresholdEnds
<1>6. BeyondEnds
  <2>1. Cardinality(Ended("OBSERVE")) \in Nat
    BY <1>1, CallsOfFinite
  <2>2. program = "occlient" => gNumObserveNotifies = 0
    BY DEF Init
  <2>. QED
    BY <1>3, <2>1, <2>2 DEF BeyondEnds
<1>7. CancelsLive
  BY DEF Init, CancelsLive
<1>. QED
  BY <1>1, <1>5, <1>6, <1>7 DEF SubscriptionInv

\* The calls of a kind after a step.
LEMMA CallsOfSame ==
  ASSUME calls' = calls, NEW K
  PROVE  CallsOf(K)' = CallsOf(K)
  BY DEF CallsOf

LEMMA CallsOfMore ==
  ASSUME TypeInv, NEW c, OneCall(c), NEW K
  PROVE  LET new == Len(calls) + 1
         IN /\ CallsOf(K)' = CallsOf(K) \cup (IF c.method = K THEN {new} ELSE {})
            /\ new \notin CallsOf(K) /\ new \notin live /\ live' = live \cup {new}
            /\ Len(calls') = new
<1>1. calls \in Seq(CallType) /\ live \subseteq DOMAIN calls
  BY DEF TypeInv, TypeOK, CallsOK
<1>2. /\ DOMAIN calls' = 1 .. Len(calls) + 1 /\ DOMAIN calls = 1 .. Len(calls)
      /\ calls'[Len(calls) + 1] = c /\ Len(calls) \in Nat /\ Len(calls') = Len(calls) + 1
      /\ \A i \in DOMAIN calls : calls'[i] = calls[i]
      /\ live' = live \cup {Len(calls')}
  BY <1>1 DEF OneCall
<1>3. CallsOf(K)' = CallsOf(K) \cup (IF c.method = K THEN {Len(calls) + 1} ELSE {})
  BY <1>2 DEF CallsOf
<1>4. Len(calls) + 1 \notin CallsOf(K) /\ Len(calls) + 1 \notin live
  BY <1>1, <1>2 DEF CallsOf
<1>. QED
  BY <1>2, <1>3, <1>4

\* A set of calls that was small before a call was made.
LEMMA FewerCalls ==
  ASSUME TypeInv, TypeInv', NEW K, CallsOf(K) \subseteq CallsOf(K)',
         Cardinality(CallsOf(K)') <= 1
  PROVE  Cardinality(CallsOf(K)) <= 1
<1>1. IsFiniteSet(CallsOf(K)') /\ Cardinality(CallsOf(K)') \in Nat
  BY CallsOfFiniteNext
<1>2. Cardinality(CallsOf(K)) <= Cardinality(CallsOf(K)') /\ Cardinality(CallsOf(K)) \in Nat
  BY <1>1, FS_Subset, CallsOfFinite
<1>. QED
  BY <1>1, <1>2

\* What has ended stays so.
LEMMA EndedGrows ==
  ASSUME TypeInv, TypeInv', [Next]_vars
  PROVE  \A K : Ended(K) \subseteq Ended(K)' /\ Cardinality(Ended(K)) <= Cardinality(Ended(K)')
<1> SUFFICES ASSUME NEW K
             PROVE  Ended(K) \subseteq Ended(K)' /\ Cardinality(Ended(K)) <= Cardinality(Ended(K)')
  OBVIOUS
<1>1. ASSUME calls' = calls, live' \subseteq live PROVE Ended(K) \subseteq Ended(K)'
  BY <1>1, CallsOfSame DEF Ended
<1>2. ASSUME \E c : OneCall(c) PROVE Ended(K) \subseteq Ended(K)'
  <2>1. PICK c : OneCall(c)
    BY <1>2
  <2>. QED
    BY <2>1, CallsOfMore DEF Ended
<1>3. Ended(K) \subseteq Ended(K)'
  BY <1>1, <1>2, StepKinds DEF NoCall, Calledback, OCCancel
<1>. QED
  BY <1>3, CallsOfFiniteNext, FS_Subset

LEMMA CallSubscribed ==
  ASSUME SubscriptionInv, TypeInv', [Next]_vars, NoCall \/ \E c : OneCall(c)
  PROVE  HandlesKept' /\ ThresholdEnds' /\ CancelsLive'
<1>1. TypeInv /\ program' = program /\ test' = test
  BY StepKinds DEF SubscriptionInv
<1>2. \A K : Keeps(K)' = Keeps(K) /\ CancelsAtThreshold(K)' = CancelsAtThreshold(K)
  BY <1>1 DEF Keeps, CancelsAtThreshold
<1>3. \A K \in Kinds : Counted(K)' = Counted(K)
  BY DEF NoCall, OneCall
<1>4. \A K : CallsOf(K) \subseteq CallsOf(K)'
  BY <1>1, CallsOfSame, CallsOfMore DEF NoCall
<1>5. HandlesKept'
  <2> SUFFICES ASSUME NEW K \in Kinds, Keeps(K), CallsOf(K)' # {}
               PROVE  Stored(K)' \in CallsOf(K)'
    BY <1>2 DEF HandlesKept
  <2>1. CASE NoCall
    BY <2>1, CallsOfSame DEF NoCall, SubscriptionInv, HandlesKept
  <2>2. CASE \E c : OneCall(c)
    <3>1. PICK c : OneCall(c)
      BY <2>2
    <3>2. CallsOf(K)' = CallsOf(K) \cup (IF c.method = K THEN {Len(calls) + 1} ELSE {})
      BY <1>1, <3>1, CallsOfMore
    <3>3. Stored(K)' = IF c.method = K THEN Len(calls) + 1 ELSE Stored(K)
      BY <1>1, <3>1, CallsOfMore DEF OneCall
    <3>. QED
      BY <3>2, <3>3 DEF SubscriptionInv, HandlesKept
  <2>. QED
    BY <2>1, <2>2
<1>6. ThresholdEnds'
  <2> SUFFICES ASSUME NEW K \in Kinds, CancelsAtThreshold(K), Cardinality(CallsOf(K)') <= 1
               PROVE  /\ Counted(K) <= MaxNotifications
                      /\ Counted(K) = MaxNotifications => CallsOf(K)' # {} /\ CallsOf(K)' \cap live' = {}
    BY <1>2, <1>3 DEF ThresholdEnds
  <2>1. Cardinality(CallsOf(K)) <= 1
    BY <1>1, <1>4, FewerCalls
  <2>2. /\ Counted(K) <= MaxNotifications
        /\ Counted(K) = MaxNotifications => CallsOf(K) # {} /\ CallsOf(K) \cap live = {}
    BY <2>1 DEF SubscriptionInv, ThresholdEnds
  <2>3. CASE NoCall
    BY <2>2, <2>3, CallsOfSame DEF NoCall
  <2>4. CASE \E c : OneCall(c)
    <3>1. PICK c : OneCall(c)
      BY <2>4
    <3> DEFINE new == Len(calls) + 1
    <3>2. /\ CallsOf(K)' = CallsOf(K) \cup (IF c.method = K THEN {new} ELSE {})
          /\ new \notin CallsOf(K) /\ new \notin live /\ live' = live \cup {new}
      BY <1>1, <3>1, CallsOfMore
    <3> HIDE DEF new
    <3>3. CASE c.method = K
      <4>1. CallsOf(K) = {}
        <5> SUFFICES ASSUME NEW a \in CallsOf(K) PROVE FALSE
          OBVIOUS
        <5>1. a \in CallsOf(K)' /\ new \in CallsOf(K)' /\ a # new
          BY <3>2, <3>3
        <5>. QED
          BY <5>1, OneOnly, CallsOfFiniteNext
      <4>. QED
        BY <2>2, <4>1
    <3>4. CASE c.method # K
      BY <2>2, <3>2, <3>4
    <3>. QED
      BY <3>3, <3>4
  <2>. QED
    BY <2>3, <2>4
<1>7. CancelsLive'
  <2> SUFFICES ASSUME program # "coll", Cardinality(CallsOf("OBSERVE")') <= 1,
                      Cardinality(CallsOf("PRESENCE")') <= 1
               PROVE  ~badCancel'
    BY <1>1 DEF CancelsLive
  <2>1. Cardinality(CallsOf("OBSERVE")) <= 1 /\ Cardinality(CallsOf("PRESENCE")) <= 1
    BY <1>1, <1>4, FewerCalls
  <2>2. badCancel' = badCancel
    BY DEF NoCall, OneCall
  <2>. QED
    BY <2>1, <2>2 DEF SubscriptionInv, CancelsLive
<1>. QED
  BY <1>5, <1>6, <1>7

LEMMA CallbackSubscribed ==
  ASSUME SubscriptionInv, TypeInv', [Next]_vars, NEW h \in live, NEW r, Calledback(h, r)
  PROVE  HandlesKept' /\ ThresholdEnds' /\ CancelsLive'
<1> DEFINE m == calls[h].method
           o == ResponseOutcome(m, r)
           stored == IF m = "PRESENCE" THEN gPresenceHandle ELSE gObserveDoHandle
           target == IF o.of = "own" THEN h ELSE stored
<1>1. TypeInv /\ ConfigOK /\ CountersOK /\ program' = program /\ test' = test
  BY StepKinds DEF SubscriptionInv, TypeInv, TypeOK
<1>2. /\ calls' = calls /\ m \in MethodsOf(program) \ Discoveries /\ OCCancel(target, o.cancel)
      /\ \A K \in Kinds :
           /\ Stored(K)' = Stored(K)
           /\ Counted(K)' = IF o.counts /\ (m = "PRESENCE" <=> K = "PRESENCE")
                            THEN Counted(K) + 1 ELSE Counted(K)
  BY DEF Calledback
<1>3. /\ program # "coll" /\ o.cancel # "none" /\ o.of # "own" => m \in Kinds /\ Keeps(m)
      /\ program # "coll" /\ m \in Single => ~o.counts
      /\ m \in Kinds /\ CancelsAtThreshold(m) /\ o.counts /\ Counted(m) + 1 = MaxNotifications =>
           o.cancel = "low" /\ o.of # "own" /\ Keeps(m)
  BY <1>1, <1>2, CancelSound
<1>4. h \in CallsOf(m) /\ live \subseteq DOMAIN calls
  BY <1>1 DEF TypeInv, TypeOK, CallsOK, CallsOf
<1>5. m \in Single \/ m \in Kinds
  BY <1>1, <1>2, MethodsTyped DEF ConfigOK, Methods, Kinds
<1>6. m \in Kinds => stored = Stored(m)
  BY DEF Stored, Kinds
<1> HIDE DEF m, o, stored
<1>7. /\ \A K : Keeps(K)' = Keeps(K) /\ CancelsAtThreshold(K)' = CancelsAtThreshold(K)
      /\ \A K : CallsOf(K)' = CallsOf(K)
      /\ live' = IF o.cancel = "low" THEN live \ {target} ELSE live
      /\ badCancel' = (badCancel \/ (o.cancel # "none" /\ target \notin live))
  BY <1>1, <1>2, CallsOfSame DEF Keeps, CancelsAtThreshold, OCCancel
<1>8. HandlesKept'
  BY <1>2, <1>7 DEF SubscriptionInv, HandlesKept
\* With a single subscription, what is cancelled is the one that notified.
<1>9. ASSUME m \in Kinds, Keeps(m), Cardinality(CallsOf(m)) <= 1 PROVE target = h
  <2>1. Stored(m) \in CallsOf(m)
    BY <1>4, <1>9 DEF SubscriptionInv, HandlesKept
  <2>2. Stored(m) = h
    BY <1>1, <1>4, <1>9, <2>1, OneOnly, CallsOfFinite
  <2>. QED
    BY <1>6, <1>9, <2>2
<1>10. CancelsLive'
  <2> SUFFICES ASSUME program # "coll", Cardinality(CallsOf("OBSERVE")) <= 1,
                      Cardinality(CallsOf("PRESENCE")) <= 1
               PROVE  ~badCancel'
    BY <1>1, <1>7 DEF CancelsLive
  <2>1. ~badCancel
    BY DEF SubscriptionInv, CancelsLive
  <2>2. o.cancel # "none" => target = h
    <3>1. CASE o.of = "own"
      BY <3>1
    <3>2. CASE o.of # "own" /\ o.cancel # "none"
      <4>1. m \in Kinds /\ Keeps(m)
        BY <1>3, <3>2
      <4>2. Cardinality(CallsOf(m)) <= 1
        BY <4>1 DEF Kinds
      <4>. QED
        BY <1>9, <4>1, <4>2
    <3>. QED
      BY <3>1, <3>2
  <2>. QED
    BY <1>7, <2>1, <2>2
<1>11. ThresholdEnds'
  <2> SUFFICES ASSUME NEW K \in Kinds, CancelsAtThreshold(K), Cardinality(CallsOf(K)) <= 1
               PROVE  /\ Counted(K)' <= MaxNotifications
                      /\ Counted(K)' = MaxNotifications => CallsOf(K) # {} /\ CallsOf(K) \cap live' = {}
    BY <1>7 DEF ThresholdEnds
  <2>1. /\ Counted(K) <= MaxNotifications
        /\ Counted(K) = MaxNotifications => CallsOf(K) # {} /\ CallsOf(K) \cap live = {}
    BY DEF SubscriptionInv, ThresholdEnds
  <2>2. CASE Counted(K)' = Counted(K)
    BY <1>7, <2>1, <2>2
  <2>3. CASE Counted(K)' # Counted(K)
    <3>1. o.counts /\ (m = "PRESENCE" <=> K = "PRESENCE") /\ Counted(K)' = Counted(K) + 1
      BY <1>2, <2>3
    <3>2. m = K
      <4>1. CASE K = "PRESENCE"
        BY <3>1, <4>1
      <4>2. CASE K = "OBSERVE"
        <5>1. program # "coll"
          BY <4>2 DEF CancelsAtThreshold
        <5>. QED
          BY <1>3, <1>5, <3>1, <4>2, <5>1 DEF Kinds
      <4>. QED
        BY <4>1, <4>2 DEF Kinds
    <3>3. Counted(K) # MaxNotifications
      BY <1>4, <2>1, <3>2
    <3>4. Counted(K) \in Nat /\ MaxNotifications \in Nat
      BY <1>1, ClientConstants DEF CountersOK, Counted
    <3>5. Counted(K)' <= MaxNotifications
      BY <2>1, <3>1, <3>3, <3>4
    <3>6. ASSUME Counted(K)' = MaxNotifications
          PROVE  CallsOf(K) # {} /\ CallsOf(K) \cap live' = {}
      <4>1. o.cancel = "low" /\ o.of # "own" /\ Keeps(m)
        BY <1>3, <3>1, <3>2, <3>6
      <4>2. target = h
        BY <1>9, <3>2, <4>1
      <4>3. live' = live \ {h}
        BY <1>7, <4>1, <4>2
      <4>4. \A a \in CallsOf(K) : a = h
        BY <1>1, <1>4, <3>2, OneOnly, CallsOfFinite
      <4>. QED
        BY <1>4, <3>2, <4>3, <4>4
    <3>. QED
      BY <3>5, <3>6
  <2>. QED
    BY <2>2, <2>3
<1>. QED
  BY <1>8, <1>10, <1>11

LEMMA BeyondStep ==
  ASSUME SubscriptionInv, TypeInv', [Next]_vars
  PROVE  BeyondEnds'
<1>1. /\ TypeInv /\ ConfigOK /\ CountersOK /\ program' = program /\ test' = test
      /\ NoCall \/ (\E c : OneCall(c)) \/ (\E h \in live, r \in Responses : Calledback(h, r))
  BY StepKinds DEF SubscriptionInv, TypeInv, TypeOK
<1> SUFFICES ASSUME program = "occlient", test = "OBS"
             PROVE  gNumObserveNotifies' <= MaxNotifications + Cardinality(Ended("OBSERVE")')
  BY <1>1 DEF BeyondEnds
<1>2. /\ gNumObserveNotifies <= MaxNotifications + Cardinality(Ended("OBSERVE"))
      /\ Cardinality(Ended("OBSERVE")) <= Cardinality(Ended("OBSERVE")')
  BY <1>1, EndedGrows DEF SubscriptionInv, BeyondEnds
<1>3. /\ Cardinality(Ended("OBSERVE")) \in Nat /\ Cardinality(Ended("OBSERVE")') \in Nat
      /\ gNumObserveNotifies \in Nat /\ MaxNotifications \in Nat
      /\ IsFiniteSet(Ended("OBSERVE")) /\ IsFiniteSet(Ended("OBSERVE")')
  BY <1>1, CallsOfFinite, CallsOfFiniteNext, ClientConstants DEF CountersOK
<1>4. CASE gNumObserveNotifies' = gNumObserveNotifies
  BY <1>2, <1>3, <1>4
<1>5. CASE \E h \in live, r \in Responses : Calledback(h, r)
  <2>1. PICK h \in live, r \in Responses : Calledback(h, r)
    BY <1>5
  <2> DEFINE m == calls[h].method
             o == ResponseOutcome(m, r)
             stored == IF m = "PRESENCE" THEN gPresenceHandle ELSE gObserveDoHandle
  <2>2. /\ calls' = calls /\ m \in MethodsOf(program) \ Discoveries
        /\ OCCancel(IF o.of = "own" THEN h ELSE stored, o.cancel)
        /\ Counted("OBSERVE")' = IF o.counts /\ m # "PRESENCE"
                                 THEN Counted("OBSERVE") + 1 ELSE Counted("OBSERVE")
    BY <2>1 DEF Calledback, Kinds
  <2>3. m \in Single \/ m \in Kinds
    BY <1>1, <2>2, MethodsTyped DEF ConfigOK, Methods, Kinds
  <2>4. /\ m \in Single => ~o.counts
        /\ m = "OBSERVE" /\ o.counts /\ Counted(m) + 1 > MaxNotifications =>
             o.cancel = "low" /\ o.of = "own"
    BY <1>1, <2>2, CancelSound
  <2>5. h \in CallsOf(m)
    BY <1>1, <2>1 DEF TypeInv, TypeOK, CallsOK, CallsOf
  <2> HIDE DEF m, o, stored
  <2>6. CASE o.counts /\ m # "PRESENCE"
    <3>1. m = "OBSERVE" /\ gNumObserveNotifies' = gNumObserveNotifies + 1
      BY <2>2, <2>3, <2>4, <2>6 DEF Kinds, Counted
    <3>2. CASE gNumObserveNotifies + 1 <= MaxNotifications
      BY <1>3, <3>1, <3>2
    <3>3. CASE gNumObserveNotifies + 1 > MaxNotifications
      <4>1. o.cancel = "low" /\ o.of = "own"
        BY <2>4, <2>6, <3>1, <3>3 DEF Counted
      <4>2. live' = live \ {h} /\ CallsOf("OBSERVE")' = CallsOf("OBSERVE")
        BY <2>2, <4>1, CallsOfSame DEF OCCancel
      <4>3. Ended("OBSERVE")' = Ended("OBSERVE") \cup {h} /\ h \notin Ended("OBSERVE")
        BY <2>1, <2>5, <3>1, <4>2 DEF Ended
      <4>4. Cardinality(Ended("OBSERVE")') = Cardinality(Ended("OBSERVE")) + 1
        BY <1>3, <4>3, FS_AddElement
      <4>. QED
        BY <1>2, <1>3, <3>1, <4>4
    <3>. QED
      BY <1>3, <3>2, <3>3
  <2>7. CASE ~(o.counts /\ m # "PRESENCE")
    BY <1>4, <2>2, <2>7 DEF Counted
  <2>. QED
    BY <2>6, <2>7
<1>6. CASE NoCall \/ \E c : OneCall(c)
  BY <1>4, <1>6 DEF NoCall, OneCall, Kinds, Counted
<1>. QED
  BY <1>1, <1>5, <1>6

LEMMA StepSubscribed == SubscriptionInv /\ [Next]_vars => SubscriptionInv'
<1> SUFFICES ASSUME SubscriptionInv, [Next]_vars PROVE SubscriptionInv'
  OBVIOUS
<1>1. TypeInv /\ TypeInv'
  BY StepTyped DEF SubscriptionInv
<1>2. HandlesKept' /\ ThresholdEnds' /\ CancelsLive'
  BY <1>1, StepKinds, CallSubscribed, CallbackSubscribed
<1>3. BeyondEnds'
  BY <1>1, BeyondStep
<1>. QED
  BY <1>1, <1>2, <1>3 DEF SubscriptionInv

\* A single subscription is never cancelled under a handle that is not its own, or twice,
\* whatever notifications arrive and whichever requests are refused.
THEOREM Cancels == Spec => []CancelsLive
<1>1. SubscriptionInv => CancelsLive
  BY DEF SubscriptionInv
<1>. QED
  BY <1>1, InitSubscribed, StepSubscribed, PTL DEF Spec

\* A client stops counting at the threshold; in occlient the observations that share one
\* counter get at most one notification each beyond it.
THEOREM Bounded == Spec => []NotificationsBounded
<1>1. SubscriptionInv => NotificationsBounded
  <2> SUFFICES ASSUME SubscriptionInv PROVE NotificationsBounded
    OBVIOUS
  <2>1. TypeInv /\ gNumObserveNotifies \in Nat /\ MaxNotifications \in Nat
    BY ClientConstants DEF SubscriptionInv, TypeInv, TypeOK, CountersOK
  <2>2. /\ Cardinality(Ended("OBSERVE")) <= Cardinality(CallsOf("OBSERVE"))
        /\ Cardinality(Ended("OBSERVE")) \in Nat /\ Cardinality(CallsOf("OBSERVE")) \in Nat
    <3>1. Ended("OBSERVE") \in SUBSET CallsOf("OBSERVE")
      BY DEF Ended
    <3>. QED
      BY <2>1, <3>1, CallsOfFinite, FS_Subset
  <2>3. program = "occlient" /\ test = "OBS" =>
          gNumObserveNotifies <= MaxNotifications + Cardinality(CallsOf("OBSERVE"))
    BY <2>1, <2>2 DEF SubscriptionInv, BeyondEnds
  <2>4. /\ program = "remote" \/ (program = "tizen" /\ test = "OBS")
        /\ Cardinality(CallsOf("OBSERVE")) <= 1
        => gNumObserveNotifies <= MaxNotifications
    BY DEF SubscriptionInv, ThresholdEnds, Kinds, CancelsAtThreshold, Counted
  <2>5. Cardinality(CallsOf("PRESENCE")) <= 1 => gNumPresenceNotifies <= MaxNotifications
    BY DEF SubscriptionInv, ThresholdEnds, Kinds, CancelsAtThreshold, Counted
  <2>. QED
    BY <2>3, <2>4, <2>5 DEF NotificationsBounded
<1>. QED
  BY <1>1, InitSubscribed, StepSubscribed, PTL DEF Spec

-----------------------------------------------------------------------------
(* The end of a request, and of a client.                                  *)

\* Main is in a callback while one is current; outside the collection client the callback of
\* a request with one response gives the transaction up; the GLib loop is told to quit by the
\* thread's last step.
CurrentInv ==
  /\ current # 0 => /\ main \in {"host", "port", "run", "crashed"}
                    /\ current \in DOMAIN calls
  /\ current # 0 /\ program # "coll" /\ calls[current].method \in Single => ~verdict.keep
  /\ glib = "quit" => main = "gone"

LEMMA InitCurrent == Init => CurrentInv
  BY DEF Init, CurrentInv

Advances == \/ MainRank' < MainRank
            \/ MainRank' = MainRank /\ WorkRank' < WorkRank

LEMMA WorkTyped ==
  ASSUME TypeInv
  PROVE  Len(uris) \in Nat /\ Len(todo) \in Nat /\ sleeping \in Nat
<1>1. uris \in Seq([uri : Uris, secure : BOOLEAN]) /\ todo \in Seq(Requests) /\ sleeping \in Nat
  BY DEF TypeInv, TypeOK, CallbackOK, CountersOK
<1>. QED
  BY <1>1

LEMMA RanksAreNatural == TypeInv => MainRank \in Nat /\ WorkRank \in Nat
  BY WorkTyped DEF MainRank, WorkRank


\* For a resource that is collected five requests are made at most.
LEMMA CollectBounded ==
  ASSUME TypeInv, collectUniqueResource
  PROVE  Len(todo') \in 0 .. 5
<1> DEFINE sid == DeviceOf[answerer]
           endpoint == [addr |-> answerer, port |-> <<answerer, FALSE>>]
           entry == [sid |-> sid, uri |-> Head(uris).uri, endpoint |-> endpoint]
           Entries == [sid : Endpoints, uri : Uris, endpoint : Addresses]
<1>1. uris # <<>> /\ todo = <<>> /\ answerer \in Endpoints
  BY DEF TypeInv, collectUniqueResource
<1>2. uris \in Seq(Listings) /\ resourceList \in Seq(Entries)
  BY DEF TypeInv, TypeOK, CallbackOK, AddressOK, Listings
<1>3. Head(uris) \in Listings
  BY <1>1, <1>2
<1>4. entry \in Entries /\ entry.uri \in Uris
  <2>1. endpoint \in Addresses
    BY <1>1 DEF Addresses, Ports
  <2>2. sid \in Endpoints
    BY <1>1, ClientsConstants
  <2> HIDE DEF endpoint, sid
  <2>. QED
    BY <1>3, <2>1, <2>2 DEF Listings
<1>5. \/ todo' = <<>>
      \/ resourceList' = <<entry>> \o resourceList /\ todo' = Basic!queryResource(test, resourceList')
  BY <1>1 DEF collectUniqueResource, Basic!insertResource
<1> HIDE DEF entry, Entries
<1>6. <<entry>> \o resourceList # <<>> /\ Head(<<entry>> \o resourceList) = entry
  BY <1>2, <1>4
<1>7. CASE todo' = <<>>
  BY <1>7
<1>8. CASE /\ resourceList' = <<entry>> \o resourceList
           /\ todo' = Basic!queryResource(test, resourceList')
  <2>1. resourceList' # <<>> /\ Head(resourceList').uri \in Uris
    BY <1>4, <1>6, <1>8
  <2>2. todo' \in Seq(RequestsOf("basicops")) /\ Len(todo') \in 0 .. 5
    BY <1>8, <2>1, QuerySound
  <2>. QED
    BY <2>2
<1>. QED
  BY <1>5, <1>7, <1>8

\* What is called back is alive, and gives up what is answered once.
LEMMA BeginCurrent ==
  ASSUME TypeInv, CurrentInv, NEW h \in live, NEW e, NEW outcome, Begin(h, e, outcome),
         main = "process", calls' = calls, UNCHANGED <<program, glib, gQuitFlag>>,
         program # "coll" /\ calls[h].method \in Single => ~outcome.keep
  PROVE  CurrentInv' /\ current = 0 /\ current' = h /\ Advances
<1>1. /\ current' = h /\ verdict' = outcome /\ main' \in {"crashed", "host", "run"}
      /\ current = 0
  BY DEF Begin, CurrentInv
<1>2. h \in DOMAIN calls
  BY DEF TypeInv, TypeOK, CallsOK
<1>3. MainRank' < MainRank
  BY <1>1 DEF MainRank
<1>. QED
  BY <1>1, <1>2, <1>3 DEF CurrentInv, Advances

\* A resource that is collected weighs more than all requests for it.
LEMMA OneResourceLess ==
  \A u, t, s, g \in Nat : \A x \in 0 .. 5 :
    11 * (u - 1) + 2 * x + s + g < 11 * u + 2 * t + s + g
  OBVIOUS

\* What a step does to the callback that runs: nothing; or it is called; or it returns.
Goes == current' = current
Called == current = 0 /\ current' \in live
Returned == /\ current' = 0
            /\ live' = IF verdict.keep THEN live ELSE live \ {current}

LEMMA StepCurrent ==
  ASSUME TypeInv, CurrentInv, [Next]_vars
  PROVE  /\ CurrentInv'
         /\ Goes \/ Called \/ Returned
         /\ (gQuitFlag => Advances) \/ UNCHANGED vars
<1>t. Len(uris) \in Nat /\ Len(todo) \in Nat /\ sleeping \in Nat
  BY WorkTyped
<1>1. CASE LoopTest \/ ProcessNothing \/ ProcessFails \/ Exit \/ GMainLoop \/ handleSigInt
  <2>1. UNCHANGED <<program, current, verdict, calls, uris, todo, sleeping>>
    BY <1>1 DEF LoopTest, ProcessNothing, ProcessFails, Exit, GMainLoop, handleSigInt, loopFrame,
           commandLine, callback, stackVars
  <2>2. \/ main = "test" /\ ~gQuitFlag /\ main' = "process" /\ glib' = glib
        \/ main = "test" /\ main' = "stopping" /\ glib' = glib
        \/ main = "test" /\ main' = "gone"
        \/ main = "process" /\ main' \in {"test", "gone", "aborted"} /\ glib' = glib
        \/ main = "stopping" /\ main' = "stopped" /\ glib' = glib
        \/ main' = main /\ glib = "starting" /\ glib' = "running"
        \/ main = "gone" /\ main' = "stopped" /\ glib = "quit" /\ glib' = "returned"
        \/ main' = main /\ glib' = glib /\ ~gQuitFlag
    BY <1>1 DEF LoopTest, ProcessNothing, ProcessFails, Exit, GMainLoop, handleSigInt, CurrentInv
  <2>3. CurrentInv'
    BY <2>1, <2>2 DEF CurrentInv
  <2>4. gQuitFlag => Advances
    BY <1>t, <2>1, <2>2 DEF Advances, MainRank, WorkRank
  <2>. QED
    BY <2>1, <2>3, <2>4 DEF Goes
<1>2. CASE \E h \in live, e \in Endpoints, answer \in Answers : ProcessAnswer(h, e, answer)
  <2>1. PICK h \in live, e \in Endpoints, answer \in Answers : ProcessAnswer(h, e, answer)
    BY <1>2
  <2>2. /\ main = "process" /\ calls' = calls /\ UNCHANGED <<program, glib, gQuitFlag>>
        /\ Begin(h, e, AnswerOutcome(calls[h].method, answer))
        /\ calls[h].method \notin Single
    BY <2>1 DEF ProcessAnswer, callbackFrame, commandLine, stackVars, Discoveries, Single
  <2>3. CurrentInv' /\ current = 0 /\ current' = h /\ Advances
    BY <2>2, BeginCurrent
  <2>. QED
    BY <2>3 DEF Called
<1>3. CASE \E h \in live, r \in Responses : ProcessResponse(h, r)
  <2>1. PICK h \in live, r \in Responses : ProcessResponse(h, r)
    BY <1>3
  <2> DEFINE o == ResponseOutcome(calls[h].method, r)
  <2>2. /\ main = "process" /\ calls' = calls /\ UNCHANGED <<program, glib, gQuitFlag>>
        /\ Begin(h, calls[h].addr, o)
    BY <2>1 DEF ProcessResponse, ResponseOutcome, callbackFrame, commandLine
  <2>3. program # "coll" /\ calls[h].method \in Single => ~o.keep
    <3>1. program \in Programs
      BY DEF TypeInv, TypeOK, ConfigOK
    <3>2. program # "coll" /\ calls[h].method \in Single => o = Delete
      BY <3>1 DEF ResponseOutcome, SingleOutcome, Programs
    <3>3. ~Delete.keep
      BY DEF Delete, Keep
    <3>. QED
      BY <3>2, <3>3
  <2> HIDE DEF o
  <2>4. CurrentInv' /\ current = 0 /\ current' = h /\ Advances
    BY <2>2, <2>3, BeginCurrent
  <2>. QED
    BY <2>4 DEF Called
<1>4. CASE SaveHost \/ SavePort
  <2>1. /\ UNCHANGED <<program, glib, current, verdict, calls>>
        /\ \/ main = "host" /\ main' = "port"
           \/ main = "port" /\ main' = "run"
    BY <1>4 DEF SaveHost, SavePort, bodyFrame, callbackFrame, commandLine, stackVars
  <2>2. CurrentInv' /\ Advances
    BY <2>1 DEF CurrentInv, Advances, MainRank
  <2>. QED
    BY <2>1, <2>2 DEF Goes
<1>5. CASE InvokeOCDoResource
  <2>1. /\ UNCHANGED <<program, glib, main, current, verdict, uris>>
        /\ main = "run" /\ todo # <<>> /\ todo' = Tail(todo)
    BY <1>5 DEF InvokeOCDoResource, requestFrame, callbackFrame, commandLine
  <2>2. \A i \in DOMAIN calls : i \in DOMAIN calls' /\ calls'[i] = calls[i]
    <3>1. calls' = calls \/ calls' = Append(calls, Call(Head(todo), Destination, "main"))
      BY <1>5 DEF InvokeOCDoResource, Accept, Refuse, stackVars
    <3>2. calls \in Seq(CallType)
      BY DEF TypeInv, TypeOK, CallsOK
    <3>. QED
      BY <3>1, <3>2
  <2>3. sleeping' \in {sleeping, sleeping + 1}
    BY <1>5 DEF InvokeOCDoResource
  <2>4. Len(todo') = Len(todo) - 1
    <3>1. todo \in Seq(Requests)
      BY DEF TypeInv, TypeOK, CallbackOK
    <3>. QED
      BY <2>1, <3>1
  <2>5. CurrentInv'
    BY <2>1, <2>2 DEF CurrentInv
  <2>6. Advances
    BY <1>t, <2>1, <2>3, <2>4 DEF Advances, MainRank, WorkRank
  <2>. QED
    BY <2>1, <2>5, <2>6 DEF Goes
<1>6. CASE collectUniqueResource
  <2>1. /\ UNCHANGED <<program, glib, main, current, verdict, calls, sleeping>>
        /\ main = "run" /\ uris # <<>> /\ uris' = Tail(uris) /\ todo = <<>>
    BY <1>6 DEF collectUniqueResource, bodyFrame, callbackFrame, commandLine, stackVars
  <2>2. Len(uris') = Len(uris) - 1
    <3>1. uris \in Seq([uri : Uris, secure : BOOLEAN])
      BY DEF TypeInv, TypeOK, CallbackOK
    <3>. QED
      BY <2>1, <3>1
  <2>3. Len(todo') \in 0 .. 5
    BY <1>6, CollectBounded
  <2>4. CurrentInv'
    BY <2>1 DEF CurrentInv
  <2>5. MainRank' = MainRank
    BY <2>1 DEF MainRank
  <2>6. WorkRank' < WorkRank
    <3> DEFINE starting == IF glib = "starting" THEN 1 ELSE 0
    <3>1. sleeping' = sleeping /\ starting' = starting /\ starting \in Nat
      BY <2>1
    <3>2. /\ WorkRank = 11 * Len(uris) + 2 * Len(todo) + sleeping + starting
          /\ WorkRank' = 11 * Len(uris') + 2 * Len(todo') + sleeping' + starting'
      BY DEF WorkRank
    <3> HIDE DEF starting
    <3>3. 11 * (Len(uris) - 1) + 2 * Len(todo') + sleeping + starting
            < 11 * Len(uris) + 2 * Len(todo) + sleeping + starting
      BY <1>t, <2>3, <3>1, OneResourceLess
    <3>. QED
      BY <2>2, <3>1, <3>2, <3>3, Zenon
  <2>7. Advances
    BY <2>5, <2>6 DEF Advances
  <2>. QED
    BY <2>1, <2>4, <2>7 DEF Goes
<1>7. CASE Return
  <2>1. /\ UNCHANGED <<program, glib, calls>> /\ main = "run" /\ main' = "test" /\ current' = 0
        /\ live' = IF verdict.keep THEN live ELSE live \ {current}
    BY <1>7 DEF Return, callbackFrame, commandLine
  <2>2. CurrentInv' /\ Advances
    BY <2>1 DEF CurrentInv, Advances, MainRank
  <2>. QED
    BY <2>1, <2>2 DEF Returned
<1>8. CASE RequestDeleteDeathResourceTask
  <2>1. /\ UNCHANGED <<program, glib, main, current, verdict, uris, todo>>
        /\ sleeping > 0 /\ sleeping' = sleeping - 1
    BY <1>8 DEF RequestDeleteDeathResourceTask, callbackFrame, commandLine, callback
  <2>2. \A i \in DOMAIN calls : i \in DOMAIN calls' /\ calls'[i] = calls[i]
    <3>1. \/ calls' = calls
          \/ calls' = Append(calls, Call(Occlient!RequestDeleteDeathResourceTask, serverAddr,
                                         "thread"))
      BY <1>8 DEF RequestDeleteDeathResourceTask, stackVars
    <3>2. calls \in Seq(CallType)
      BY DEF TypeInv, TypeOK, CallsOK
    <3>. QED
      BY <3>1, <3>2
  <2>3. CurrentInv'
    BY <2>1, <2>2 DEF CurrentInv
  <2>4. Advances
    BY <1>t, <2>1 DEF Advances, MainRank, WorkRank
  <2>. QED
    BY <2>1, <2>3, <2>4 DEF Goes
<1>9. CASE UNCHANGED vars
  BY <1>9 DEF vars, commandLine, callback, stackVars, CurrentInv, Goes
<1>. QED
  BY <1>1, <1>2, <1>3, <1>4, <1>5, <1>6, <1>7, <1>8, <1>9 DEF Next, Main, Terminated

\* A transaction that is over stays over.
LEMMA OverStaysOver ==
  ASSUME TypeInv, [Next]_vars
  PROVE  \A h \in DOMAIN calls \ live : h \notin live'
<1> SUFFICES ASSUME NEW h \in DOMAIN calls \ live PROVE h \notin live'
  OBVIOUS
<1>1. CASE NoCall
  BY <1>1 DEF NoCall
<1>2. CASE \E c : OneCall(c)
  <2>1. PICK c : calls' = Append(calls, c) /\ live' = live \cup {Len(calls')}
    BY <1>2 DEF OneCall
  <2>2. calls \in Seq(CallType)
    BY DEF TypeInv, TypeOK, CallsOK
  <2>3. Len(calls') = Len(calls) + 1 /\ h \in 1 .. Len(calls)
    BY <2>1, <2>2
  <2>. QED
    BY <2>1, <2>2, <2>3
<1>3. CASE \E k \in live, r \in Responses : Calledback(k, r)
  <2>1. live' \subseteq live
    BY <1>3 DEF Calledback, OCCancel
  <2>. QED
    BY <2>1
<1>. QED
  BY <1>1, <1>2, <1>3, StepKinds

\* No callback is called for a transaction that is over, whatever was cancelled meanwhile, and
\* a request with one response is over when its callback returns.
THEOREM AnsweredOnceAlways == Spec => AnsweredOnce
<1>1. TypeInv /\ CurrentInv /\ [Next]_vars => CurrentInv'
  BY StepCurrent
<1>2. TypeInv /\ CurrentInv /\ [Next]_vars =>
        [/\ \A h \in DOMAIN calls \ live : h \notin live' /\ (current' = h => current = h)
         /\ /\ program # "coll" /\ current # 0 /\ current' # current
            /\ calls[current].method \in Single
            => current \notin live']_vars
  <2> SUFFICES ASSUME TypeInv, CurrentInv, [Next]_vars
               PROVE  /\ \A h \in DOMAIN calls \ live :
                           h \notin live' /\ (current' = h => current = h)
                      /\ /\ program # "coll" /\ current # 0 /\ current' # current
                         /\ calls[current].method \in Single
                         => current \notin live'
    OBVIOUS
  <2>1. Goes \/ Called \/ Returned
    BY StepCurrent
  <2>2. 0 \notin DOMAIN calls
    BY DEF TypeInv, TypeOK, CallsOK
  <2>. QED
    BY <2>1, <2>2, OverStaysOver DEF Goes, Called, Returned, CurrentInv
<1>. QED
  BY <1>1, <1>2, InitTyped, StepTyped, InitCurrent, PTL DEF Spec, AnsweredOnce

\* Every client ends after SIGINT whatever answers come: the pair of its place and of the work
\* that is left there gets smaller with each step, and cannot do so for ever.
THEOREM ShutdownBounded ==
  Spec => ShutdownAdvances /\ [](MainRank \in Nat /\ WorkRank \in Nat)
<1>1. TypeInv /\ CurrentInv /\ [Next]_vars => CurrentInv'
  BY StepCurrent
<1>2. TypeInv /\ CurrentInv /\ [Next]_vars =>
        [gQuitFlag => \/ MainRank' < MainRank
                      \/ MainRank' = MainRank /\ WorkRank' < WorkRank]_vars
  BY StepCurrent DEF Advances
<1> DEFINE Ranked == MainRank \in Nat /\ WorkRank \in Nat
<1>3. TypeInv => Ranked
  BY RanksAreNatural
<1> HIDE DEF Ranked
<1>4. Spec => []Ranked
  BY <1>3, InitTyped, StepTyped, PTL DEF Spec
<1>5. Spec => [](MainRank \in Nat /\ WorkRank \in Nat)
  BY <1>4 DEF Ranked
<1>6. Spec => ShutdownAdvances
  BY <1>1, <1>2, InitTyped, StepTyped, InitCurrent, PTL DEF Spec, ShutdownAdvances
<1>. QED
  BY <1>5, <1>6
=============================================================================
