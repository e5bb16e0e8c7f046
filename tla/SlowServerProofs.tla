-------------------------- MODULE SlowServerProofs --------------------------
(***************************************************************************)
(* For any set of requests: type correctness of SlowServer, the backlog it *)
(* keeps, and that it implements InOrderResponder.                         *)
(***************************************************************************)
EXTENDS SlowServer, SequenceTheorems, TLAPS

\* Main's actions one by one, as the cases of the invariance proofs below.
LEMMA StepCases ==
  ASSUME NEW P,
         LoopTest => P, ProcessNothing => P, ProcessFails => P,
         \A r \in Requests : CopyRequest(r) => P,
         PushRequest => P, ArmAlarm => P, FreeRequest => P, ClearList => P, Stop => P,
         handleSigInt => P, AlarmHandler => P, UNCHANGED vars => P
  PROVE  [Next]_vars => P
<1>1. Main => P
  BY DEF Main, OCEntityHandlerCb
<1>. QED
  BY <1>1 DEF Next, Terminated

\* What a request does to the LED and to the answers keeps their types.
LEMMA ProcessTypes ==
  ASSUME TypeOK, NEW r \in Requests, ProcessGetPutRequest(r)
  PROVE  /\ led' \in Requests \cup {NoPut}
         /\ answers' \in Seq([req : Requests, value : Requests \cup {NoPut}])
<1>1. led' \in Requests \cup {NoPut}
  BY DEF TypeOK, ProcessGetPutRequest
<1>2. [req |-> r, value |-> led'] \in [req : Requests, value : Requests \cup {NoPut}]
  BY <1>1
<1>. HIDE DEF TypeOK
<1>3. answers \in Seq([req : Requests, value : Requests \cup {NoPut}])
  BY DEF TypeOK
<1>4. Append(answers, [req |-> r, value |-> led'])
        \in Seq([req : Requests, value : Requests \cup {NoPut}])
  BY <1>2, <1>3, AppendProperties
<1>5. answers' \in Seq([req : Requests, value : Requests \cup {NoPut}])
  BY <1>3, <1>4 DEF ProcessGetPutRequest
<1>. QED
  BY <1>1, <1>5

\* Every variable keeps its type, wherever the alarm interrupts the main thread.
THEOREM TypeCorrect == Spec => []TypeOK
<1>1. Init => TypeOK
  <2> SUFFICES ASSUME Init PROVE TypeOK
    OBVIOUS
  <2>1. \A S : <<>> \in Seq(S)
    OBVIOUS
  <2>2. answers \in Seq([req : Requests, value : Requests \cup {NoPut}])
    BY <2>1, Zenon DEF Init
  <2>3. gRequestList \in Seq(Requests) /\ accepted \in Seq(Requests)
    BY <2>1, Zenon DEF Init
  <2>. QED
    BY <2>2, <2>3 DEF Init, TypeOK
<1>2. TypeOK /\ [Next]_vars => TypeOK'
  <2> SUFFICES ASSUME TypeOK PROVE [Next]_vars => TypeOK'
    OBVIOUS
  <2>1. LoopTest => TypeOK'
    BY DEF TypeOK, LoopTest, Goto, history
  <2>2. ProcessNothing => TypeOK'
    BY DEF TypeOK, ProcessNothing, Goto, history
  <2>3. ProcessFails => TypeOK'
    BY DEF TypeOK, ProcessFails, Goto, history
  <2>4. \A r \in Requests : CopyRequest(r) => TypeOK'
    BY DEF TypeOK, CopyRequest, Goto, history
  <2>5. PushRequest => TypeOK'
    BY DEF TypeOK, PushRequest, Goto
  <2>6. ArmAlarm => TypeOK'
    BY DEF TypeOK, ArmAlarm, Goto, history
  <2>7. FreeRequest => TypeOK'
    BY DEF TypeOK, FreeRequest, Goto, history
  <2>8. ClearList => TypeOK'
    BY DEF TypeOK, ClearList, Goto, history
  <2>9. Stop => TypeOK'
    BY DEF TypeOK, Stop, Goto, history
  <2>10. handleSigInt => TypeOK'
    BY DEF TypeOK, handleSigInt, history
  <2>11. AlarmHandler => TypeOK'
    <3> SUFFICES ASSUME AlarmHandler PROVE TypeOK'
      OBVIOUS
    <3>1. CASE gRequestList = <<>>
      BY <3>1 DEF TypeOK, AlarmHandler
    <3>2. CASE gRequestList # <<>>
      <4>1. Head(gRequestList) \in Requests /\ gRequestList' \in Seq(Requests)
        <5>1. gRequestList \in Seq(Requests) /\ gRequestList' = Tail(gRequestList)
          BY <3>2 DEF TypeOK, AlarmHandler
        <5>. QED
          BY <3>2, <5>1
      <4>2. /\ led' \in Requests \cup {NoPut}
            /\ answers' \in Seq([req : Requests, value : Requests \cup {NoPut}])
        BY <3>2, <4>1, ProcessTypes DEF AlarmHandler
      <4>3. alarm' \in BOOLEAN
        BY <3>2, Zenon DEF AlarmHandler
      <4>4. served' \in Nat /\ iter' \in Nat
        <5>1. served \in Nat /\ iter \in Nat
          BY DEF TypeOK
        <5>2. served' = served + 1 /\ iter' = IF iter > 1 THEN iter - 1 ELSE iter
          BY <3>2, Zenon DEF AlarmHandler
        <5>. QED
          BY <5>1, <5>2
      <4>. QED
        BY <3>2, <4>1, <4>2, <4>3, <4>4 DEF TypeOK, AlarmHandler
    <3>. QED
      BY <3>1, <3>2
  <2>12. UNCHANGED vars => TypeOK'
    BY DEF TypeOK, vars, history
  <2>. QED
    BY <2>1, <2>2, <2>3, <2>4, <2>5, <2>6, <2>7, <2>8, <2>9, <2>10, <2>11, <2>12, StepCases
<1>. QED
  BY <1>1, <1>2, PTL DEF Spec

\* Serving the oldest request shifts the backlog by one.
LEMMA ServedBacklog ==
  ASSUME TypeOK, ListIsBacklog, main \notin {"stop", "stopped"},
         gRequestList # <<>>, gRequestList' = Tail(gRequestList),
         served' = served + 1, accepted' = accepted
  PROVE  /\ served' + Len(gRequestList') = Len(accepted')
         /\ \A k \in DOMAIN gRequestList' : gRequestList'[k] = accepted'[served' + k]
<1>1. /\ gRequestList \in Seq(Requests) /\ served \in Nat
      /\ served + Len(gRequestList) = Len(accepted)
      /\ \A k \in 1 .. Len(gRequestList) : gRequestList[k] = accepted[served + k]
  <2>1. gRequestList \in Seq(Requests) /\ served \in Nat
    BY DEF TypeOK
  <2>2. DOMAIN gRequestList = 1 .. Len(gRequestList)
    BY <2>1
  <2>. QED
    BY <2>1, <2>2 DEF ListIsBacklog
<1>2. Len(gRequestList') = Len(gRequestList) - 1 /\ Len(gRequestList) \in Nat \ {0}
  BY <1>1
<1>3. \A k \in 1 .. Len(gRequestList') : gRequestList'[k] = accepted[served' + k]
  <2> TAKE k \in 1 .. Len(gRequestList')
  <2>1. gRequestList'[k] = gRequestList[k + 1] /\ k + 1 \in 1 .. Len(gRequestList)
    BY <1>1, <1>2
  <2>2. served + (k + 1) = served' + k
    BY <1>1
  <2>. QED
    BY <1>1, <2>1, <2>2
<1>4. DOMAIN gRequestList' = 1 .. Len(gRequestList')
  BY <1>1
<1>5. served' + Len(gRequestList') = Len(accepted')
  BY <1>1, <1>2
<1>. QED
  BY <1>3, <1>4, <1>5

\* The list is the backlog in the order of arrival, until the clean-up drops it.
THEOREM ListCorrect == Spec => []ListInv
<1>1. Init => ListInv
  BY DEF Init, ListInv, ListIsBacklog
<1>2. TypeOK /\ ListInv /\ [Next]_vars => ListInv'
  <2> SUFFICES ASSUME TypeOK, ListInv PROVE [Next]_vars => ListInv'
    OBVIOUS
  <2> USE DEF ListInv, ListIsBacklog
  <2>1. LoopTest => ListInv'
    BY DEF LoopTest, Goto, history
  <2>2. ProcessNothing => ListInv'
    BY DEF ProcessNothing, Goto, history
  <2>3. ProcessFails => ListInv'
    BY DEF ProcessFails, Goto, history
  <2>4. \A r \in Requests : CopyRequest(r) => ListInv'
    BY DEF CopyRequest, Accepted, Goto, history
  <2>5. PushRequest => ListInv'
    <3> SUFFICES ASSUME PushRequest PROVE ListInv'
      OBVIOUS
    <3>1. /\ main = "push" /\ main' = "arm" /\ served' = served /\ request \in Requests
          /\ gRequestList' = Append(gRequestList, request)
          /\ accepted' = Append(accepted, request)
      BY DEF PushRequest, Goto, TypeOK
    <3>2. gRequestList \in Seq(Requests) /\ accepted \in Seq(Requests) /\ served \in Nat
      BY DEF TypeOK
    <3>3. served' + Len(gRequestList') = Len(accepted')
      BY <3>1, <3>2
    <3>4. \A k \in DOMAIN gRequestList' : gRequestList'[k] = accepted'[served' + k]
      BY <3>1, <3>2
    <3>. QED
      BY <3>1, <3>3, <3>4
  <2>6. ArmAlarm => ListInv'
    BY DEF ArmAlarm, Goto, history
  <2>7. FreeRequest => ListInv'
    BY DEF FreeRequest, Goto, history
  <2>8. ClearList => ListInv'
    BY DEF ClearList, Goto, history
  <2>9. Stop => ListInv'
    BY DEF Stop, Goto, history
  <2>10. handleSigInt => ListInv'
    BY DEF handleSigInt, history
  <2>11. AlarmHandler => ListInv'
    <3> SUFFICES ASSUME AlarmHandler PROVE ListInv'
      OBVIOUS
    <3>1. CASE gRequestList = <<>>
      BY <3>1 DEF AlarmHandler
    <3>2. CASE gRequestList # <<>>
      <4>1. /\ main \notin {"stop", "stopped"} /\ (main' = main \/ main' = "crashed")
            /\ gRequestList' = Tail(gRequestList) /\ served' = served + 1
            /\ accepted' = accepted /\ request' = request
        BY <3>2 DEF AlarmHandler
      <4>2. /\ served' + Len(gRequestList') = Len(accepted')
            /\ \A k \in DOMAIN gRequestList' : gRequestList'[k] = accepted'[served' + k]
        BY <3>2, <4>1, ServedBacklog
      <4>. QED
        BY <4>1, <4>2
    <3>. QED
      BY <3>1, <3>2
  <2>12. UNCHANGED vars => ListInv'
    BY DEF vars, history
  <2>. QED
    BY <2>1, <2>2, <2>3, <2>4, <2>5, <2>6, <2>7, <2>8, <2>9, <2>10, <2>11, <2>12, StepCases
<1>. QED
  BY <1>1, <1>2, TypeCorrect, PTL DEF Spec

\* No request is lost, doubled or reordered between its arrival and its turn.
THEOREM ListIsBacklogAlways == Spec => []ListIsBacklog
<1>1. ListInv => ListIsBacklog
  BY DEF ListInv
<1>. QED
  BY <1>1, ListCorrect, PTL

\* After the queue is dropped an alarm finds nothing to answer.
THEOREM NothingAfterClearAlways == Spec => NothingAfterClear
<1>1. ListInv /\ [Next]_vars => [(main \in {"stop", "stopped"}) => UNCHANGED <<led, answers>>]_vars
  <2> SUFFICES ASSUME ListInv, main \in {"stop", "stopped"}
               PROVE  [Next]_vars => UNCHANGED <<led, answers>>
    OBVIOUS
  <2>1. gRequestList = <<>>
    BY DEF ListInv
  <2>2. AlarmHandler => UNCHANGED <<led, answers>>
    BY <2>1 DEF AlarmHandler
  <2>3. LoopTest \/ ProcessNothing \/ ProcessFails \/ FreeRequest \/ ClearList \/ Stop
          => UNCHANGED <<led, answers>>
    BY DEF LoopTest, ProcessNothing, ProcessFails, FreeRequest, ClearList, Stop, history
  <2>4. \A r \in Requests : CopyRequest(r) => UNCHANGED <<led, answers>>
    BY DEF CopyRequest, history
  <2>5. PushRequest \/ ArmAlarm \/ handleSigInt => UNCHANGED <<led, answers>>
    BY DEF PushRequest, ArmAlarm, handleSigInt, history
  <2>6. UNCHANGED vars => UNCHANGED <<led, answers>>
    BY DEF vars, history
  <2>. QED
    BY <2>2, <2>3, <2>4, <2>5, <2>6, StepCases
<1>. QED
  BY <1>1, ListCorrect, PTL DEF Spec, NothingAfterClear

\* A step of the server is a step of the responder or changes nothing it can see.
LEMMA StepRefines ==
  ASSUME TypeOK, ListInv
  PROVE  [Next]_vars => [Responder!Next]_(Responder!vars)
<1>1. PushRequest => Responder!Next
  <2> SUFFICES ASSUME PushRequest PROVE Responder!Next
    OBVIOUS
  <2>1. request \in Requests /\ Responder!Accept(request)
    BY DEF PushRequest, Goto, TypeOK, ListInv, Responder!Accept
  <2>. QED
    BY <2>1 DEF Responder!Next
<1>2. AlarmHandler => [Responder!Next]_(Responder!vars)
  <2> SUFFICES ASSUME AlarmHandler PROVE [Responder!Next]_(Responder!vars)
    OBVIOUS
  <2>1. CASE gRequestList = <<>>
    BY <2>1 DEF AlarmHandler, Responder!vars
  <2>2. CASE gRequestList # <<>>
    <3>1. main \notin {"stop", "stopped"}
      BY <2>2 DEF ListInv
    <3>2. /\ gRequestList \in Seq(Requests) /\ served \in Nat
          /\ served + Len(gRequestList) = Len(accepted)
          /\ \A k \in 1 .. Len(gRequestList) : gRequestList[k] = accepted[served + k]
      BY <3>1 DEF ListInv, ListIsBacklog, TypeOK
    <3>3. Len(gRequestList) \in Nat \ {0} /\ Head(gRequestList) = gRequestList[1]
      BY <2>2, <3>2
    <3>4. served < Len(accepted) /\ accepted[served + 1] = Head(gRequestList)
      BY <3>2, <3>3
    <3>5. /\ served' = served + 1 /\ accepted' = accepted
          /\ ProcessGetPutRequest(Head(gRequestList))
      BY <2>2 DEF AlarmHandler
    <3>6. Responder!Serve
      BY <3>4, <3>5 DEF Responder!Serve, ProcessGetPutRequest
    <3>. QED
      BY <3>6 DEF Responder!Next
  <2>. QED
    BY <2>1, <2>2
<1>3. LoopTest \/ ProcessNothing \/ ProcessFails \/ ArmAlarm \/ FreeRequest \/ ClearList \/ Stop
        => UNCHANGED Responder!vars
  BY DEF LoopTest, ProcessNothing, ProcessFails, ArmAlarm, FreeRequest, ClearList, Stop,
         history, Responder!vars
<1>4. \A r \in Requests : CopyRequest(r) => UNCHANGED Responder!vars
  BY DEF CopyRequest, history, Responder!vars
<1>5. handleSigInt \/ UNCHANGED vars => UNCHANGED Responder!vars
  BY DEF handleSigInt, vars, history, Responder!vars
<1>. QED
  BY <1>1, <1>2, <1>3, <1>4, <1>5, StepCases

\* The slow server implements the responder: requests are served at most once, in the
\* order of arrival, each with the value the LED has at that moment.
THEOREM Refinement == Spec => ImplementsResponder
<1>1. Init => Responder!Init
  BY DEF Init, Responder!Init
<1>2. TypeOK /\ ListInv /\ [Next]_vars => [Responder!Next]_(Responder!vars)
  BY StepRefines
<1>. QED
  BY <1>1, <1>2, TypeCorrect, ListCorrect, PTL DEF Spec, ImplementsResponder, Responder!Spec

-----------------------------------------------------------------------------
(* The shutdown ends: a rank that every step after SIGINT lowers.          *)

\* An alarm that finds a request takes it, and moves the iterator back with the list.
LEMMA AlarmTakesFront ==
  ASSUME TypeOK, AlarmHandler, gRequestList # <<>>
  PROVE  /\ Len(gRequestList') = Len(gRequestList) - 1 /\ Len(gRequestList) \in Nat \ {0}
         /\ alarm /\ (main' = main \/ (main = "free" /\ main' = "crashed"))
         /\ iter' = IF iter > 1 THEN iter - 1 ELSE iter
<1>1. gRequestList \in Seq(Requests) /\ gRequestList' = Tail(gRequestList)
  BY DEF TypeOK, AlarmHandler
<1>2. Len(gRequestList') = Len(gRequestList) - 1 /\ Len(gRequestList) \in Nat \ {0}
  BY <1>1
<1>3. main' = main \/ (main = "free" /\ main' = "crashed")
  BY DEF AlarmHandler
<1>4. iter' = IF iter > 1 THEN iter - 1 ELSE iter
  BY DEF AlarmHandler, TypeOK
<1>5. alarm
  BY DEF AlarmHandler
<1>. QED
  BY <1>2, <1>3, <1>4, <1>5

\* The iterator stays within the list, or one past its end.
THEOREM IterCorrect == Spec => []IterInv
<1>1. Init => IterInv
  BY DEF Init, IterInv
<1>2. TypeOK /\ IterInv /\ [Next]_vars => IterInv'
  <2> SUFFICES ASSUME TypeOK, IterInv PROVE [Next]_vars => IterInv'
    OBVIOUS
  <2> USE DEF IterInv
  <2>1. LoopTest => IterInv'
    <3> SUFFICES ASSUME LoopTest PROVE IterInv'
      OBVIOUS
    <3>1. main = "test" /\ main' \in {"free", "process"} /\ iter' = iter
          /\ gRequestList' = gRequestList /\ Len(gRequestList) \in Nat
      BY DEF LoopTest, Goto, TypeOK
    <3>. QED
      BY <3>1
  <2>2. ProcessNothing \/ ProcessFails \/ ArmAlarm \/ ClearList \/ Stop => IterInv'
    BY DEF ProcessNothing, ProcessFails, ArmAlarm, ClearList, Stop, Goto, history
  <2>3. \A r \in Requests : CopyRequest(r) => IterInv'
    BY DEF CopyRequest, Goto, history
  <2>4. PushRequest => IterInv'
    BY DEF PushRequest, Goto
  <2>5. FreeRequest => IterInv'
    <3> SUFFICES ASSUME FreeRequest PROVE IterInv'
      OBVIOUS
    <3>1. /\ main = "free" /\ main' = "free" /\ iter' = iter + 1
          /\ iter <= Len(gRequestList) /\ gRequestList' = gRequestList
          /\ Len(gRequestList) \in Nat /\ iter \in 1 .. Len(gRequestList) + 1
      BY DEF FreeRequest, Goto, TypeOK
    <3>. QED
      BY <3>1
  <2>6. AlarmHandler => IterInv'
    <3> SUFFICES ASSUME AlarmHandler PROVE IterInv'
      OBVIOUS
    <3>1. CASE gRequestList = <<>>
      BY <3>1 DEF AlarmHandler
    <3>2. CASE gRequestList # <<>>
      BY <3>2, AlarmTakesFront
    <3>. QED
      BY <3>1, <3>2
  <2>7. handleSigInt \/ UNCHANGED vars => IterInv'
    BY DEF handleSigInt, vars, history
  <2>. QED
    BY <2>1, <2>2, <2>3, <2>4, <2>5, <2>6, <2>7, StepCases
<1>. QED
  BY <1>1, <1>2, TypeCorrect, PTL DEF Spec

\* The rank is a natural number: the clean-up frees no more than the list has.
LEMMA RankIsNatural ==
  ASSUME TypeOK, IterInv
  PROVE  ShutdownRank \in Nat
<1>1. Len(gRequestList) \in Nat /\ iter \in Nat
  BY DEF TypeOK
<1>2. main = "free" => iter <= Len(gRequestList) + 1
  BY <1>1 DEF IterInv
<1>. QED
  BY <1>1, <1>2 DEF ShutdownRank, MainRank, ListRank, Alive

\* After SIGINT main, and every alarm that interrupts it, has a bounded number of steps.
THEOREM ShutdownBounded == Spec => ShutdownAdvances /\ [](ShutdownRank \in Nat)
<1>1. TypeOK /\ IterInv => ShutdownRank \in Nat
  BY RankIsNatural
<1>2. TypeOK /\ ListInv /\ IterInv /\ [Next]_vars => [gQuitFlag => ShutdownRank' < ShutdownRank]_vars
  <2> SUFFICES ASSUME TypeOK, ListInv, IterInv, gQuitFlag
               PROVE  [Next]_vars => (ShutdownRank' < ShutdownRank \/ UNCHANGED vars)
    OBVIOUS
  <2> DEFINE Lowered == ShutdownRank' < ShutdownRank \/ UNCHANGED vars
  <2>1. Len(gRequestList) \in Nat /\ iter \in Nat
    BY DEF TypeOK
  <2> USE DEF Goto, ShutdownRank, MainRank, ListRank, Alive
  <2>2. LoopTest => Lowered
    <3>1. main = "test" => iter = 1
      BY DEF IterInv
    <3>2. LoopTest => /\ main = "test" /\ main' = "free" /\ iter' = iter
                      /\ gRequestList' = gRequestList /\ alarm' = alarm
      BY DEF LoopTest
    <3>. QED
      BY <2>1, <3>1, <3>2
  <2>3. ProcessNothing \/ ProcessFails => Lowered
    <3>1. ProcessNothing \/ ProcessFails
            => /\ main = "process" /\ main' \in {"test", "aborted"}
               /\ gRequestList' = gRequestList /\ alarm' = alarm
      BY DEF ProcessNothing, ProcessFails
    <3>. QED
      BY <2>1, <3>1
  <2>4. \A r \in Requests : CopyRequest(r) => Lowered
    BY <2>1 DEF CopyRequest
  <2>5. PushRequest => Lowered
    <3>1. PushRequest => /\ main = "push" /\ main' = "arm" /\ alarm' = alarm
                         /\ Len(gRequestList') = Len(gRequestList) + 1
      BY DEF PushRequest, TypeOK
    <3>. QED
      BY <2>1, <3>1
  <2>6. ArmAlarm => Lowered
    BY <2>1 DEF ArmAlarm
  <2>7. FreeRequest => Lowered
    BY <2>1 DEF FreeRequest
  <2>8. ClearList => Lowered
    <3>1. ClearList => /\ main = "free" /\ main' = "stop" /\ alarm' = alarm
                       /\ iter = Len(gRequestList) + 1 /\ Len(gRequestList') = 0
      BY <2>1 DEF ClearList, IterInv
    <3>. QED
      BY <2>1, <3>1
  <2>9. Stop => Lowered
    BY <2>1 DEF Stop
  <2>10. AlarmHandler => Lowered
    <3> SUFFICES ASSUME AlarmHandler PROVE Lowered
      OBVIOUS
    <3>1. CASE gRequestList = <<>>
      BY <2>1, <3>1 DEF AlarmHandler
    <3>2. CASE gRequestList # <<>>
      <4>1. /\ Len(gRequestList') = Len(gRequestList) - 1 /\ Len(gRequestList) \in Nat \ {0}
            /\ alarm /\ (main' = main \/ (main = "free" /\ main' = "crashed"))
        BY <3>2, AlarmTakesFront
      <4>2. iter' = iter \/ iter' = iter - 1
        BY <3>2, AlarmTakesFront
      <4>3. main \notin {"stopped", "aborted", "crashed"}
        BY DEF AlarmHandler, Alive
      <4>4. CASE main = "free"
        <5>1. iter <= Len(gRequestList) + 1
          BY <2>1, <4>4 DEF IterInv
        <5>2. CASE main' = "free"
          BY <2>1, <4>1, <4>2, <4>3, <4>4, <5>1, <5>2
        <5>3. CASE main' = "crashed"
          BY <2>1, <4>1, <4>2, <4>4, <5>1, <5>3
        <5>. QED
          BY <4>1, <4>4, <5>2, <5>3
      <4>5. CASE main # "free"
        BY <2>1, <4>1, <4>3, <4>5
      <4>. QED
        BY <4>4, <4>5
    <3>. QED
      BY <3>1, <3>2
  <2>11. handleSigInt => Lowered
    BY DEF handleSigInt
  <2>12. UNCHANGED vars => Lowered
    OBVIOUS
  <2>. QED
    BY <2>2, <2>3, <2>4, <2>5, <2>6, <2>7, <2>8, <2>9, <2>10, <2>11, <2>12, StepCases
<1>. QED
  BY <1>1, <1>2, TypeCorrect, ListCorrect, IterCorrect, PTL DEF Spec, ShutdownAdvances
=============================================================================
