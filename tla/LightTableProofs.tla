-------------------------- MODULE LightTableProofs --------------------------
(***************************************************************************)
(* Proofs about the table of observers of LightServer, the flag that goes  *)
(* with it, and the presence thread.                                       *)
(***************************************************************************)
EXTENDS LightServerProofs, FiniteSetTheorems

-----------------------------------------------------------------------------
(* The presence thread.                                                    *)

\* Main only adds to the threads that are cancelled.
LEMMA CancelledGrows ==
  ASSUME Main \/ handleSigInt
  PROVE  cancelled \subseteq cancelled'
BY DEF Main, handleSigInt, LoopTest, ProcessNothing, ProcessFails, OCEntityHandlerCb,
       ProcessPostRequest, ProcessDeleteRequest, ProcessObserveRegister, RegisterValid,
       RegisterFlag, ProcessObserveDeregister, DeregisterFlag, JoinObserve, JoinPresence,
       mainVars

\* The thread creates its resources one by one and deletes the same ones.
THEOREM PresenceCorrect == Spec => []PresenceInv
<1>1. Init => PresenceInv
  BY DEF Init, PresenceInv, NumPresence
<1>2. TypeOK /\ PresenceInv /\ [Next]_vars => PresenceInv'
  <2> SUFFICES ASSUME TypeOK, PresenceInv, [Next]_vars PROVE PresenceInv'
    OBVIOUS
  <2> USE DEF NumPresence
  <2>1. CASE Main \/ handleSigInt
    <3>1. UNCHANGED <<presence, pIdx, pRes, pHandles, pLive>>
      BY <2>1, MainFrame
    <3>2. cancelled \subseteq cancelled'
      BY <2>1, CancelledGrows
    <3> QED BY <3>1, <3>2 DEF PresenceInv
  <2>2. CASE ChangeLightRepresentation
    <3>1. UNCHANGED <<presence, pIdx, pRes, pHandles, pLive>> /\ cancelled' = cancelled
      BY <2>2, NotifierFrame
    <3> QED BY <3>1 DEF PresenceInv
  <2>3. CASE presenceNotificationGenerator
    <3>1. cancelled' = cancelled
      BY <2>3, PresenceFrame
    <3> USE DEF PresenceGoto, PresenceInv
    <3>2. CASE PresenceSleep
      BY <3>2 DEF PresenceSleep
    <3>3. CASE PresenceCreate
      <4>1. pIdx \in {0, 1} /\ presence = "create" /\ pRes /\ pLive = pHandles
        BY <3>3 DEF PresenceCreate, TypeOK
      <4>2. pHandles = 0 .. pIdx - 1
        BY <4>1
      <4>3. CASE pRes'
        <5>1. /\ pIdx' = pIdx + 1 /\ pHandles' = pHandles \cup {pIdx}
              /\ pLive' = pLive \cup {pIdx}
              /\ presence' = IF pIdx + 1 = 2 THEN "linger" ELSE "create"
          BY <3>3, <4>3 DEF PresenceCreate
        <5>2. pHandles' = 0 .. pIdx' - 1 /\ pLive' = pHandles'
          BY <4>1, <4>2, <5>1
        <5> QED BY <4>1, <4>3, <5>1, <5>2
      <4>4. CASE ~pRes'
        <5>1. pHandles' = pHandles /\ pLive' = pLive /\ presence' = "linger"
          BY <3>3, <4>1, <4>4 DEF PresenceCreate
        <5> QED BY <4>1, <4>4, <5>1
      <4> QED BY <4>3, <4>4
    <3>4. CASE PresenceDelete
      <4>1. pIdx \in {0, 1} /\ presence = "delete"
        BY <3>4 DEF PresenceDelete, TypeOK
      <4>2. CASE pRes'
        <5>1. /\ pRes /\ pIdx' = pIdx + 1 /\ pHandles' = pHandles /\ pLive' = pLive \ {pIdx}
              /\ presence' = IF pIdx + 1 = 2 THEN "stop" ELSE "delete"
          BY <3>4, <4>2 DEF PresenceDelete
        <5>2. pHandles = 0 .. 1 /\ pLive = pIdx .. 1
          BY <4>1, <5>1
        <5>3. pLive' = pIdx' .. 1
          BY <4>1, <5>1, <5>2
        <5> QED BY <4>1, <4>2, <5>1, <5>2, <5>3
      <4>3. CASE ~pRes'
        <5>1. pHandles' = pHandles /\ pLive' \subseteq pLive
              /\ presence' \in {"stop", "delete"}
          BY <3>4 DEF PresenceDelete
        <5>2. presence' = "stop"
          BY <3>4, <4>3 DEF PresenceDelete
        <5> QED BY <4>3, <5>1, <5>2
      <4> QED BY <4>2, <4>3
    <3>5. CASE PresenceStop
      BY <3>5 DEF PresenceStop
    <3>6. CASE PresenceCancelled
      BY <3>1, <3>6 DEF PresenceCancelled
    <3> QED
      BY <2>3, <3>2, <3>3, <3>4, <3>5, <3>6 DEF presenceNotificationGenerator
  <2>4. CASE UNCHANGED vars
    BY <2>4 DEF vars, presenceVars, mainVars, PresenceInv
  <2> QED BY <2>1, <2>2, <2>3, <2>4, StepCases
<1> QED BY <1>1, <1>2, TypeCorrect, PTL DEF Spec

\* The presence thread deletes only what it created, and leaves nothing behind unless a call
\* failed or it was cancelled.
THEOREM DeletesWhatItCreatedAlways == Spec => []DeletesWhatItCreated
<1>1. TypeOK /\ PresenceInv => DeletesWhatItCreated
  BY DEF TypeOK, PresenceInv, DeletesWhatItCreated, NumPresence
<1> QED BY <1>1, TypeCorrect, PresenceCorrect, PTL

-----------------------------------------------------------------------------
(* What the notifier collects.                                             *)

\* Every id in sight of the notifier is of an observer registered in this round.
THEOREM RoundCorrect == Spec => []RoundInv
<1> USE DEF RoundInv, NotifiedIdsRegistered, ValidSlots
<1>1. Init => RoundInv
  BY DEF Init, EmptySlot
<1>2. TypeOK /\ RoundInv /\ [Next]_vars => RoundInv'
  <2> SUFFICES ASSUME TypeOK, RoundInv, [Next]_vars PROVE RoundInv'
    OBVIOUS
  <2>1. CASE LoopTest \/ ProcessNothing \/ ProcessFails
    BY <2>1 DEF LoopTest, ProcessNothing, ProcessFails, serverVars, stackVars, notifierVars
  <2>2. CASE ProcessPostRequest
    BY <2>2 DEF ProcessPostRequest, notifierVars
  <2>3. CASE ProcessDeleteRequest
    <3>1. interestedObservers' = interestedObservers
      BY <2>3 DEF ProcessDeleteRequest, ClearedSlot, LightHandle, NULL, TypeOK
    <3> QED BY <2>3, <3>1 DEF ProcessDeleteRequest, notifierVars
  <2>4. ASSUME NEW id \in ObsIds, NEW h \in Handles, ProcessObserveRegister(id, h)
        PROVE  RoundInv'
    <3>1. /\ roundIds' = roundIds \cup {id} /\ id \in Registered'
          /\ obsNotify' = obsNotify /\ scan' = scan
          /\ notifier' = notifier \/ notifier' = "loop"
      BY <2>4 DEF ProcessObserveRegister, Registered, TypeOK, Handles, LightHandle,
                  InstanceHandle, Instances, NULL
    <3>2. CASE interestedObservers' = interestedObservers /\ main' = "test"
      BY <3>1, <3>2
    <3>3. ASSUME NEW i \in Slots, FirstFree(i), slot' = i, main' = "regValid",
                 interestedObservers' = [interestedObservers EXCEPT ![i].observationId = id]
          PROVE  RoundInv'
      <4>1. /\ \A k \in Slots : k # i => interestedObservers'[k] = interestedObservers[k]
            /\ interestedObservers'[i].observationId = id
            /\ interestedObservers'[i].valid = interestedObservers[i].valid
            /\ interestedObservers'[i].resourceHandle = interestedObservers[i].resourceHandle
        BY <3>3 DEF TypeOK
      <4>2. ~interestedObservers[i].valid
        BY <3>3 DEF FirstFree
      <4>3. notifier' = "take" => scan \in Slots
        BY <3>1 DEF TypeOK
      <4> QED BY <3>1, <3>3, <4>1, <4>2, <4>3
    <3> QED BY <2>4, <3>2, <3>3 DEF ProcessObserveRegister
  <2>5. CASE RegisterValid
    <3>1. slot \in Slots /\ interestedObservers[slot].observationId \in roundIds
      BY <2>5 DEF RegisterValid
    <3>2. /\ interestedObservers' = [interestedObservers EXCEPT ![slot].valid = TRUE]
          /\ main' = "regFlag" /\ UNCHANGED <<notifier, scan, obsNotify, roundIds>>
      BY <2>5 DEF RegisterValid, notifierVars
    <3>3. \A k \in Slots :
            /\ interestedObservers'[k].observationId = interestedObservers[k].observationId
            /\ interestedObservers'[k].resourceHandle = interestedObservers[k].resourceHandle
            /\ k # slot => interestedObservers'[k].valid = interestedObservers[k].valid
      BY <3>1, <3>2 DEF TypeOK
    <3>4. notifier' = "take" => scan \in Slots
      BY <3>2 DEF TypeOK
    <3> QED BY <3>1, <3>2, <3>3, <3>4
  <2>6. CASE RegisterFlag \/ DeregisterFlag
    BY <2>6 DEF RegisterFlag, DeregisterFlag, stackVars, notifierVars
  <2>7. ASSUME NEW id \in ObsIds, ProcessObserveDeregister(id) PROVE RoundInv'
    <3>1. main' = "deregFlag" /\ UNCHANGED <<notifier, scan, obsNotify, roundIds>>
      BY <2>7 DEF ProcessObserveDeregister, notifierVars
    <3>2. \A k \in Slots :
            /\ interestedObservers'[k].observationId = interestedObservers[k].observationId
            /\ interestedObservers'[k].resourceHandle = interestedObservers[k].resourceHandle
            /\ interestedObservers'[k].valid => interestedObservers[k].valid
      BY <2>7 DEF ProcessObserveDeregister, TypeOK
    <3>3. notifier' = "take" => scan \in Slots
      BY <3>1 DEF TypeOK
    <3> QED BY <3>1, <3>2, <3>3
  <2>8. CASE JoinObserve \/ JoinPresence
    BY <2>8 DEF JoinObserve, JoinPresence, serverVars, stackVars, notifierVars
  <2>9. CASE handleSigInt
    BY <2>9 DEF handleSigInt, serverVars, stackVars, mainVars, notifierVars, Registered
  <2>10. CASE ChangeLightRepresentation
    <3>1. UNCHANGED <<interestedObservers, main, slot, stackObs>>
      BY <2>10, NotifierFrame
    <3>2. Registered' = Registered
      BY <3>1 DEF Registered
    <3> USE DEF NotifierGoto
    <3>3. CASE NotifierLoopTest BY <3>1, <3>2, <3>3 DEF NotifierLoopTest
    <3>4. CASE NotifierWake
      <4>1. roundIds' = Registered \cup TrackedIds /\ obsNotify' = <<>> /\ notifier' # "take"
        BY <3>4 DEF NotifierWake
      <4> QED BY <3>1, <3>2, <4>1 DEF TrackedIds
    <3>5. CASE NotifierScan
      <4>1. obsNotify' = obsNotify /\ roundIds' = roundIds
        BY <3>5 DEF NotifierScan
      <4>2. notifier' = "take" =>
              scan' = scan /\ interestedObservers[scan].valid /\ scan < MaxObservations
        BY <3>5, LightServerConstants DEF NotifierScan, TypeOK
      <4>3. scan < MaxObservations => scan \in Slots
        BY LightServerConstants DEF TypeOK, Slots
      <4> QED BY <3>1, <3>2, <4>1, <4>2, <4>3
    <3>6. CASE NotifierTake
      <4>1. /\ obsNotify' = Append(obsNotify, interestedObservers[scan].observationId)
            /\ interestedObservers[scan].observationId \in roundIds
            /\ roundIds' = roundIds /\ notifier' = "scan"
        BY <3>6 DEF NotifierTake
      <4>2. \A j \in DOMAIN obsNotify' : obsNotify'[j] \in roundIds
        BY <4>1 DEF TypeOK
      <4> QED BY <3>1, <3>2, <4>1, <4>2
    <3>7. CASE NotifierSend BY <3>1, <3>2, <3>7 DEF NotifierSend
    <3>8. CASE NotifierNotifyAll
      BY <3>1, <3>2, <3>8 DEF NotifierNotifyAll, OCNotifyAllObservers
    <3>9. CASE NotifierNoObservers BY <3>1, <3>2, <3>9 DEF NotifierNoObservers
    <3>10. CASE NotifierCancelled BY <3>1, <3>2, <3>10 DEF NotifierCancelled
    <3> QED
      BY <2>10, <3>3, <3>4, <3>5, <3>6, <3>7, <3>8, <3>9, <3>10 DEF ChangeLightRepresentation
  <2>11. CASE presenceNotificationGenerator
    BY <2>11, PresenceFrame DEF Registered
  <2>12. CASE UNCHANGED vars
    BY <2>12 DEF vars, serverVars, stackVars, mainVars, notifierVars, Registered
  <2> QED
    BY <2>1, <2>2, <2>3, <2>4, <2>5, <2>6, <2>7, <2>8, <2>9, <2>10, <2>11, <2>12, StepCases
       DEF Main, OCEntityHandlerCb
<1> QED BY <1>1, <1>2, TypeCorrect, PTL DEF Spec

\* The notifier never collects the id of an observer that left before this round.
THEOREM NotifiedIdsRegisteredAlways == Spec => []NotifiedIdsRegistered
<1>1. RoundInv => NotifiedIdsRegistered
  BY DEF RoundInv
<1> QED BY <1>1, RoundCorrect, PTL

-----------------------------------------------------------------------------
(* The table and the flag.                                                 *)

\* A deletion clears no slot, for no slot holds a handle.
LEMMA DeleteKeepsTable ==
  ASSUME TypeOK, RoundInv, ProcessDeleteRequest
  PROVE  interestedObservers' = interestedObservers
BY DEF ProcessDeleteRequest, ClearedSlot, LightHandle, NULL, TypeOK, RoundInv

\* A registration either finds the table full and leaves it, or writes the id of one slot
\* that is not valid.
LEMMA RegisterKeepsValid ==
  ASSUME TypeOK, NEW id \in ObsIds, NEW h \in Handles, ProcessObserveRegister(id, h)
  PROVE  /\ main = "process" /\ ValidSlots' = ValidSlots
         /\ UNCHANGED <<gLightUnderObservation, still>>
         /\ \/ /\ interestedObservers' = interestedObservers /\ main' = "test"
               /\ dropped' = dropped \cup {id}
            \/ /\ slot' \in Slots /\ main' = "regValid" /\ dropped' = dropped
               /\ slot' \notin ValidSlots
               /\ interestedObservers'[slot'].observationId = id
               /\ \A k \in Slots \ {slot'} : interestedObservers'[k] = interestedObservers[k]
<1> USE DEF ValidSlots
<1>1. main = "process" /\ UNCHANGED <<gLightUnderObservation, still>>
  BY DEF ProcessObserveRegister
<1>2. CASE interestedObservers' = interestedObservers /\ main' = "test"
             /\ dropped' = dropped \cup {id}
  BY <1>1, <1>2
<1>3. ASSUME NEW i \in Slots, FirstFree(i), slot' = i, main' = "regValid", dropped' = dropped,
             interestedObservers' = [interestedObservers EXCEPT ![i].observationId = id]
      PROVE  /\ ValidSlots' = ValidSlots /\ i \notin ValidSlots
             /\ interestedObservers'[i].observationId = id
             /\ \A k \in Slots \ {i} : interestedObservers'[k] = interestedObservers[k]
  BY <1>3 DEF FirstFree, TypeOK
<1>4. \/ interestedObservers' = interestedObservers /\ main' = "test"
           /\ dropped' = dropped \cup {id}
      \/ \E i \in Slots :
           /\ FirstFree(i) /\ slot' = i /\ main' = "regValid" /\ dropped' = dropped
           /\ interestedObservers' = [interestedObservers EXCEPT ![i].observationId = id]
  BY DEF ProcessObserveRegister
<1> QED BY <1>1, <1>2, <1>3, <1>4

\* The second step of a registration makes its slot valid.
LEMMA RegisterMakesValid ==
  ASSUME TypeOK, RoundInv, RegisterValid
  PROVE  /\ slot \in Slots \ ValidSlots
         /\ ValidSlots' = ValidSlots \cup {slot}
         /\ \A k \in Slots :
              interestedObservers'[k].observationId = interestedObservers[k].observationId
BY DEF RegisterValid, RoundInv, TypeOK, ValidSlots

\* A deregistration makes the slots with the id invalid.
LEMMA DeregisterFrees ==
  ASSUME TypeOK, NEW id \in ObsIds, ProcessObserveDeregister(id)
  PROVE  /\ ValidSlots' = {i \in ValidSlots : interestedObservers[i].observationId # id}
         /\ \A k \in Slots :
              interestedObservers'[k].observationId = interestedObservers[k].observationId
BY DEF ProcessObserveDeregister, TypeOK, ValidSlots

\* The flag follows the table.
THEOREM FlagCorrect == Spec => []FlagInv
<1> USE DEF FlagInv, FlagMatchesTable
<1>1. Init => FlagInv
  BY DEF Init, EmptySlot, ValidSlots
<1>2. TypeOK /\ RoundInv /\ FlagInv /\ [Next]_vars => FlagInv'
  <2> SUFFICES ASSUME TypeOK, RoundInv, FlagInv, [Next]_vars PROVE FlagInv'
    OBVIOUS
  <2>1. (Main \/ handleSigInt) =>
          (notifier' \in {"notifyAll", "noObservers"} => NotifyType = 0)
    BY MainFrame
  <2>2. CASE LoopTest \/ ProcessNothing \/ ProcessFails \/ JoinObserve \/ JoinPresence
    <3>1. /\ UNCHANGED <<interestedObservers, gLightUnderObservation, notifier>>
          /\ main \notin {"regFlag", "deregFlag"} /\ main' \notin {"regFlag", "deregFlag"}
      BY <2>2 DEF LoopTest, ProcessNothing, ProcessFails, JoinObserve, JoinPresence,
                  serverVars, notifierVars
    <3> QED BY <3>1 DEF ValidSlots
  <2>3. CASE ProcessPostRequest
    <3>1. /\ UNCHANGED <<interestedObservers, gLightUnderObservation, notifier>>
          /\ main = "process" /\ main' = "test"
      BY <2>3 DEF ProcessPostRequest, notifierVars
    <3> QED BY <3>1 DEF ValidSlots
  <2>4. CASE ProcessDeleteRequest
    <3>1. /\ UNCHANGED <<interestedObservers, gLightUnderObservation, notifier>>
          /\ main = "process" /\ main' = "test"
      BY <2>4, DeleteKeepsTable DEF ProcessDeleteRequest, notifierVars
    <3> QED BY <3>1 DEF ValidSlots
  <2>5. ASSUME NEW id \in ObsIds, NEW h \in Handles, ProcessObserveRegister(id, h)
        PROVE  FlagInv'
    <3>1. OCEntityHandlerCb
      BY <2>5 DEF OCEntityHandlerCb
    <3>2. /\ main = "process" /\ main' \in {"test", "regValid"}
          /\ ValidSlots' = ValidSlots /\ gLightUnderObservation' = gLightUnderObservation
      BY <2>5, RegisterKeepsValid
    <3> QED BY <2>1, <3>1, <3>2 DEF Main
  <2>6. CASE RegisterValid
    <3>1. main = "regValid" /\ main' = "regFlag" /\ UNCHANGED <<gLightUnderObservation, notifier>>
      BY <2>6 DEF RegisterValid, notifierVars
    <3> QED BY <2>6, <3>1, RegisterMakesValid
  <2>7. CASE RegisterFlag
    <3>1. /\ main = "regFlag" /\ main' = "test" /\ gLightUnderObservation' = TRUE
          /\ UNCHANGED <<interestedObservers, notifier>>
      BY <2>7 DEF RegisterFlag, notifierVars
    <3> QED BY <3>1 DEF ValidSlots
  <2>8. ASSUME NEW id \in ObsIds, ProcessObserveDeregister(id) PROVE FlagInv'
    <3>1. /\ main = "process" /\ main' = "deregFlag"
          /\ UNCHANGED <<gLightUnderObservation, notifier>>
          /\ still' = \E i \in Slots : interestedObservers'[i].valid
      BY <2>8 DEF ProcessObserveDeregister, notifierVars
    <3>2. still' <=> ValidSlots' # {}
      BY <3>1 DEF ValidSlots
    <3>3. ValidSlots' \subseteq ValidSlots
      BY <2>8, DeregisterFrees
    <3> QED BY <3>1, <3>2, <3>3
  <2>9. CASE DeregisterFlag
    <3>1. /\ main = "deregFlag" /\ main' = "test"
          /\ gLightUnderObservation' = (gLightUnderObservation /\ still)
          /\ UNCHANGED <<interestedObservers, notifier>>
      BY <2>9 DEF DeregisterFlag, notifierVars
    <3>2. ValidSlots' = ValidSlots
      BY <3>1 DEF ValidSlots
    <3> QED BY <3>1, <3>2
  <2>10. CASE handleSigInt
    <3>1. UNCHANGED <<interestedObservers, gLightUnderObservation, notifier, main, still>>
      BY <2>10 DEF handleSigInt, serverVars, mainVars, notifierVars
    <3> QED BY <3>1 DEF ValidSlots
  <2>11. CASE ChangeLightRepresentation
    <3>1. UNCHANGED <<interestedObservers, main, still>>
      BY <2>11, NotifierFrame
    <3>2. ValidSlots' = ValidSlots
      BY <3>1 DEF ValidSlots
    <3>3. \/ gLightUnderObservation' = gLightUnderObservation
          \/ gLightUnderObservation' = FALSE /\ NotifyType = 0
      BY <2>11 DEF ChangeLightRepresentation, NotifierLoopTest, NotifierWake, NotifierScan,
           NotifierTake, NotifierSend, NotifierNotifyAll, NotifierNoObservers,
           NotifierCancelled, NotifierGoto
    <3>4. notifier' \in {"notifyAll", "noObservers"} => NotifyType = 0
      BY <2>11, LightServerConstants DEF ChangeLightRepresentation, NotifierLoopTest,
           NotifierWake, NotifierScan, NotifierTake, NotifierSend, NotifierNotifyAll,
           OCNotifyAllObservers, NotifierNoObservers, NotifierCancelled, NotifierGoto
    <3> QED BY <3>1, <3>2, <3>3, <3>4
  <2>12. CASE presenceNotificationGenerator
    BY <2>12, PresenceFrame DEF ValidSlots
  <2>13. CASE UNCHANGED vars
    BY <2>13 DEF vars, serverVars, mainVars, notifierVars, ValidSlots
  <2> QED
    BY <2>2, <2>3, <2>4, <2>5, <2>6, <2>7, <2>8, <2>9, <2>10, <2>11, <2>12, <2>13, StepCases
       DEF Main, OCEntityHandlerCb
<1> QED BY <1>1, <1>2, TypeCorrect, RoundCorrect, PTL DEF Spec

\* The flag is up only with an observer in the table, and with list notification always
\* when there is one.
THEOREM FlagMatchesTableAlways == Spec => []FlagMatchesTable
<1>1. FlagInv => FlagMatchesTable
  BY DEF FlagInv
<1> QED BY <1>1, FlagCorrect, PTL

-----------------------------------------------------------------------------
(* The table and the stack.                                                *)

\* A step that touches neither the table nor the stack, and is no part of a registration,
\* keeps the table in order.
LEMMA TableFrame ==
  ASSUME TableInv,
         UNCHANGED <<interestedObservers, stackObs, dropped>>,
         main' = "regValid" <=> main = "regValid",
         main = "regValid" => slot' = slot,
         LightHandle \in resources' => LightHandle \in resources
  PROVE  TableInv'
<1>1. /\ Registered' = Registered /\ TrackedIds' = TrackedIds /\ ValidSlots' = ValidSlots
      /\ BeingFilled' = BeingFilled
  BY DEF Registered, TrackedIds, ValidSlots, BeingFilled
<1> QED BY <1>1 DEF TableInv

\* While /a/light exists the table holds the observers of the stack, each of them once, but
\* for those that found it full.
THEOREM TableCorrect == Spec => []TableInv
<1>1. Init => TableInv
  BY DEF Init, EmptySlot, TableInv, Registered, TrackedIds, BeingFilled, ValidSlots
<1>2. TypeOK /\ RoundInv /\ TableInv /\ [Next]_vars => TableInv'
  <2> SUFFICES ASSUME TypeOK, RoundInv, TableInv, [Next]_vars PROVE TableInv'
    OBVIOUS
  <2>1. CASE LoopTest \/ ProcessNothing \/ ProcessFails \/ JoinObserve \/ JoinPresence
    BY <2>1, TableFrame DEF LoopTest, ProcessNothing, ProcessFails, JoinObserve, JoinPresence,
                            serverVars, stackVars
  <2>2. CASE ProcessPostRequest
    BY <2>2, TableFrame DEF ProcessPostRequest
  <2>3. CASE ProcessDeleteRequest
    BY <2>3 DEF ProcessDeleteRequest, TableInv
  <2>4. ASSUME NEW id \in ObsIds, NEW h \in Handles, ProcessObserveRegister(id, h)
        PROVE  TableInv'
    <3> SUFFICES ASSUME LightHandle \in resources' PROVE TableInv'
      BY DEF TableInv
    <3>1. /\ LightHandle \in resources
          /\ stackObs[id] = NULL /\ stackObs' = [stackObs EXCEPT ![id] = h] /\ h # NULL
      BY <2>4 DEF ProcessObserveRegister, Handles, LightHandle, InstanceHandle, Instances, NULL
    <3>2. id \notin Registered /\ Registered' = Registered \cup {id}
      BY <3>1 DEF Registered, TypeOK
    <3>3. main = "process" /\ ValidSlots' = ValidSlots /\ BeingFilled = {}
      BY <2>4, RegisterKeepsValid DEF BeingFilled
    <3>4. id \notin TrackedIds /\ id \notin dropped
      BY <3>1, <3>2 DEF TableInv
    <3>5. CASE interestedObservers' = interestedObservers /\ main' = "test"
                 /\ dropped' = dropped \cup {id}
      <4>1. TrackedIds' = TrackedIds /\ BeingFilled' = {}
        BY <3>5 DEF TrackedIds, ValidSlots, BeingFilled
      <4> QED BY <3>1, <3>2, <3>3, <3>4, <3>5, <4>1 DEF TableInv
    <3>6. CASE /\ slot' \in Slots /\ main' = "regValid" /\ dropped' = dropped
               /\ slot' \notin ValidSlots
               /\ interestedObservers'[slot'].observationId = id
               /\ \A k \in Slots \ {slot'} : interestedObservers'[k] = interestedObservers[k]
      <4>1. \A i \in ValidSlots : i \in Slots /\ interestedObservers'[i] = interestedObservers[i]
        BY <3>6 DEF ValidSlots
      <4>2. TrackedIds' = TrackedIds
        BY <3>3, <4>1 DEF TrackedIds
      <4>3. BeingFilled' = {id}
        BY <3>6 DEF BeingFilled
      <4> QED BY <3>1, <3>2, <3>3, <3>4, <3>6, <4>1, <4>2, <4>3 DEF TableInv
    <3> QED BY <2>4, <3>5, <3>6, RegisterKeepsValid
  <2>5. CASE RegisterValid
    <3> SUFFICES ASSUME LightHandle \in resources' PROVE TableInv'
      BY DEF TableInv
    <3>1. /\ main = "regValid" /\ main' = "regFlag"
          /\ UNCHANGED <<dropped, stackObs, resources>>
      BY <2>5 DEF RegisterValid, stackVars
    <3>2. /\ slot \in Slots \ ValidSlots /\ ValidSlots' = ValidSlots \cup {slot}
          /\ \A k \in Slots :
               interestedObservers'[k].observationId = interestedObservers[k].observationId
          /\ ValidSlots \subseteq Slots
      BY <2>5, RegisterMakesValid DEF ValidSlots
    <3>3. /\ BeingFilled = {interestedObservers[slot].observationId} /\ BeingFilled' = {}
          /\ TrackedIds' = TrackedIds \cup {interestedObservers[slot].observationId}
      BY <3>1, <3>2 DEF BeingFilled, TrackedIds
    <3>4. Registered' = Registered
      BY <3>1 DEF Registered
    <3>5. \A i \in ValidSlots :
            interestedObservers[i].observationId # interestedObservers[slot].observationId
      <4>1. \A i \in ValidSlots : interestedObservers[i].observationId \in TrackedIds
        BY DEF TrackedIds
      <4> QED BY <3>1, <3>3, <4>1 DEF TableInv
    <3> QED BY <3>1, <3>2, <3>3, <3>4, <3>5 DEF TableInv
  <2>6. CASE RegisterFlag \/ DeregisterFlag
    BY <2>6, TableFrame DEF RegisterFlag, DeregisterFlag, stackVars
  <2>7. ASSUME NEW id \in ObsIds, ProcessObserveDeregister(id) PROVE TableInv'
    <3> SUFFICES ASSUME LightHandle \in resources' PROVE TableInv'
      BY DEF TableInv
    <3>1. /\ main = "process" /\ main' = "deregFlag" /\ LightHandle \in resources
          /\ dropped' = dropped \ {id} /\ stackObs' = [stackObs EXCEPT ![id] = NULL]
      BY <2>7 DEF ProcessObserveDeregister
    <3>2. Registered' = Registered \ {id}
      BY <3>1 DEF Registered, TypeOK
    <3>3. BeingFilled = {} /\ BeingFilled' = {}
      BY <3>1 DEF BeingFilled
    <3>4. /\ ValidSlots' = {i \in ValidSlots : interestedObservers[i].observationId # id}
          /\ \A i \in ValidSlots' :
               interestedObservers'[i].observationId = interestedObservers[i].observationId
      BY <2>7, DeregisterFrees DEF ValidSlots
    <3>5. TrackedIds' = TrackedIds \ {id}
      BY <3>4 DEF TrackedIds
    <3> QED BY <3>1, <3>2, <3>3, <3>4, <3>5 DEF TableInv
  <2>8. CASE handleSigInt
    BY <2>8, TableFrame DEF handleSigInt, serverVars, stackVars, mainVars
  <2>9. CASE ChangeLightRepresentation
    BY <2>9, NotifierFrame, TableFrame
  <2>10. CASE presenceNotificationGenerator
    BY <2>10, PresenceFrame, TableFrame
  <2>11. CASE UNCHANGED vars
    BY <2>11, TableFrame DEF vars, serverVars, stackVars, mainVars
  <2> QED
    BY <2>1, <2>2, <2>3, <2>4, <2>5, <2>6, <2>7, <2>8, <2>9, <2>10, <2>11, StepCases
       DEF Main, OCEntityHandlerCb
<1> QED BY <1>1, <1>2, TypeCorrect, RoundCorrect, PTL DEF Spec

\* Outside of a registration's first step, the table is the stack's set of observers.
THEOREM TableMatchesStackAlways == Spec => []TableMatchesStack
<1>1. TypeOK /\ TableInv => TableMatchesStack
  <2> SUFFICES ASSUME TypeOK, TableInv, LightHandle \in resources, main # "regValid"
      PROVE  /\ TrackedIds = Registered \ dropped
             /\ \A i, k \in ValidSlots :
                  interestedObservers[i].observationId = interestedObservers[k].observationId
                    => i = k
    BY DEF TableMatchesStack
  <2>1. BeingFilled = {}
    BY DEF BeingFilled
  <2>2. Registered \subseteq ObsIds
    BY DEF Registered
  <2> QED BY <2>1, <2>2 DEF TableInv
<1> QED BY <1>1, TypeCorrect, TableCorrect, PTL

-----------------------------------------------------------------------------
(* The table implements a set of bounded size.                             *)

\* There are MaxObservations slots.
LEMMA SlotsCount == IsFiniteSet(Slots) /\ Cardinality(Slots) = MaxObservations
<1>1. MaxObservations \in Nat /\ 0 \in Int /\ MaxObservations - 1 \in Int
  BY LightServerConstants
<1>2. /\ IsFiniteSet(0 .. MaxObservations - 1)
      /\ Cardinality(0 .. MaxObservations - 1)
           = IF 0 > MaxObservations - 1 THEN 0 ELSE MaxObservations - 1 - 0 + 1
  BY <1>1, FS_Interval
<1> QED BY <1>1, <1>2 DEF Slots

\* With each id in one slot only, the table holds as many ids as slots are in use.
LEMMA TrackedCount ==
  ASSUME \A i, k \in ValidSlots :
           interestedObservers[i].observationId = interestedObservers[k].observationId => i = k
  PROVE  Cardinality(TrackedIds) = Cardinality(ValidSlots)
<1> DEFINE IdOf == [i \in ValidSlots |-> interestedObservers[i].observationId]
<1>1. IdOf \in Bijection(ValidSlots, TrackedIds)
  <2>1. IdOf \in [ValidSlots -> TrackedIds]
    BY DEF TrackedIds
  <2>2. \A i, k \in ValidSlots : IdOf[i] = IdOf[k] => i = k
    OBVIOUS
  <2>3. \A id \in TrackedIds : \E i \in ValidSlots : IdOf[i] = id
    BY DEF TrackedIds
  <2> HIDE DEF IdOf
  <2>4. IdOf \in Injection(ValidSlots, TrackedIds)
    BY <2>1, <2>2 DEF Injection, IsInjective
  <2>5. IdOf \in Surjection(ValidSlots, TrackedIds)
    BY <2>1, <2>3 DEF Surjection
  <2> QED BY <2>4, <2>5 DEF Bijection
<1>2. ExistsBijection(ValidSlots, TrackedIds)
  BY <1>1 DEF ExistsBijection
<1>3. IsFiniteSet(ValidSlots)
  BY SlotsCount, FS_Subset DEF ValidSlots
<1> QED BY <1>2, <1>3, FS_Bijection

\* The table is full exactly when it has MaxObservations ids.
LEMMA FullMeansCapacity ==
  ASSUME \A i, k \in ValidSlots :
           interestedObservers[i].observationId = interestedObservers[k].observationId => i = k
  PROVE  /\ ValidSlots = Slots => Cardinality(TrackedIds) = MaxObservations
         /\ ValidSlots # Slots => Cardinality(TrackedIds) < MaxObservations
<1>1. ValidSlots \subseteq Slots
  BY DEF ValidSlots
<1>2. /\ Cardinality(ValidSlots) <= Cardinality(Slots)
      /\ Cardinality(Slots) = Cardinality(ValidSlots) => Slots = ValidSlots
      /\ IsFiniteSet(ValidSlots)
  BY <1>1, SlotsCount, FS_Subset
<1>3. Cardinality(ValidSlots) \in Nat
  BY <1>2, FS_CardinalityType
<1> QED BY <1>2, <1>3, SlotsCount, TrackedCount, LightServerConstants

\* The table's cardinality is the cardinality of this module.
LEMMA SameCardinality == ASSUME NEW S PROVE Table!Cardinality(S) = Cardinality(S)
BY Zenon DEF Table!Cardinality, Cardinality, Table!IsFiniteSet, IsFiniteSet

\* A step that keeps the ids of the table stutters, or comes after the deletion.
LEMMA KeptTableRefines ==
  ASSUME TrackedIds' \cup BeingFilled' = TrackedIds \cup BeingFilled, dropped' = dropped,
         LightHandle \in resources' => LightHandle \in resources
  PROVE  [Table!Next]_(Table!vars)
BY DEF Table!Next, Table!Gone, Table!vars

\* A step that leaves the table, and where main is in a registration, alone keeps its ids.
LEMMA TableUntouched ==
  ASSUME interestedObservers' = interestedObservers,
         main' = "regValid" <=> main = "regValid",
         main = "regValid" => slot' = slot
  PROVE  TrackedIds' \cup BeingFilled' = TrackedIds \cup BeingFilled
BY DEF TrackedIds, ValidSlots, BeingFilled

\* Every step of the server is a step of the table, or keeps it.
LEMMA StepRefinesTable ==
  ASSUME TypeOK, RoundInv, TableInv, [Next]_vars
  PROVE  [Table!Next]_(Table!vars)
<1>1. CASE LoopTest \/ ProcessNothing \/ ProcessFails \/ JoinObserve \/ JoinPresence
  BY <1>1, TableUntouched, KeptTableRefines
     DEF LoopTest, ProcessNothing, ProcessFails, JoinObserve, JoinPresence,
         serverVars, stackVars
<1>2. CASE ProcessPostRequest
  <2>1. LightHandle \in resources
    BY <1>2 DEF ProcessPostRequest
  <2> QED BY <1>2, <2>1, TableUntouched, KeptTableRefines DEF ProcessPostRequest
<1>3. CASE ProcessDeleteRequest
  BY <1>3 DEF ProcessDeleteRequest, Table!Next, Table!Gone
<1>4. ASSUME NEW id \in ObsIds, NEW h \in Handles, ProcessObserveRegister(id, h)
      PROVE  [Table!Next]_(Table!vars)
  <2>1. CASE LightHandle \notin resources'
    BY <2>1 DEF Table!Next, Table!Gone
  <2>2. CASE LightHandle \in resources'
    <3>1. LightHandle \in resources /\ resources' = resources
      BY <1>4, <2>2 DEF ProcessObserveRegister
    <3>2. stackObs[id] = NULL
      BY <1>4 DEF ProcessObserveRegister
    <3>3. id \notin Registered
      BY <3>2 DEF Registered
    <3>4. /\ BeingFilled = {} /\ id \notin TrackedIds \cup BeingFilled \cup dropped
          /\ ValidSlots' = ValidSlots
          /\ \A i, k \in ValidSlots :
               interestedObservers[i].observationId = interestedObservers[k].observationId
                 => i = k
      BY <1>4, <3>1, <3>3, RegisterKeepsValid DEF TableInv, BeingFilled
    <3>5. CASE /\ ValidSlots = Slots /\ main' = "test" /\ dropped' = dropped \cup {id}
               /\ interestedObservers' = interestedObservers
      <4>1. TrackedIds' = TrackedIds /\ BeingFilled' = {}
        BY <3>5 DEF TrackedIds, ValidSlots, BeingFilled
      <4>2. Cardinality(TrackedIds \cup BeingFilled) = MaxObservations
        BY <3>4, <3>5, FullMeansCapacity
      <4>3. TrackedIds' \cup BeingFilled' = TrackedIds \cup BeingFilled
        BY <3>4, <4>1
      <4>4. Table!TurnAway(id)
        BY <3>5, <4>2, <4>3, SameCardinality DEF Table!TurnAway
      <4>5. Table!Register(id)
        BY <3>1, <3>4, <4>4 DEF Table!Register
      <4> QED BY <4>5 DEF Table!Next
    <3>6. ASSUME NEW i \in Slots, FirstFree(i), slot' = i, main' = "regValid",
                 dropped' = dropped,
                 interestedObservers' = [interestedObservers EXCEPT ![i].observationId = id]
          PROVE  [Table!Next]_(Table!vars)
      <4>1. i \notin ValidSlots /\ i \in Slots
        BY <3>6 DEF FirstFree, ValidSlots
      <4>2. /\ \A k \in ValidSlots : interestedObservers'[k] = interestedObservers[k]
            /\ interestedObservers'[i].observationId = id
        BY <3>6, <4>1 DEF TypeOK, ValidSlots
      <4>3. TrackedIds' = TrackedIds
        BY <3>4, <4>2 DEF TrackedIds
      <4>4. BeingFilled' = {id}
        BY <3>6, <4>2 DEF BeingFilled
      <4>5. Cardinality(TrackedIds \cup BeingFilled) < MaxObservations
        BY <3>4, <4>1, FullMeansCapacity
      <4>6. TrackedIds' \cup BeingFilled' = (TrackedIds \cup BeingFilled) \cup {id}
        BY <3>4, <4>3, <4>4
      <4>7. Table!Admit(id)
        BY <3>6, <4>5, <4>6, SameCardinality DEF Table!Admit
      <4>8. Table!Register(id)
        BY <3>1, <3>4, <4>7 DEF Table!Register
      <4> QED BY <4>8 DEF Table!Next
    <3>7. \/ /\ ValidSlots = Slots /\ main' = "test" /\ dropped' = dropped \cup {id}
             /\ interestedObservers' = interestedObservers
          \/ \E i \in Slots :
               /\ FirstFree(i) /\ slot' = i /\ main' = "regValid" /\ dropped' = dropped
               /\ interestedObservers' = [interestedObservers EXCEPT ![i].observationId = id]
      BY <1>4 DEF ProcessObserveRegister
    <3> QED BY <3>5, <3>6, <3>7
  <2> QED BY <2>1, <2>2
<1>5. CASE RegisterValid
  <2>1. /\ main = "regValid" /\ main' = "regFlag"
        /\ UNCHANGED <<dropped, resources>>
    BY <1>5 DEF RegisterValid, stackVars
  <2>2. /\ slot \in Slots \ ValidSlots /\ ValidSlots' = ValidSlots \cup {slot}
        /\ \A k \in Slots :
             interestedObservers'[k].observationId = interestedObservers[k].observationId
        /\ ValidSlots \subseteq Slots
    BY <1>5, RegisterMakesValid DEF ValidSlots
  <2>3. /\ BeingFilled = {interestedObservers[slot].observationId} /\ BeingFilled' = {}
        /\ TrackedIds' = TrackedIds \cup {interestedObservers[slot].observationId}
    BY <2>1, <2>2 DEF BeingFilled, TrackedIds
  <2> QED BY <2>1, <2>3, KeptTableRefines
<1>6. CASE RegisterFlag \/ DeregisterFlag
  BY <1>6, TableUntouched, KeptTableRefines DEF RegisterFlag, DeregisterFlag, stackVars
<1>7. ASSUME NEW id \in ObsIds, ProcessObserveDeregister(id)
      PROVE  [Table!Next]_(Table!vars)
  <2>1. CASE LightHandle \notin resources'
    BY <2>1 DEF Table!Next, Table!Gone
  <2>2. CASE LightHandle \in resources'
    <3>1. /\ main = "process" /\ main' = "deregFlag" /\ LightHandle \in resources
          /\ dropped' = dropped \ {id} /\ resources' = resources
      BY <1>7, <2>2 DEF ProcessObserveDeregister
    <3>2. id \in Registered
      BY <1>7 DEF ProcessObserveDeregister, Registered
    <3>3. BeingFilled = {} /\ BeingFilled' = {}
      BY <3>1 DEF BeingFilled
    <3>4. /\ ValidSlots' = {i \in ValidSlots : interestedObservers[i].observationId # id}
          /\ \A i \in ValidSlots' :
               interestedObservers'[i].observationId = interestedObservers[i].observationId
      BY <1>7, DeregisterFrees DEF ValidSlots
    <3>5. TrackedIds' = TrackedIds \ {id}
      BY <3>4 DEF TrackedIds
    <3>6. id \in TrackedIds \cup BeingFilled \cup dropped
      BY <3>1, <3>2 DEF TableInv
    <3>7. Table!Deregister(id)
      BY <3>1, <3>3, <3>5, <3>6 DEF Table!Deregister
    <3> QED BY <3>7 DEF Table!Next
  <2> QED BY <2>1, <2>2
<1>8. CASE handleSigInt
  BY <1>8, TableUntouched, KeptTableRefines DEF handleSigInt, serverVars, stackVars, mainVars
<1>9. CASE ChangeLightRepresentation
  BY <1>9, NotifierFrame, TableUntouched, KeptTableRefines
<1>10. CASE presenceNotificationGenerator
  BY <1>10, PresenceFrame, TableUntouched, KeptTableRefines
<1>11. CASE UNCHANGED vars
  BY <1>11, TableUntouched, KeptTableRefines DEF vars, serverVars, stackVars, mainVars
<1> QED
  BY <1>1, <1>2, <1>3, <1>4, <1>5, <1>6, <1>7, <1>8, <1>9, <1>10, <1>11, StepCases
     DEF Main, OCEntityHandlerCb

\* The array of slots with its valid flags is a set of at most MaxObservations observers:
\* while /a/light exists one is turned away only when the table is full of others.
THEOREM TableRefinement == Spec => ImplementsTable
<1>1. Init => Table!Init
  BY DEF Init, EmptySlot, Table!Init, TrackedIds, ValidSlots, BeingFilled
<1>2. TypeOK /\ RoundInv /\ TableInv /\ [Next]_vars => [Table!Next]_(Table!vars)
  BY StepRefinesTable
<1> QED
  BY <1>1, <1>2, TypeCorrect, RoundCorrect, TableCorrect, PTL
     DEF Spec, ImplementsTable, Table!Spec

-----------------------------------------------------------------------------
(* The shutdown ends: a rank that every step after SIGINT lowers.          *)

\* A sum of three drops with a part of it.
LEMMA SumDrops ==
  \A a, b, c, d \in Nat : /\ d < a => d + b < a + b /\ d + b + c < a + b + c
                          /\ d < b => a + d + c < a + b + c
                          /\ d < c => a + b + d < a + b + c
                          /\ d + 1 < a => d + 1 < a + 0
OBVIOUS

LEMMA PairDrops == \A a, b, c, d, e \in Nat : d + e < a + b => d + e + c < a + b + c
OBVIOUS

\* The ranks are natural numbers.
LEMMA RanksAreNatural ==
  ASSUME TypeOK, ScanInv, PresenceInv
  PROVE  MainRank \in Nat /\ NotifierRank \in Nat /\ PresenceRank \in Nat
<1>1. MainRank \in Nat
  BY DEF MainRank
<1>2. NotifierRank \in Nat
  <2>1. MaxObservations \in Nat /\ scan \in Nat /\ scan =< MaxObservations
    BY LightServerConstants DEF TypeOK, ScanInv
  <2>2. /\ 2 * MaxObservations + 5 \in Nat
        /\ 2 * (MaxObservations - scan) + 4 \in Nat
        /\ 2 * (MaxObservations - scan) + 3 \in Nat
    BY <2>1
  <2> QED BY <2>2, Zenon DEF NotifierRank
<1>3. PresenceRank \in Nat
  <2>1. /\ pIdx \in Nat
        /\ presence = "create" => pIdx =< NumPresence
        /\ presence = "delete" => pIdx =< NumPresence
    BY DEF TypeOK, PresenceInv, NumPresence
  <2> QED BY <2>1 DEF PresenceRank, NumPresence
<1> QED BY <1>1, <1>2, <1>3

\* main's step lowers its own rank by more than the notifier it may start adds.
LEMMA MainLowersRank ==
  ASSUME TypeOK, ScanInv, PresenceInv, JoinInv, gQuitFlag, Main
  PROVE  /\ MainRank' + NotifierRank' < MainRank + NotifierRank
         /\ PresenceRank' = PresenceRank
<1>1. UNCHANGED <<scan, presence, pIdx>>
  BY MainFrame
<1>2. PresenceRank' = PresenceRank
  BY <1>1 DEF PresenceRank
<1>3. \/ MainRank' < MainRank /\ notifier' = notifier
      \/ MainRank' + 1 < MainRank /\ notifier = "none" /\ notifier' = "loop"
  <2>1. CASE LoopTest
    <3>1. main = "test" /\ main' \in {"joinObserve", "joinPresence"} /\ notifier' = notifier
      BY <2>1 DEF LoopTest, notifierVars
    <3> QED BY <3>1 DEF MainRank
  <2>2. CASE ProcessNothing \/ ProcessFails \/ ProcessPostRequest \/ ProcessDeleteRequest
    <3>1. main = "process" /\ main' \in {"test", "aborted"} /\ notifier' = notifier
      BY <2>2 DEF ProcessNothing, ProcessFails, ProcessPostRequest, ProcessDeleteRequest,
                  notifierVars
    <3> QED BY <3>1 DEF MainRank
  <2>3. CASE JoinObserve \/ JoinPresence
    <3>1. /\ \/ main = "joinObserve" /\ main' = "joinPresence"
             \/ main = "joinPresence" /\ main' = "stopped"
          /\ notifier' = notifier
      BY <2>3 DEF JoinObserve, JoinPresence, notifierVars
    <3> QED BY <3>1 DEF MainRank
  <2>4. ASSUME NEW id \in ObsIds, NEW h \in Handles, ProcessObserveRegister(id, h)
        PROVE  \/ MainRank' < MainRank /\ notifier' = notifier
               \/ MainRank' + 1 < MainRank /\ notifier = "none" /\ notifier' = "loop"
    <3>1. main = "process" /\ main' \in {"test", "regValid"}
      BY <2>4 DEF ProcessObserveRegister
    <3>2. MainRank' < MainRank
      BY <3>1 DEF MainRank
    <3>3. MainRank' + 1 < MainRank
      BY <3>1 DEF MainRank
    <3>4. CASE observeThreadStarted
      <4>1. notifier' = notifier
        BY <2>4, <3>4 DEF ProcessObserveRegister
      <4> QED BY <3>2, <4>1
    <3>5. CASE ~observeThreadStarted
      <4>1. notifier' = "loop"
        BY <2>4, <3>5 DEF ProcessObserveRegister
      <4>2. notifier = "none"
        BY <3>5 DEF JoinInv
      <4> QED BY <3>3, <4>1, <4>2
    <3> QED BY <3>4, <3>5
  <2>5. CASE RegisterValid \/ RegisterFlag \/ DeregisterFlag
    <3>1. /\ \/ main = "regValid" /\ main' = "regFlag"
             \/ main \in {"regFlag", "deregFlag"} /\ main' = "test"
          /\ notifier' = notifier
      BY <2>5 DEF RegisterValid, RegisterFlag, DeregisterFlag, notifierVars
    <3> QED BY <3>1 DEF MainRank
  <2>6. ASSUME NEW id \in ObsIds, ProcessObserveDeregister(id)
        PROVE  MainRank' < MainRank /\ notifier' = notifier
    BY <2>6 DEF ProcessObserveDeregister, MainRank, notifierVars
  <2> QED BY <2>1, <2>2, <2>3, <2>4, <2>5, <2>6 DEF Main, OCEntityHandlerCb
<1>4. MainRank \in Nat /\ MainRank' \in Nat
  BY DEF MainRank
<1>5. NotifierRank \in Nat
  BY RanksAreNatural
<1>6. CASE MainRank' < MainRank /\ notifier' = notifier
  <2>1. NotifierRank' = NotifierRank
    BY <1>1, <1>6 DEF NotifierRank
  <2> QED BY <1>2, <1>4, <1>5, <1>6, <2>1, SumDrops, Zenon
<1>7. CASE MainRank' + 1 < MainRank /\ notifier = "none" /\ notifier' = "loop"
  <2>1. NotifierRank = 0 /\ NotifierRank' = 1 /\ 0 \in Nat
    BY <1>7 DEF NotifierRank
  <2> QED BY <1>2, <1>4, <1>7, <2>1, SumDrops, Zenon
<1> QED BY <1>3, <1>6, <1>7

\* After SIGINT every step of the notifier lowers its rank: no round follows the one it
\* is in.
LEMMA NotifierLowersRank ==
  ASSUME TypeOK, ScanInv, gQuitFlag, ChangeLightRepresentation
  PROVE  NotifierRank' < NotifierRank
<1> USE LightServerConstants DEF NotifierGoto
<1>1. scan \in Nat /\ scan <= MaxObservations /\ (notifier = "take" => scan < MaxObservations)
  BY DEF TypeOK, ScanInv
<1>2. CASE NotifierLoopTest
  BY <1>2 DEF NotifierLoopTest, NotifierRank
<1>3. CASE NotifierWake
  BY <1>3 DEF NotifierWake, NotifierRank
<1>4. CASE NotifierScan
  BY <1>1, <1>4 DEF NotifierScan, NotifierRank
<1>5. CASE NotifierTake
  BY <1>1, <1>5 DEF NotifierTake, NotifierRank
<1>6. CASE NotifierSend \/ NotifierNoObservers
  BY <1>6 DEF NotifierSend, NotifierNoObservers, NotifierRank
<1>7. CASE NotifierNotifyAll
  BY <1>7 DEF NotifierNotifyAll, OCNotifyAllObservers, NotifierRank
<1>8. CASE NotifierCancelled
  BY <1>8 DEF NotifierCancelled, NotifierRank
<1> QED
  BY <1>2, <1>3, <1>4, <1>5, <1>6, <1>7, <1>8 DEF ChangeLightRepresentation

\* Every step of the presence thread lowers its rank, told to quit or not.
LEMMA PresenceLowersRank ==
  ASSUME TypeOK, PresenceInv, presenceNotificationGenerator
  PROVE  PresenceRank' < PresenceRank
<1> USE DEF PresenceGoto, NumPresence
<1>1. pIdx \in Nat /\ (presence \in {"create", "delete"} => pIdx < 2)
  BY DEF TypeOK, PresenceInv
<1>2. CASE PresenceSleep
  BY <1>2 DEF PresenceSleep, PresenceRank
<1>3. CASE PresenceCreate
  BY <1>1, <1>3 DEF PresenceCreate, PresenceRank
<1>4. CASE PresenceDelete
  BY <1>1, <1>4 DEF PresenceDelete, PresenceRank
<1>5. CASE PresenceStop
  BY <1>5 DEF PresenceStop, PresenceRank
<1>6. CASE PresenceCancelled
  BY <1>1, <1>6 DEF PresenceCancelled, PresenceRank
<1> QED BY <1>2, <1>3, <1>4, <1>5, <1>6 DEF presenceNotificationGenerator

\* No behaviour takes more steps after SIGINT than the rank has at that moment: each step
\* lowers it, and it is a natural number.
THEOREM ShutdownBounded == Spec => ShutdownAdvances /\ [](ShutdownRank \in Nat)
<1> DEFINE Ranked == MainRank \in Nat /\ NotifierRank \in Nat /\ PresenceRank \in Nat
<1>1. TypeOK /\ ScanInv /\ PresenceInv => Ranked
  BY RanksAreNatural
<1>2. Ranked => ShutdownRank \in Nat
  BY DEF ShutdownRank
<1>3. TypeOK /\ ScanInv /\ PresenceInv /\ JoinInv /\ Ranked /\ Ranked' /\ [Next]_vars
      => [gQuitFlag => ShutdownRank' < ShutdownRank]_vars
  <2> SUFFICES ASSUME TypeOK, ScanInv, PresenceInv, JoinInv, Ranked, Ranked',
                      [Next]_vars, ~UNCHANGED vars, gQuitFlag
               PROVE  ShutdownRank' < ShutdownRank
    OBVIOUS
  <2>1. CASE Main
    BY <2>1, MainLowersRank, PairDrops, Zenon DEF ShutdownRank
  <2>2. CASE handleSigInt
    BY <2>2 DEF handleSigInt
  <2>3. CASE ChangeLightRepresentation
    <3>1. MainRank' = MainRank /\ PresenceRank' = PresenceRank
      BY <2>3, NotifierFrame DEF MainRank, PresenceRank
    <3> QED BY <2>3, <3>1, NotifierLowersRank, SumDrops, Zenon DEF ShutdownRank
  <2>4. CASE presenceNotificationGenerator
    <3>1. MainRank' = MainRank /\ NotifierRank' = NotifierRank
      BY <2>4, PresenceFrame DEF MainRank, NotifierRank
    <3> QED BY <2>4, <3>1, PresenceLowersRank, SumDrops, Zenon DEF ShutdownRank
  <2> QED BY <2>1, <2>2, <2>3, <2>4, StepCases
<1> HIDE DEF Ranked
<1> QED
  BY <1>1, <1>2, <1>3, TypeCorrect, ScanCorrect, PresenceCorrect, JoinCorrect, PTL
     DEF ShutdownAdvances, Spec

\* Whatever main joins is over or has a step left to take.
THEOREM JoinsEndAlways == Spec => []JoinsEnd
<1>1. TypeOK /\ ScanInv /\ PresenceInv /\ JoinInv => JoinsEnd
  <2> SUFFICES ASSUME TypeOK, ScanInv, PresenceInv, JoinInv PROVE JoinsEnd
    OBVIOUS
  <2>1. main = "joinObserve" => notifier = "exit" \/ NotifierRank > 0
    BY LightServerConstants DEF TypeOK, ScanInv, JoinInv, NotifierRank
  <2>2. main = "joinPresence" => presence = "exit" \/ PresenceRank > 0
    BY DEF TypeOK, PresenceInv, PresenceRank, NumPresence
  <2> QED BY <2>1, <2>2 DEF JoinsEnd
<1> QED BY <1>1, TypeCorrect, ScanCorrect, PresenceCorrect, JoinCorrect, PTL
=============================================================================
