------------------------- MODULE LightServerProofs -------------------------
(***************************************************************************)
(* Proofs about LightServer for every number of slots and instances, every *)
(* set of observation ids and both kinds of notification.                  *)
(***************************************************************************)
EXTENDS LightServer, TLAPS

-----------------------------------------------------------------------------
(* Frames: what the steps of one thread leave alone.                       *)

\* A step of the notifier writes nothing of main's, of the stack's and of the presence
\* thread's; of the server's globals, only the flag.
LEMMA NotifierFrame ==
  ASSUME ChangeLightRepresentation
  PROVE  /\ UNCHANGED <<gQuitFlag, interestedObservers, observeThreadStarted,
                        gCurrLightInstance, dropped, resources, stackObs>>
         /\ UNCHANGED <<main, slot, still, cancelled>>
         /\ UNCHANGED <<presence, pIdx, pRes, pHandles, pLive>>
BY DEF ChangeLightRepresentation, NotifierLoopTest, NotifierWake, NotifierScan, NotifierTake,
       NotifierSend, NotifierNotifyAll, NotifierNoObservers, NotifierCancelled,
       notifierFrame, stackVars, mainVars, presenceVars

\* A step of the presence thread writes its own variables only.
LEMMA PresenceFrame ==
  ASSUME presenceNotificationGenerator
  PROVE  /\ UNCHANGED <<gQuitFlag, interestedObservers, gLightUnderObservation,
                        observeThreadStarted, gCurrLightInstance, dropped, resources, stackObs>>
         /\ UNCHANGED <<main, slot, still, cancelled>>
         /\ UNCHANGED <<notifier, scan, obsNotify, told, roundIds>>
BY DEF presenceNotificationGenerator, PresenceSleep, PresenceCreate, PresenceDelete,
       PresenceStop, PresenceCancelled, presenceFrame, serverVars, stackVars, mainVars,
       notifierVars

\* Main and the signal handler leave the two other threads alone, but for the first
\* registration, which starts the notifier.
LEMMA MainFrame ==
  ASSUME Main \/ handleSigInt
  PROVE  /\ UNCHANGED <<scan, obsNotify, told>>
         /\ UNCHANGED <<presence, pIdx, pRes, pHandles, pLive>>
         /\ \/ notifier' = notifier
            \/ ~observeThreadStarted /\ notifier' = "loop"
BY DEF Main, handleSigInt, LoopTest, ProcessNothing, ProcessFails, OCEntityHandlerCb,
       ProcessPostRequest, ProcessDeleteRequest, ProcessObserveRegister, RegisterValid,
       RegisterFlag, ProcessObserveDeregister, DeregisterFlag, JoinObserve, JoinPresence,
       notifierVars, presenceVars

\* A step of the system is one of these.
LEMMA StepCases ==
  ASSUME [Next]_vars
  PROVE  \/ Main \/ handleSigInt
         \/ ChangeLightRepresentation
         \/ presenceNotificationGenerator
         \/ UNCHANGED vars
BY DEF Next, Terminated

-----------------------------------------------------------------------------
\* Every variable keeps its type.
THEOREM TypeCorrect == Spec => []TypeOK
<1>1. Init => TypeOK
  <2> SUFFICES ASSUME Init PROVE TypeOK
    OBVIOUS
  <2>1. interestedObservers \in [Slots -> [observationId : ObsIds \cup {NoId}, valid : BOOLEAN,
                                          resourceHandle : Handles \cup {NULL}]]
    BY DEF Init, EmptySlot
  <2>2. presence \in {"warmup", "create", "linger", "delete", "stop", "exit"}
    BY DEF Init
  <2>3. /\ gCurrLightInstance \in 0 .. MaxInstances
        /\ resources \subseteq Handles
        /\ stackObs \in [ObsIds -> Handles \cup {NULL}]
    BY LightServerConstants DEF Init, Handles
  <2>4. /\ slot \in Nat /\ cancelled \subseteq {"notifier", "presence"}
        /\ notifier = "none" /\ scan \in Nat /\ obsNotify \in Seq(ObsIds \cup {NoId})
        /\ pIdx \in Nat /\ main = "test"
    BY DEF Init
  <2>5. /\ told = {} /\ pHandles = {} /\ pLive = {} /\ dropped = {} /\ roundIds = {}
    BY DEF Init
  <2>6. /\ gQuitFlag \in BOOLEAN /\ gLightUnderObservation \in BOOLEAN
        /\ observeThreadStarted \in BOOLEAN /\ still \in BOOLEAN /\ pRes \in BOOLEAN
    BY DEF Init
  <2> QED BY <2>1, <2>2, <2>3, <2>4, <2>5, <2>6 DEF TypeOK
<1>2. TypeOK /\ [Next]_vars => TypeOK'
  <2> SUFFICES ASSUME TypeOK, [Next]_vars PROVE TypeOK'
    OBVIOUS
  <2> USE DEF TypeOK
  <2>1. CASE LoopTest
    <3>1. /\ main' \in {"process", "joinObserve", "joinPresence"}
          /\ cancelled' \subseteq {"notifier", "presence"}
      BY <2>1 DEF LoopTest
    <3> QED BY <3>1, <2>1 DEF LoopTest, serverVars, stackVars, notifierVars, presenceVars
  <2>2. CASE ProcessNothing
    BY <2>2 DEF ProcessNothing, serverVars, stackVars, notifierVars, presenceVars
  <2>3. CASE ProcessFails
    BY <2>3 DEF ProcessFails, serverVars, stackVars, notifierVars, presenceVars
  <2>4. CASE ProcessPostRequest
    BY <2>4, LightServerConstants
       DEF ProcessPostRequest, notifierVars, presenceVars, Handles, Instances
  <2>5. CASE ProcessDeleteRequest
    BY <2>5 DEF ProcessDeleteRequest, ClearedSlot, EmptySlot, notifierVars, presenceVars
  <2>6. ASSUME NEW id \in ObsIds, NEW h \in Handles, ProcessObserveRegister(id, h)
        PROVE  TypeOK'
    <3>1. interestedObservers' \in [Slots -> [observationId : ObsIds \cup {NoId},
                                    valid : BOOLEAN, resourceHandle : Handles \cup {NULL}]]
      BY <2>6 DEF ProcessObserveRegister
    <3>2. stackObs' \in [ObsIds -> Handles \cup {NULL}]
      BY <2>6 DEF ProcessObserveRegister
    <3>3. slot' \in Nat /\ main' \in {"test", "regValid"} /\ dropped' \subseteq ObsIds
      BY <2>6, LightServerConstants DEF ProcessObserveRegister, Slots
    <3>4. /\ notifier' \in {"none", "loop", "sleep", "scan", "take", "send",
                           "notifyAll", "noObservers", "exit"}
          /\ roundIds' \subseteq ObsIds \cup {NoId}
      BY <2>6 DEF ProcessObserveRegister
    <3> QED BY <2>6, <3>1, <3>2, <3>3, <3>4 DEF ProcessObserveRegister, presenceVars
  <2>7. CASE RegisterValid
    <3>1. interestedObservers' \in [Slots -> [observationId : ObsIds \cup {NoId},
                                    valid : BOOLEAN, resourceHandle : Handles \cup {NULL}]]
      BY <2>7 DEF RegisterValid
    <3> QED BY <3>1, <2>7 DEF RegisterValid, stackVars, notifierVars, presenceVars
  <2>8. CASE RegisterFlag
    BY <2>8 DEF RegisterFlag, stackVars, notifierVars, presenceVars
  <2>9. ASSUME NEW id \in ObsIds, ProcessObserveDeregister(id)
        PROVE  TypeOK'
    <3>1. interestedObservers' \in [Slots -> [observationId : ObsIds \cup {NoId},
                                    valid : BOOLEAN, resourceHandle : Handles \cup {NULL}]]
      <4>1. interestedObservers' =
              [i \in Slots |-> [interestedObservers[i] EXCEPT
                                  !.valid = @ /\ interestedObservers[i].observationId # id]]
        BY <2>9 DEF ProcessObserveDeregister
      <4>2. \A i \in Slots :
              [interestedObservers[i] EXCEPT
                 !.valid = @ /\ interestedObservers[i].observationId # id]
                \in [observationId : ObsIds \cup {NoId}, valid : BOOLEAN,
                     resourceHandle : Handles \cup {NULL}]
        OBVIOUS
      <4> QED BY ONLY <4>1, <4>2
    <3>2. stackObs' \in [ObsIds -> Handles \cup {NULL}]
      BY <2>9 DEF ProcessObserveDeregister
    <3>3. still' \in BOOLEAN /\ dropped' \subseteq ObsIds /\ main' = "deregFlag"
      BY <2>9 DEF ProcessObserveDeregister
    <3> QED BY <2>9, <3>1, <3>2, <3>3 DEF ProcessObserveDeregister, notifierVars, presenceVars
  <2>10. CASE DeregisterFlag
    BY <2>10 DEF DeregisterFlag, stackVars, notifierVars, presenceVars
  <2>11. CASE JoinObserve
    BY <2>11 DEF JoinObserve, serverVars, stackVars, notifierVars, presenceVars
  <2>12. CASE JoinPresence
    BY <2>12 DEF JoinPresence, serverVars, stackVars, notifierVars, presenceVars
  <2>13. CASE handleSigInt
    BY <2>13 DEF handleSigInt, serverVars, stackVars, mainVars, notifierVars, presenceVars
  <2>14. CASE ChangeLightRepresentation
    <3> SUFFICES
          /\ gLightUnderObservation' \in BOOLEAN
          /\ notifier' \in {"none", "loop", "sleep", "scan", "take", "send",
                            "notifyAll", "noObservers", "exit"}
          /\ scan' \in Nat /\ (notifier' = "take" => scan' \in Slots)
          /\ obsNotify' \in Seq(ObsIds \cup {NoId})
          /\ told' \subseteq ObsIds /\ roundIds' \subseteq ObsIds \cup {NoId}
      <4>1. /\ gQuitFlag' \in BOOLEAN
            /\ interestedObservers' \in [Slots -> [observationId : ObsIds \cup {NoId},
                                      valid : BOOLEAN, resourceHandle : Handles \cup {NULL}]]
            /\ observeThreadStarted' \in BOOLEAN /\ gCurrLightInstance' \in 0 .. MaxInstances
            /\ resources' \subseteq Handles /\ stackObs' \in [ObsIds -> Handles \cup {NULL}]
            /\ dropped' \subseteq ObsIds
        BY <2>14, NotifierFrame
      <4>2. /\ main' \in {"test", "process", "regValid", "regFlag", "deregFlag",
                         "joinObserve", "joinPresence", "stopped", "aborted"}
            /\ slot' \in Nat /\ still' \in BOOLEAN /\ cancelled' \subseteq {"notifier", "presence"}
        BY <2>14, NotifierFrame
      <4>3. /\ presence' \in {"warmup", "create", "linger", "delete", "stop", "exit"}
            /\ pIdx' \in Nat /\ pRes' \in BOOLEAN
            /\ pHandles' \subseteq Nat /\ pLive' \subseteq Nat
        BY <2>14, NotifierFrame
      <4> QED BY <4>1, <4>2, <4>3
    <3> USE DEF NotifierGoto
    <3>1. CASE NotifierLoopTest BY <3>1 DEF NotifierLoopTest
    <3>2. CASE NotifierWake
      <4>1. Registered \cup TrackedIds \subseteq ObsIds \cup {NoId}
        BY DEF Registered, TrackedIds, ValidSlots
      <4> QED BY <4>1, <3>2 DEF NotifierWake
    <3>3. CASE NotifierScan
      BY <3>3, LightServerConstants DEF NotifierScan, Slots
    <3>4. CASE NotifierTake
      <4>1. interestedObservers[scan].observationId \in ObsIds \cup {NoId}
        BY <3>4 DEF NotifierTake
      <4> QED BY <4>1, <3>4 DEF NotifierTake
    <3>5. CASE NotifierSend
      BY <3>5 DEF NotifierSend, OCNotifyListOfObservers, ObserversOf
    <3>6. CASE NotifierNotifyAll
      BY <3>6 DEF NotifierNotifyAll, OCNotifyAllObservers, ObserversOf
    <3>7. CASE NotifierNoObservers BY <3>7 DEF NotifierNoObservers
    <3>8. CASE NotifierCancelled BY <3>8 DEF NotifierCancelled
    <3> QED
      BY <2>14, <3>1, <3>2, <3>3, <3>4, <3>5, <3>6, <3>7, <3>8 DEF ChangeLightRepresentation
  <2>15. CASE presenceNotificationGenerator
    <3> SUFFICES
          /\ presence' \in {"warmup", "create", "linger", "delete", "stop", "exit"}
          /\ pIdx' \in Nat /\ pRes' \in BOOLEAN
          /\ pHandles' \subseteq Nat /\ pLive' \subseteq Nat
      <4>1. /\ gQuitFlag' \in BOOLEAN /\ gLightUnderObservation' \in BOOLEAN
            /\ interestedObservers' \in [Slots -> [observationId : ObsIds \cup {NoId},
                                      valid : BOOLEAN, resourceHandle : Handles \cup {NULL}]]
            /\ observeThreadStarted' \in BOOLEAN /\ gCurrLightInstance' \in 0 .. MaxInstances
            /\ resources' \subseteq Handles /\ stackObs' \in [ObsIds -> Handles \cup {NULL}]
            /\ dropped' \subseteq ObsIds
        BY <2>15, PresenceFrame
      <4>2. /\ main' \in {"test", "process", "regValid", "regFlag", "deregFlag",
                         "joinObserve", "joinPresence", "stopped", "aborted"}
            /\ slot' \in Nat /\ still' \in BOOLEAN /\ cancelled' \subseteq {"notifier", "presence"}
        BY <2>15, PresenceFrame
      <4>3. /\ notifier' \in {"none", "loop", "sleep", "scan", "take", "send",
                             "notifyAll", "noObservers", "exit"}
            /\ scan' \in Nat /\ (notifier' = "take" => scan' \in Slots)
            /\ obsNotify' \in Seq(ObsIds \cup {NoId})
            /\ told' \subseteq ObsIds /\ roundIds' \subseteq ObsIds \cup {NoId}
        BY <2>15, PresenceFrame
      <4> QED BY <4>1, <4>2, <4>3
    <3> USE DEF PresenceGoto
    <3>1. CASE PresenceSleep BY <3>1 DEF PresenceSleep
    <3>2. CASE PresenceCreate
      <4>1. pRes' \in BOOLEAN
        BY <3>2 DEF PresenceCreate
      <4>2. /\ presence' \in {"create", "linger"}
            /\ pHandles' \subseteq Nat /\ pLive' \subseteq Nat
        BY <3>2 DEF PresenceCreate
      <4>3. pIdx' \in Nat
        BY <3>2 DEF PresenceCreate
      <4> QED BY <4>1, <4>2, <4>3
    <3>3. CASE PresenceDelete
      <4>1. pRes' \in BOOLEAN
        BY <3>3 DEF PresenceDelete
      <4>2. /\ presence' \in {"delete", "stop"}
            /\ pHandles' \subseteq Nat /\ pLive' \subseteq Nat
        BY <3>3 DEF PresenceDelete
      <4>3. pIdx' \in Nat
        BY <3>3 DEF PresenceDelete
      <4> QED BY <4>1, <4>2, <4>3
    <3>4. CASE PresenceStop BY <3>4 DEF PresenceStop
    <3>5. CASE PresenceCancelled BY <3>5 DEF PresenceCancelled
    <3> QED
      BY <2>15, <3>1, <3>2, <3>3, <3>4, <3>5 DEF presenceNotificationGenerator
  <2>16. CASE UNCHANGED vars
    BY <2>16 DEF vars, serverVars, stackVars, mainVars, notifierVars, presenceVars
  <2> QED
    BY <2>1, <2>2, <2>3, <2>4, <2>5, <2>6, <2>7, <2>8, <2>9, <2>10, <2>11, <2>12, <2>13,
       <2>14, <2>15, <2>16
       DEF Next, Main, OCEntityHandlerCb, Terminated
<1> QED BY <1>1, <1>2, PTL DEF Spec

-----------------------------------------------------------------------------
(* Arithmetic of the scan.                                                 *)

\* From one even number below another, two more do not pass it.
LEMMA EvenGap ==
  ASSUME NEW a \in Nat, NEW b \in Nat, a % 2 = 0, b % 2 = 0, a < b
  PROVE  a + 2 <= b /\ (a + 2) % 2 = 0
OBVIOUS

\* Half of an even bound, met or not.
LEMMA HalfBound ==
  ASSUME NEW a \in Nat, NEW b \in Nat, b % 2 = 0, 2 * a <= b
  PROVE  a <= b \div 2 /\ (2 * a < b => a < b \div 2)
OBVIOUS

-----------------------------------------------------------------------------
\* The notifier's scan stays on even slots and takes at most one id per two slots.
THEOREM ScanCorrect == Spec => []ScanInv
<1>1. Init => ScanInv
  BY LightServerConstants DEF Init, ScanInv
<1>2. TypeOK /\ ScanInv /\ [Next]_vars => ScanInv'
  <2> SUFFICES ASSUME TypeOK, ScanInv, [Next]_vars PROVE ScanInv'
    OBVIOUS
  <2>1. CASE Main \/ handleSigInt
    BY <2>1, MainFrame DEF ScanInv
  <2>2. CASE ChangeLightRepresentation
    <3> USE LightServerConstants DEF NotifierGoto, ScanInv, TypeOK
    <3>1. CASE NotifierLoopTest BY <3>1 DEF NotifierLoopTest
    <3>2. CASE NotifierWake BY <3>2 DEF NotifierWake
    <3>3. CASE NotifierScan BY <3>3 DEF NotifierScan
    <3>4. CASE NotifierTake
      <4>1. Len(obsNotify) \in Nat /\ Len(obsNotify') = Len(obsNotify) + 1
        BY <3>4 DEF NotifierTake
      <4>2. scan' <= MaxObservations /\ scan' % 2 = 0 /\ scan' = scan + 2
        BY <3>4, EvenGap DEF NotifierTake
      <4>3. notifier' = "scan" /\ NotifyType = 1
        BY <3>4 DEF NotifierTake
      <4> QED BY <4>1, <4>2, <4>3
    <3>5. CASE NotifierSend BY <3>5 DEF NotifierSend
    <3>6. CASE NotifierNotifyAll BY <3>6 DEF NotifierNotifyAll, OCNotifyAllObservers
    <3>7. CASE NotifierNoObservers BY <3>7 DEF NotifierNoObservers
    <3>8. CASE NotifierCancelled BY <3>8 DEF NotifierCancelled
    <3> QED
      BY <2>2, <3>1, <3>2, <3>3, <3>4, <3>5, <3>6, <3>7, <3>8 DEF ChangeLightRepresentation
  <2>3. CASE presenceNotificationGenerator
    BY <2>3, PresenceFrame DEF ScanInv
  <2>4. CASE UNCHANGED vars
    BY <2>4 DEF vars, notifierVars, ScanInv
  <2> QED BY <2>1, <2>2, <2>3, <2>4, StepCases
<1> QED BY <1>1, <1>2, TypeCorrect, PTL DEF Spec

\* The list of ids handed to OCNotifyListOfObservers never exceeds its array.
THEOREM NotifyListFitsAlways == Spec => []NotifyListFits
<1>1. TypeOK /\ ScanInv => NotifyListFits
  <2> SUFFICES ASSUME TypeOK, ScanInv PROVE NotifyListFits
    OBVIOUS
  <2>1. /\ Len(obsNotify) \in Nat /\ 2 * Len(obsNotify) <= MaxObservations
        /\ notifier = "take" => 2 * Len(obsNotify) < MaxObservations
    BY LightServerConstants DEF TypeOK, ScanInv
  <2> QED BY <2>1, HalfBound, LightServerConstants DEF NotifyListFits
<1> QED BY <1>1, TypeCorrect, ScanCorrect, PTL

-----------------------------------------------------------------------------
\* Each thread main has stopped waiting for is over, so that nothing calls the stack
\* once OCStop is called.
THEOREM JoinCorrect == Spec => []JoinInv
<1>1. Init => JoinInv
  BY DEF Init, JoinInv, QuietAfterStop
<1>2. TypeOK /\ JoinInv /\ [Next]_vars => JoinInv'
  <2> SUFFICES ASSUME TypeOK, JoinInv, [Next]_vars PROVE JoinInv'
    OBVIOUS
  <2> USE DEF JoinInv, QuietAfterStop
  <2>1. CASE LoopTest
    BY <2>1 DEF LoopTest, serverVars, notifierVars, presenceVars
  <2>2. CASE ProcessNothing \/ ProcessFails
    BY <2>2 DEF ProcessNothing, ProcessFails, serverVars, notifierVars, presenceVars
  <2>3. CASE ProcessPostRequest \/ ProcessDeleteRequest
    BY <2>3 DEF ProcessPostRequest, ProcessDeleteRequest, notifierVars, presenceVars
  <2>4. ASSUME NEW id \in ObsIds, NEW h \in Handles, ProcessObserveRegister(id, h)
        PROVE  JoinInv'
    BY <2>4 DEF ProcessObserveRegister, presenceVars, TypeOK
  <2>5. CASE RegisterValid \/ RegisterFlag \/ DeregisterFlag
    BY <2>5 DEF RegisterValid, RegisterFlag, DeregisterFlag, notifierVars, presenceVars
  <2>6. ASSUME NEW id \in ObsIds, ProcessObserveDeregister(id) PROVE JoinInv'
    BY <2>6 DEF ProcessObserveDeregister, notifierVars, presenceVars
  <2>7. CASE JoinObserve
    BY <2>7 DEF JoinObserve, serverVars, notifierVars, presenceVars
  <2>8. CASE JoinPresence
    BY <2>8 DEF JoinPresence, serverVars, notifierVars, presenceVars
  <2>9. CASE handleSigInt
    BY <2>9 DEF handleSigInt, serverVars, mainVars, notifierVars, presenceVars
  <2>10. CASE ChangeLightRepresentation
    <3>1. Alive /\ notifier \notin {"none", "exit"} /\ notifier' # "none"
      BY <2>10
         DEF ChangeLightRepresentation, NotifierGoto, NotifierLoopTest, NotifierWake,
             NotifierScan, NotifierTake, NotifierSend, NotifierNotifyAll,
             OCNotifyAllObservers, NotifierNoObservers, NotifierCancelled
    <3> QED BY <3>1, <2>10, NotifierFrame DEF Alive
  <2>11. CASE presenceNotificationGenerator
    <3>1. Alive
      BY <2>11
         DEF presenceNotificationGenerator, PresenceGoto, PresenceSleep, PresenceCreate,
             PresenceDelete, PresenceStop, PresenceCancelled
    <3> QED BY <3>1, <2>11, PresenceFrame DEF Alive
  <2>12. CASE UNCHANGED vars
    BY <2>12 DEF vars, serverVars, mainVars, notifierVars, presenceVars
  <2> QED
    BY <2>1, <2>2, <2>3, <2>4, <2>5, <2>6, <2>7, <2>8, <2>9, <2>10, <2>11, <2>12, StepCases
       DEF Main, OCEntityHandlerCb
<1> QED BY <1>1, <1>2, TypeCorrect, PTL DEF Spec

\* OCStop is called only when neither thread can call the stack any more.
THEOREM QuietAfterStopAlways == Spec => []QuietAfterStop
BY JoinCorrect, PTL DEF JoinInv
=============================================================================
