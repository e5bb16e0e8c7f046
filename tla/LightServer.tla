---------------------------- MODULE LightServer ----------------------------
(***************************************************************************)
(* The light server of examples/SimpleClientServer/ocserver.cpp: the table *)
(* of observers, the notifier thread that reads it without a lock while    *)
(* the main thread's entity handler writes it, the presence thread, and    *)
(* the shutdown that joins both threads before it stops the stack.         *)
(*                                                                         *)
(* Main thread, notifier and presence thread take interleaved steps; a     *)
(* step ends wherever another thread could see a difference.  The power,   *)
(* state and URI of the lights are the subject of LightResources.     *)
(***************************************************************************)
EXTENDS Naturals, Sequences, FiniteSets

CONSTANTS
  MaxObservations,   \* SAMPLE_MAX_NUM_OBSERVATIONS, 8 in ocserver.h
  MaxInstances,      \* SAMPLE_MAX_NUM_POST_INSTANCE, 2 in ocserver.h
  NotifyType,        \* gObserveNotifyType: 0 all observers, 1 a list of them
  WithPresence,      \* WITH_PRESENCE of the build: whether there is a presence thread
  ObsIds,            \* observation ids the stack may hand out
  NoId               \* content of a slot's observationId before its first use

\* obsNotify has room for MaxObservations / 2 ids, which is enough only when
\* the number of slots is even; main refuses any other notification type.
ASSUME LightServerConstants ==
  /\ MaxObservations \in Nat /\ MaxObservations % 2 = 0
  /\ MaxInstances \in Nat
  /\ NotifyType \in {0, 1}
  /\ WithPresence \in BOOLEAN
  /\ NoId \notin ObsIds

NULL == 0
LightHandle == 1
InstanceHandle(k) == k + 2
Slots == 0 .. MaxObservations - 1
Instances == 0 .. MaxInstances - 1
Handles == {LightHandle} \cup {InstanceHandle(k) : k \in Instances}
NumPresence == 2

VARIABLES
  gQuitFlag,
  gLightUnderObservation,
  interestedObservers,   \* slot -> [observationId, valid, resourceHandle]
  observeThreadStarted,
  gCurrLightInstance,
  \* the stack, seen from this program
  resources,             \* handles of the resources that exist
  stackObs,              \* observation id -> handle observed, or NULL
  \* main thread
  main, slot, still,
  cancelled,             \* threads pthread_cancel was called for
  \* notifier thread (ChangeLightRepresentation)
  notifier, scan, obsNotify,
  told,                  \* observers the latest notification went out to
  \* presence thread
  presence, pIdx, pRes, pHandles, pLive,
  \* history
  dropped,               \* observers registered while the table was full
  roundIds               \* ids registered, or in a slot, at some time in this notifier round

serverVars == <<interestedObservers, gLightUnderObservation, observeThreadStarted,
                gCurrLightInstance, dropped>>
stackVars == <<resources, stackObs>>
mainVars == <<main, slot, still, cancelled>>
notifierVars == <<notifier, scan, obsNotify, told, roundIds>>
presenceVars == <<presence, pIdx, pRes, pHandles, pLive>>
vars == <<gQuitFlag, serverVars, stackVars, mainVars, notifierVars, presenceVars>>

EmptySlot == [observationId |-> NoId, valid |-> FALSE, resourceHandle |-> NULL]

Init ==
  /\ gQuitFlag = FALSE
  /\ gLightUnderObservation = FALSE
  /\ interestedObservers = [i \in Slots |-> EmptySlot]
  /\ observeThreadStarted = FALSE
  /\ gCurrLightInstance = 0
  /\ resources = {LightHandle}
  /\ stackObs = [id \in ObsIds |-> NULL]
  /\ main = "test" /\ slot = 0 /\ still = FALSE /\ cancelled = {}
  /\ notifier = "none" /\ scan = 0 /\ obsNotify = <<>> /\ told = {}
  \* without a presence thread there is nothing for pthread_join to wait for
  /\ presence = (IF WithPresence THEN "warmup" ELSE "exit")
  /\ pIdx = 0 /\ pRes = TRUE /\ pHandles = {} /\ pLive = {}
  /\ dropped = {} /\ roundIds = {}

\* The process is up: main has neither returned nor failed.
Alive == main \notin {"stopped", "aborted"}

ValidSlots == {i \in Slots : interestedObservers[i].valid}
TrackedIds == {interestedObservers[i].observationId : i \in ValidSlots}
Registered == {id \in ObsIds : stackObs[id] # NULL}
ObserversOf(h) == {id \in ObsIds : stackObs[id] = h}

-----------------------------------------------------------------------------
(* Main thread: the OCProcess loop and the entity handler it calls.        *)

\* Mutant: the notifier is joined although no observer ever started it.
LoopTest_JoinsUnstarted ==
  /\ main = "test"
  /\ main' = IF gQuitFlag THEN "joinObserve" ELSE "process"
  /\ cancelled' = IF gQuitFlag THEN cancelled \cup {"notifier"} ELSE cancelled
  /\ UNCHANGED <<gQuitFlag, serverVars, stackVars, slot, still, notifierVars, presenceVars>>

\* while (!gQuitFlag); on the way out the notifier is cancelled if it was started.
LoopTest ==
  /\ main = "test"
  /\ \/ /\ ~gQuitFlag
        /\ main' = "process"
        /\ UNCHANGED cancelled
     \/ /\ gQuitFlag
        /\ observeThreadStarted
        /\ main' = "joinObserve"
        /\ cancelled' = cancelled \cup {"notifier"}
     \/ /\ gQuitFlag
        /\ ~observeThreadStarted
        /\ main' = "joinPresence"
        /\ cancelled' = cancelled \cup {"presence"}
  /\ UNCHANGED <<gQuitFlag, serverVars, stackVars, slot, still, notifierVars, presenceVars>>

\* OCProcess found no request for this program.
ProcessNothing ==
  /\ main = "process"
  /\ main' = "test"
  /\ UNCHANGED <<gQuitFlag, serverVars, stackVars, slot, still, cancelled,
                 notifierVars, presenceVars>>

\* OCProcess failed: main returns at once, and the process with all its threads ends.
ProcessFails ==
  /\ main = "process"
  /\ main' = "aborted"
  /\ UNCHANGED <<gQuitFlag, serverVars, stackVars, slot, still, cancelled,
                 notifierVars, presenceVars>>

\* Mutant: the limit of instances is off by one.
ProcessPostRequest_OneTooMany ==
  /\ main = "process"
  /\ LightHandle \in resources
  /\ gCurrLightInstance <= MaxInstances
  /\ gCurrLightInstance' = gCurrLightInstance + 1
  /\ main' = "test"
  /\ UNCHANGED <<gQuitFlag, interestedObservers, gLightUnderObservation,
                 observeThreadStarted, dropped, stackVars, slot, still, cancelled,
                 notifierVars, presenceVars>>

\* POST on /a/light: the instance is counted, and announced to the client, whether or
\* not OCCreateResource made it (createLightResource returns 0 in both cases).
ProcessPostRequest ==
  /\ main = "process"
  /\ LightHandle \in resources
  /\ gCurrLightInstance < MaxInstances
  /\ gCurrLightInstance' = gCurrLightInstance + 1
  /\ \/ resources' = resources \cup {InstanceHandle(gCurrLightInstance)}
     \/ UNCHANGED resources
  /\ main' = "test"
  /\ UNCHANGED <<gQuitFlag, interestedObservers, gLightUnderObservation,
                 observeThreadStarted, dropped, stackObs, slot, still, cancelled,
                 notifierVars, presenceVars>>

\* What step 2 of the handler leaves of slot i when the resource h is deleted.
ClearedSlot(i, h) ==
  IF interestedObservers[i].resourceHandle = h THEN EmptySlot ELSE interestedObservers[i]

\* DELETE of /a/light; on any other resource it is forbidden.  The stack forgets the
\* resource and its observers without calling the handler for them.
ProcessDeleteRequest ==
  /\ main = "process"
  /\ LightHandle \in resources
  /\ resources' = resources \ {LightHandle}
  /\ stackObs' = [id \in ObsIds |-> IF stackObs[id] = LightHandle THEN NULL ELSE stackObs[id]]
  /\ interestedObservers' = [i \in Slots |-> ClearedSlot(i, LightHandle)]
  /\ dropped' = dropped \ ObserversOf(LightHandle)
  /\ main' = "test"
  /\ UNCHANGED <<gQuitFlag, gLightUnderObservation, observeThreadStarted,
                 gCurrLightInstance, slot, still, cancelled, notifierVars, presenceVars>>

FirstFree(i) == /\ ~interestedObservers[i].valid
                /\ \A k \in Slots : k < i => interestedObservers[k].valid

\* The stack accepted observer id of resource h and calls the handler.  The first
\* registration starts the notifier; a full table forgets the observer silently.
ProcessObserveRegister(id, h) ==
  /\ main = "process"
  /\ h \in resources
  /\ stackObs[id] = NULL
  /\ stackObs' = [stackObs EXCEPT ![id] = h]
  /\ observeThreadStarted' = TRUE
  /\ notifier' = IF observeThreadStarted THEN notifier ELSE "loop"
  /\ roundIds' = roundIds \cup {id}
  /\ \/ /\ ValidSlots = Slots
        /\ main' = "test"
        /\ dropped' = dropped \cup {id}
        /\ UNCHANGED <<interestedObservers, slot>>
     \/ \E i \in Slots :
          /\ FirstFree(i)
          /\ interestedObservers' = [interestedObservers EXCEPT ![i].observationId = id]
          /\ slot' = i
          /\ main' = "regValid"
          /\ UNCHANGED dropped
  /\ UNCHANGED <<gQuitFlag, gLightUnderObservation, gCurrLightInstance, resources, still,
                 cancelled, scan, obsNotify, told, presenceVars>>

RegisterValid ==
  /\ main = "regValid"
  /\ interestedObservers' = [interestedObservers EXCEPT ![slot].valid = TRUE]
  /\ main' = "regFlag"
  /\ UNCHANGED <<gQuitFlag, gLightUnderObservation, observeThreadStarted,
                 gCurrLightInstance, dropped, stackVars, slot, still, cancelled,
                 notifierVars, presenceVars>>

RegisterFlag ==
  /\ main = "regFlag"
  /\ gLightUnderObservation' = TRUE
  /\ main' = "test"
  /\ UNCHANGED <<gQuitFlag, interestedObservers, observeThreadStarted,
                 gCurrLightInstance, dropped, stackVars, slot, still, cancelled,
                 notifierVars, presenceVars>>

\* Mutant: the loop ends at the first slot of a client that still observes.
ProcessObserveDeregister_StopsEarly(id) ==
  /\ main = "process"
  /\ stackObs[id] # NULL
  /\ stackObs' = [stackObs EXCEPT ![id] = NULL]
  /\ interestedObservers' =
       [i \in Slots |-> [interestedObservers[i] EXCEPT
          !.valid = @ /\ (\/ interestedObservers[i].observationId # id
                         \/ \E k \in ValidSlots : k < i)]]
  /\ still' = \E i \in Slots : interestedObservers'[i].valid
  /\ dropped' = dropped \ {id}
  /\ main' = "deregFlag"
  /\ UNCHANGED <<gQuitFlag, gLightUnderObservation, observeThreadStarted,
                 gCurrLightInstance, resources, slot, cancelled, notifierVars, presenceVars>>

\* The loop invalidates every slot that holds the id, used or not; only main writes the
\* table and at most one of the writes can be seen, so that the loop is one step.
ProcessObserveDeregister(id) ==
  /\ main = "process"
  /\ stackObs[id] # NULL
  /\ stackObs' = [stackObs EXCEPT ![id] = NULL]
  /\ interestedObservers' =
       [i \in Slots |-> [interestedObservers[i] EXCEPT
                           !.valid = @ /\ interestedObservers[i].observationId # id]]
  /\ still' = \E i \in Slots : interestedObservers'[i].valid
  /\ dropped' = dropped \ {id}
  /\ main' = "deregFlag"
  /\ UNCHANGED <<gQuitFlag, gLightUnderObservation, observeThreadStarted,
                 gCurrLightInstance, resources, slot, cancelled, notifierVars, presenceVars>>

\* Mutant: the flag is not lowered when the last observer leaves.
DeregisterFlag_NotLowered ==
  /\ main = "deregFlag"
  /\ main' = "test"
  /\ UNCHANGED <<gQuitFlag, serverVars, stackVars, slot, still, cancelled,
                 notifierVars, presenceVars>>

DeregisterFlag ==
  /\ main = "deregFlag"
  /\ gLightUnderObservation' = (gLightUnderObservation /\ still)
  /\ main' = "test"
  /\ UNCHANGED <<gQuitFlag, interestedObservers, observeThreadStarted,
                 gCurrLightInstance, dropped, stackVars, slot, still, cancelled,
                 notifierVars, presenceVars>>

OCEntityHandlerCb ==
  \/ ProcessPostRequest
  \/ ProcessDeleteRequest
  \/ \E id \in ObsIds : \E h \in Handles : ProcessObserveRegister(id, h)
  \/ RegisterValid
  \/ RegisterFlag
  \/ \E id \in ObsIds : ProcessObserveDeregister(id)
  \/ DeregisterFlag

\* pthread_join of the notifier, then pthread_cancel of the presence thread.
JoinObserve ==
  /\ main = "joinObserve"
  /\ notifier = "exit"
  /\ cancelled' = cancelled \cup {"presence"}
  /\ main' = "joinPresence"
  /\ UNCHANGED <<gQuitFlag, serverVars, stackVars, slot, still, notifierVars, presenceVars>>

\* Mutant: OCStop without waiting for the presence thread.
JoinPresence_NoJoin ==
  /\ main = "joinPresence"
  /\ main' = "stopped"
  /\ UNCHANGED <<gQuitFlag, serverVars, stackVars, slot, still, cancelled,
                 notifierVars, presenceVars>>

\* pthread_join of the presence thread, then OCStop.
JoinPresence ==
  /\ main = "joinPresence"
  /\ presence = "exit"
  /\ main' = "stopped"
  /\ UNCHANGED <<gQuitFlag, serverVars, stackVars, slot, still, cancelled,
                 notifierVars, presenceVars>>

Main == \/ LoopTest \/ ProcessNothing \/ ProcessFails \/ OCEntityHandlerCb
        \/ JoinObserve \/ JoinPresence

handleSigInt ==
  /\ Alive
  /\ ~gQuitFlag
  /\ gQuitFlag' = TRUE
  /\ UNCHANGED <<serverVars, stackVars, mainVars, notifierVars, presenceVars>>

-----------------------------------------------------------------------------
(* Notifier thread.                                                        *)

NotifierGoto(from, to) == Alive /\ notifier = from /\ notifier' = to

notifierFrame == <<gQuitFlag, interestedObservers, observeThreadStarted,
                   gCurrLightInstance, dropped, stackVars, mainVars, presenceVars>>

NotifierLoopTest ==
  /\ NotifierGoto("loop", IF gQuitFlag THEN "exit" ELSE "sleep")
  /\ UNCHANGED <<scan, obsNotify, told, roundIds, gLightUnderObservation, notifierFrame>>

\* Mutant: the thread ends when nobody observes, and is never started again.
NotifierWake_EndsUnobserved ==
  /\ NotifierGoto("sleep", IF ~gLightUnderObservation THEN "exit"
                           ELSE IF NotifyType = 1 THEN "scan" ELSE "notifyAll")
  /\ scan' = 0
  /\ obsNotify' = <<>>
  /\ told' = {}
  /\ roundIds' = Registered \cup TrackedIds
  /\ UNCHANGED <<gLightUnderObservation, notifierFrame>>

\* Mutant: the scan starts at the second slot.
NotifierWake_SkipsFirst ==
  /\ NotifierGoto("sleep", IF ~gLightUnderObservation THEN "loop"
                           ELSE IF NotifyType = 1 THEN "scan" ELSE "notifyAll")
  /\ scan' = 1
  /\ obsNotify' = <<>>
  /\ told' = {}
  /\ roundIds' = Registered \cup TrackedIds
  /\ UNCHANGED <<gLightUnderObservation, notifierFrame>>

\* sleep(3) returns, the light changes, and the flag decides about this round.
NotifierWake ==
  /\ NotifierGoto("sleep", IF ~gLightUnderObservation THEN "loop"
                           ELSE IF NotifyType = 1 THEN "scan" ELSE "notifyAll")
  /\ scan' = 0
  /\ obsNotify' = <<>>
  /\ told' = {}
  /\ roundIds' = Registered \cup TrackedIds
  /\ UNCHANGED <<gLightUnderObservation, notifierFrame>>

\* Mutant: the valid flag is not looked at.
NotifierScan_TakesAny ==
  /\ NotifierGoto("scan", IF scan >= MaxObservations THEN "send" ELSE "take")
  /\ UNCHANGED <<scan, obsNotify, told, roundIds, gLightUnderObservation, notifierFrame>>

\* Every other slot: first its valid flag is read ...
NotifierScan ==
  /\ NotifierGoto("scan", IF scan >= MaxObservations THEN "send"
                          ELSE IF interestedObservers[scan].valid THEN "take" ELSE "scan")
  /\ scan' = IF scan < MaxObservations /\ ~interestedObservers[scan].valid
             THEN scan + 2 ELSE scan
  /\ UNCHANGED <<obsNotify, told, roundIds, gLightUnderObservation, notifierFrame>>

\* Mutant: the next slot, not the next but one.
NotifierTake_EverySlot ==
  /\ NotifierGoto("take", "scan")
  /\ obsNotify' = Append(obsNotify, interestedObservers[scan].observationId)
  /\ scan' = scan + 1
  /\ UNCHANGED <<told, roundIds, gLightUnderObservation, notifierFrame>>

\* ... then its id, which main may have changed in between.
NotifierTake ==
  /\ NotifierGoto("take", "scan")
  /\ obsNotify' = Append(obsNotify, interestedObservers[scan].observationId)
  /\ scan' = scan + 2
  /\ UNCHANGED <<told, roundIds, gLightUnderObservation, notifierFrame>>

\* The stack notifies those of the ids that observe a resource that still exists under
\* this handle.
OCNotifyListOfObservers(h, ids) ==
  told' = IF h \in resources THEN {id \in ObserversOf(h) : \E j \in DOMAIN ids : ids[j] = id}
                             ELSE {}

NotifierSend ==
  /\ NotifierGoto("send", "loop")
  /\ OCNotifyListOfObservers(LightHandle, obsNotify)
  /\ UNCHANGED <<scan, obsNotify, roundIds, gLightUnderObservation, notifierFrame>>

\* OC_STACK_NO_OBSERVERS is the result only for a resource that exists.
OCNotifyAllObservers(h) ==
  /\ told' = IF h \in resources THEN ObserversOf(h) ELSE {}
  /\ NotifierGoto("notifyAll",
                  IF h \in resources /\ ObserversOf(h) = {} THEN "noObservers" ELSE "loop")

NotifierNotifyAll ==
  /\ OCNotifyAllObservers(LightHandle)
  /\ UNCHANGED <<scan, obsNotify, roundIds, gLightUnderObservation, notifierFrame>>

\* The result is acted upon later: main may have set the flag in the meantime.
NotifierNoObservers ==
  /\ NotifierGoto("noObservers", "loop")
  /\ gLightUnderObservation' = FALSE
  /\ UNCHANGED <<scan, obsNotify, told, roundIds, notifierFrame>>

\* Deferred cancellation takes effect in sleep, in the stack or in the log.
NotifierCancelled ==
  /\ "notifier" \in cancelled
  /\ \E point \in {"sleep", "send", "notifyAll", "noObservers"} : NotifierGoto(point, "exit")
  /\ UNCHANGED <<scan, obsNotify, told, roundIds, gLightUnderObservation, notifierFrame>>

ChangeLightRepresentation ==
  \/ NotifierLoopTest \/ NotifierWake \/ NotifierScan \/ NotifierTake \/ NotifierSend
  \/ NotifierNotifyAll \/ NotifierNoObservers \/ NotifierCancelled

-----------------------------------------------------------------------------
(* Presence thread: creates two resources, deletes them, stops presence.   *)

PresenceGoto(from, to) == Alive /\ presence = from /\ presence' = to

presenceFrame == <<gQuitFlag, serverVars, stackVars, mainVars, notifierVars>>

\* Mutant: res starts afresh in the second loop.
PresenceSleep_ResetsResult ==
  /\ PresenceGoto("warmup", "create") \/ PresenceGoto("linger", "delete")
  /\ pIdx' = 0
  /\ pRes' = TRUE
  /\ UNCHANGED <<pHandles, pLive, presenceFrame>>

\* sleep(10), before the creations, and sleep(5), before the deletions.
PresenceSleep ==
  /\ PresenceGoto("warmup", "create") \/ PresenceGoto("linger", "delete")
  /\ pIdx' = 0
  /\ UNCHANGED <<pRes, pHandles, pLive, presenceFrame>>

PresenceCreate ==
  /\ \/ /\ PresenceGoto("create", IF pIdx + 1 = NumPresence THEN "linger" ELSE "create")
        /\ pIdx' = pIdx + 1
        /\ pHandles' = pHandles \cup {pIdx}
        /\ pLive' = pLive \cup {pIdx}
        /\ UNCHANGED pRes
     \/ /\ PresenceGoto("create", "linger")
        /\ pRes' = FALSE
        /\ UNCHANGED <<pIdx, pHandles, pLive>>
  /\ UNCHANGED presenceFrame

\* res is not reset between the loops: after a failed creation nothing is deleted.
PresenceDelete ==
  /\ \/ /\ pRes
        /\ PresenceGoto("delete", IF pIdx + 1 = NumPresence THEN "stop" ELSE "delete")
        /\ pIdx' = pIdx + 1
        /\ pLive' = pLive \ {pIdx}
        /\ UNCHANGED pRes
     \/ /\ PresenceGoto("delete", "stop")
        /\ pRes' = FALSE
        /\ UNCHANGED <<pIdx, pLive>>
  /\ UNCHANGED <<pHandles, presenceFrame>>

\* OCStopPresence, and the thread returns.
PresenceStop ==
  /\ PresenceGoto("stop", "exit")
  /\ UNCHANGED <<pIdx, pRes, pHandles, pLive, presenceFrame>>

\* Likewise; before OCStopPresence the thread may be cancelled anywhere.
PresenceCancelled ==
  /\ "presence" \in cancelled
  /\ \E point \in {"warmup", "create", "linger", "delete", "stop"} :
       PresenceGoto(point, "exit")
  /\ UNCHANGED <<pIdx, pRes, pHandles, pLive, presenceFrame>>

presenceNotificationGenerator ==
  PresenceSleep \/ PresenceCreate \/ PresenceDelete \/ PresenceStop \/ PresenceCancelled

-----------------------------------------------------------------------------
Terminated == ~Alive /\ UNCHANGED vars

Next == Main \/ handleSigInt \/ ChangeLightRepresentation
          \/ presenceNotificationGenerator \/ Terminated

\* The operating system runs every thread that can run; no request ever has to come.
Fairness == WF_vars(Main) /\ WF_vars(ChangeLightRepresentation)
              /\ WF_vars(presenceNotificationGenerator)

Spec == Init /\ [][Next]_vars
FairSpec == Spec /\ Fairness

-----------------------------------------------------------------------------
TypeOK ==
  /\ gQuitFlag \in BOOLEAN
  /\ gLightUnderObservation \in BOOLEAN
  /\ interestedObservers \in [Slots -> [observationId : ObsIds \cup {NoId}, valid : BOOLEAN,
                                       resourceHandle : Handles \cup {NULL}]]
  /\ observeThreadStarted \in BOOLEAN
  /\ gCurrLightInstance \in 0 .. MaxInstances
  /\ resources \subseteq Handles
  /\ stackObs \in [ObsIds -> Handles \cup {NULL}]
  /\ main \in {"test", "process", "regValid", "regFlag", "deregFlag",
               "joinObserve", "joinPresence", "stopped", "aborted"}
  /\ slot \in Nat
  /\ still \in BOOLEAN
  /\ cancelled \subseteq {"notifier", "presence"}
  /\ notifier \in {"none", "loop", "sleep", "scan", "take", "send",
                   "notifyAll", "noObservers", "exit"}
  /\ scan \in Nat
  /\ notifier = "take" => scan \in Slots
  /\ obsNotify \in Seq(ObsIds \cup {NoId})
  /\ told \subseteq ObsIds
  /\ presence \in {"warmup", "create", "linger", "delete", "stop", "exit"}
  /\ pIdx \in Nat
  /\ pRes \in BOOLEAN
  /\ pHandles \subseteq Nat
  /\ pLive \subseteq Nat
  /\ dropped \subseteq ObsIds
  /\ roundIds \subseteq ObsIds \cup {NoId}

\* The notifier never writes past obsNotify, which has room for half of the slots
\* (ChangeLightRepresentation), however the table changes while it is being scanned.
NotifyListFits ==
  /\ Len(obsNotify) <= MaxObservations \div 2
  /\ notifier = "take" => Len(obsNotify) < MaxObservations \div 2

\* Every id the notifier collects is of an observer that was registered, or had a slot, at
\* some time in the same round: an id is never picked from a slot that was freed long ago,
\* although deregistration leaves it there, and never read from a slot that was not used
\* yet.  (The slots of the observers of a deleted /a/light are not freed: ocserver.cpp:357.)
NotifiedIdsRegistered == \A j \in DOMAIN obsNotify : obsNotify[j] \in roundIds

\* Until /a/light is deleted, the table holds every observer the stack has, except those
\* that came when it was full, and each of them once.
TableMatchesStack ==
  LightHandle \in resources /\ main # "regValid" =>
    /\ TrackedIds = Registered \ dropped
    /\ \A i, k \in ValidSlots :
         interestedObservers[i].observationId = interestedObservers[k].observationId => i = k

\* gLightUnderObservation is up only while the table has an observer; and with list
\* notification, where only main writes the flag, it is up whenever the table has one.
FlagMatchesTable ==
  /\ gLightUnderObservation /\ main # "deregFlag" => ValidSlots # {}
  /\ NotifyType = 1 /\ ValidSlots # {} => gLightUnderObservation \/ main = "regFlag"

\* OCStop is called only when neither thread can call the stack any more.
QuietAfterStop == main = "stopped" => notifier \in {"none", "exit"} /\ presence = "exit"

\* The presence thread passes OCDeleteResource only handles that OCCreateResource filled
\* (presenceNotificationHandles is not initialised), and leaves no resource when it ends by
\* itself and met no failing call.  (After one failed creation it leaves the resource created
\* before: see the README.)
DeletesWhatItCreated ==
  /\ presence = "delete" /\ pRes => pIdx \in pHandles
  /\ presence = "exit" /\ "presence" \notin cancelled /\ pRes => pLive = {}

-----------------------------------------------------------------------------
(* The inductive invariant behind the safety properties, part by part.     *)

\* The notifier visits even slots in order and takes at most one id from each.
ScanInv ==
  /\ scan % 2 = 0 /\ scan <= MaxObservations
  /\ 2 * Len(obsNotify) <= scan
  /\ notifier = "take" => scan < MaxObservations
  /\ notifier \in {"scan", "take", "send"} => NotifyType = 1

\* What the notifier can pick is registered in this round; while main has filled a slot
\* that is not valid yet, the observer in it is already in the stack.  No slot ever gets a
\* resourceHandle, so that a deletion clears none.
RoundInv ==
  /\ \A i \in Slots : interestedObservers[i].resourceHandle = NULL
  /\ \A i \in ValidSlots : interestedObservers[i].observationId \in roundIds
  /\ notifier = "take" => interestedObservers[scan].observationId \in roundIds
  /\ NotifiedIdsRegistered
  /\ main = "regValid" => /\ slot \in Slots
                          /\ ~interestedObservers[slot].valid
                          /\ interestedObservers[slot].observationId \in Registered \cap roundIds

\* The flag follows the table, and still is what the scan of the table found.
FlagInv ==
  /\ main = "regFlag" => ValidSlots # {}
  /\ main = "deregFlag" => (still <=> ValidSlots # {})
  /\ notifier \in {"notifyAll", "noObservers"} => NotifyType = 0
  /\ FlagMatchesTable

\* Each thread main has stopped waiting for is over, or was never started.
JoinInv ==
  /\ (notifier = "none") = ~observeThreadStarted
  /\ main \in {"joinPresence", "stopped"} => notifier \in {"none", "exit"}
  /\ main = "joinObserve" => observeThreadStarted
  /\ QuietAfterStop

\* While no call failed, the presence thread has created, and then deleted, one by one.
PresenceInv ==
  /\ presence \in {"create", "delete"} => pIdx < NumPresence
  /\ presence \in {"warmup", "create"} => pRes
  /\ presence \in {"create", "linger"} => pLive = pHandles
  /\ pRes /\ presence \in {"linger", "delete"} => pHandles = 0 .. NumPresence - 1
  /\ pRes /\ presence = "create" => pHandles = 0 .. pIdx - 1
  /\ presence = "warmup" => pHandles = {} /\ pLive = {}
  /\ pRes /\ presence = "delete" => pLive = pIdx .. NumPresence - 1
  /\ pRes /\ presence = "stop" => pLive = {}
  /\ pLive \subseteq pHandles
  /\ presence = "exit" /\ "presence" \notin cancelled /\ pRes => pLive = {}

\* While /a/light exists: every observer of the stack is in a valid slot, or in the slot
\* that is being filled, or was dropped; and no two of these at once.
BeingFilled == {interestedObservers[i].observationId :
                  i \in {k \in Slots : main = "regValid" /\ k = slot}}

TableInv ==
  LightHandle \in resources =>
    /\ \A id \in ObsIds : id \in Registered <=> id \in TrackedIds \cup BeingFilled \cup dropped
    /\ TrackedIds \cup BeingFilled \subseteq ObsIds
    /\ TrackedIds \cap dropped = {}
    /\ BeingFilled \cap (TrackedIds \cup dropped) = {}
    /\ \A i, k \in ValidSlots :
         interestedObservers[i].observationId = interestedObservers[k].observationId => i = k

IInv == TypeOK /\ TableInv /\ ScanInv /\ RoundInv /\ FlagInv /\ JoinInv /\ PresenceInv

-----------------------------------------------------------------------------
(* The table as a set: what ObserverTable promises.                        *)

\* The slots, which a registration fills in two steps and a deregistration empties without
\* erasing the id, implement a set of at most MaxObservations observers for as long as
\* /a/light exists: an observer is turned away only when so many others are in the table.
Table == INSTANCE ObserverTable
  WITH Capacity <- MaxObservations, members <- TrackedIds \cup BeingFilled,
       outside <- dropped, gone <- LightHandle \notin resources
ImplementsTable == Table!Spec

-----------------------------------------------------------------------------
(* How the shutdown comes to its end.                                      *)

\* How many steps each thread can still take after SIGINT, at most; a registration that
\* is being handled may start the notifier.
MainRank == CASE main = "process" -> 8
              [] main = "regValid" -> 6
              [] main \in {"regFlag", "deregFlag"} -> 5
              [] main = "test" -> 4
              [] main = "joinObserve" -> 3
              [] main = "joinPresence" -> 2
              [] OTHER -> 0

NotifierRank == CASE notifier = "sleep" -> 2 * MaxObservations + 5
                  [] notifier = "scan" -> 2 * (MaxObservations - scan) + 4
                  [] notifier = "take" -> 2 * (MaxObservations - scan) + 3
                  [] notifier = "notifyAll" -> 3
                  [] notifier \in {"send", "noObservers"} -> 2
                  [] notifier = "loop" -> 1
                  [] OTHER -> 0

PresenceRank == CASE presence = "warmup" -> 2 * NumPresence + 4
                  [] presence = "create" -> 2 * NumPresence + 3 - pIdx
                  [] presence = "linger" -> NumPresence + 2
                  [] presence = "delete" -> NumPresence + 1 - pIdx
                  [] presence = "stop" -> 1
                  [] OTHER -> 0

ShutdownRank == MainRank + NotifierRank + PresenceRank

\* After SIGINT every step of any thread brings the end closer: the loops that run at that
\* moment (main's, the notifier's rounds and its scan, the two of the presence thread) end
\* by themselves, whether or not a cancellation takes effect.
ShutdownAdvances == [][gQuitFlag => ShutdownRank' < ShutdownRank]_vars

\* main never waits for a thread that was not started, and a thread it waits for is over or
\* has steps left: no join is in vain.
JoinsEnd ==
  /\ main = "joinObserve" => notifier = "exit" \/ NotifierRank > 0
  /\ main = "joinPresence" => presence = "exit" \/ PresenceRank > 0

-----------------------------------------------------------------------------
(* What comments of the source say, and the code does not do.              *)

\* ocserver.cpp:354, "Step 2: clear observers who wanted to observe this resource at the
\* app level": no slot is in use once /a/light is deleted, where it is the only resource.
DeletedLightHasNoObservers ==
  MaxInstances = 0 /\ LightHandle \notin resources => ValidSlots = {}

\* ocserver.cpp:430, "Even if there is one single client observing we continue notifying":
\* between two requests, the flag is up while the table has an observer of /a/light.
ContinueWhileObserved ==
  main \in {"test", "process"} /\ TrackedIds \cap ObserversOf(LightHandle) # {}
    => gLightUnderObservation

-----------------------------------------------------------------------------
\* With notification of all observers: one that stays is notified again and again for as
\* long as the flag stays up and the server is neither told to quit nor broken.
AllObserversNotified ==
  NotifyType = 0 =>
    \A id \in ObsIds :
      <>[](stackObs[id] = LightHandle /\ gLightUnderObservation /\ ~gQuitFlag /\ Alive)
        => []<>(id \in told)

\* With list notification: an observer that stays in an even slot is notified again and
\* again, whatever the clients in the other slots do.
EvenSlotsNotified ==
  NotifyType = 1 =>
    \A id \in ObsIds :
      <>[](/\ \E i \in ValidSlots : i % 2 = 0 /\ interestedObservers[i].observationId = id
           /\ stackObs[id] = LightHandle
           /\ ~gQuitFlag /\ Alive)
        => []<>(id \in told)

\* SIGINT always gets the server to an end: no join waits for ever.
ShutdownCompletes == gQuitFlag ~> ~Alive
=============================================================================
