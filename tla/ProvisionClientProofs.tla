----------------------- MODULE ProvisionClientProofs -----------------------
(***************************************************************************)
(* Type correctness and safety of ProvisionClient, for any number of       *)
(* devices and calls, and for any length of the wait.                      *)
(***************************************************************************)
EXTENDS ProvisionClient, TLAPS

\* What the operations come down to, as the cases of the proofs below.
LEMMA StepCases ==
  ASSUME NEW P,
         discoverAllDevices => P, discoverUnownedDevices => P, discoverOwnedDevices => P,
         \A r \in {"ok", "error", "empty"} : EndsWith(r) => P,
         CallApi({}) => P,
         \A devices \in SUBSET (1 .. g_own_cnt) :
           g_own_list # NULL /\ CallApi(devices) => P,
         checkLinkedStatus => P, removeDeviceWithUuid => P,
         WaitProcess => P, WaitFails => P, WaitReturns => P, Exit => P,
         UNCHANGED vars => P
  PROVE  [Next]_vars => P
<1>1. \A n \in {1, 2} : OwnedOperation(n) => P
  BY DEF OwnedOperation, Selections
<1>2. \A n \in {1, 2} : PreparationFails(n) => P
  BY DEF PreparationFails
<1>3. registerDevices => P
  BY DEF registerDevices
<1>4. Operation => P
  BY <1>1, <1>2, <1>3
  DEF Operation, provisionPairwise, provisionCred, provisionAcl, provisionDirectPairing,
      getCred, getAcl, unlinkPairwise, removeDevice, resetDevice
<1>5. waitCallbackRet => P
  BY DEF waitCallbackRet
<1>. QED
  BY <1>4, <1>5 DEF Next, Terminated

\* Every variable keeps its type.
THEOREM TypeCorrect == Spec => []TypeOK
<1> USE ProvisionClientConstants DEF NULL, Lists, Calls
<1>1. Init => TypeOK
  <2> SUFFICES ASSUME Init PROVE TypeOK
    OBVIOUS
  <2>1. 0 \in 0 .. MaxDevices /\ 0 \in 0 .. CALLBACK_TIMEOUT /\ 0 \in 0 .. MaxCalls
    OBVIOUS
  <2>. QED
    BY <2>1 DEF Init, TypeOK
<1>2. TypeOK /\ [Next]_vars => TypeOK'
  <2> SUFFICES ASSUME TypeOK PROVE [Next]_vars => TypeOK'
    OBVIOUS
  <2> USE DEF TypeOK
  <2>1. discoverAllDevices => TypeOK'
    BY DEF discoverAllDevices, Discovery, Callbacks
  <2>2. discoverUnownedDevices => TypeOK'
    BY DEF discoverUnownedDevices, Discovery, Callbacks
  <2>3. discoverOwnedDevices => TypeOK'
    BY DEF discoverOwnedDevices, Discovery, Callbacks
  <2>4. \A r \in {"ok", "error", "empty"} : EndsWith(r) => TypeOK'
    BY DEF EndsWith, lists
  <2>5. \A devices \in SUBSET (1 .. g_own_cnt) : CallApi(devices) => TypeOK'
    <3> SUFFICES ASSUME NEW devices \in SUBSET (1 .. g_own_cnt), CallApi(devices)
                 PROVE  TypeOK'
      OBVIOUS
    <3>1. selected' \subseteq 1 .. MaxDevices
      BY DEF CallApi
    <3>2. call' \in 0 .. MaxCalls /\ call' \in Calls
      BY DEF CallApi
    <3>3. pending' \subseteq Calls /\ ran' \subseteq Calls
      BY <3>2 DEF CallApi
    <3>4. g_doneCB' \in BOOLEAN /\ byUuid' \in BOOLEAN
      BY Zenon DEF CallApi
    <3>5. waited' \in 0 .. CALLBACK_TIMEOUT
      BY DEF CallApi
    <3>. QED
      BY <3>1, <3>2, <3>3, <3>4, <3>5 DEF CallApi, lists
  <2>6. CallApi({}) => TypeOK'
    BY <2>5
  <2>7. checkLinkedStatus => TypeOK'
    <3> SUFFICES ASSUME checkLinkedStatus PROVE TypeOK'
      OBVIOUS
    <3>1. selected' \subseteq 1 .. g_own_cnt \/ selected' = selected
      BY DEF checkLinkedStatus, Selections
    <3>2. selected' \subseteq 1 .. MaxDevices
      <4>1. 1 .. g_own_cnt \subseteq 1 .. MaxDevices /\ selected \subseteq 1 .. MaxDevices
        OBVIOUS
      <4>. QED
        BY <3>1, <4>1, Zenon
    <3>3. result' \in {"ok", "error", "empty"}
      BY DEF checkLinkedStatus
    <3>. QED
      BY <3>2, <3>3 DEF checkLinkedStatus, lists
  <2>8. removeDeviceWithUuid => TypeOK'
    <3>1. EndsWith("error") => TypeOK'
      BY <2>4
    <3> SUFFICES ASSUME removeDeviceWithUuid, ~EndsWith("error") PROVE TypeOK'
      BY <3>1
    <3>2. call' \in 0 .. MaxCalls /\ call' \in Calls
      BY DEF removeDeviceWithUuid
    <3>3. pending' \subseteq Calls /\ ran' \subseteq Calls
      BY <3>2 DEF removeDeviceWithUuid, Callbacks
    <3>4. g_doneCB' \in BOOLEAN /\ byUuid' \in BOOLEAN
      BY Zenon DEF removeDeviceWithUuid, Callbacks
    <3>5. waited' \in 0 .. CALLBACK_TIMEOUT
      BY DEF removeDeviceWithUuid
    <3>. QED
      BY <3>2, <3>3, <3>4, <3>5 DEF removeDeviceWithUuid, lists
  <2>9. WaitProcess => TypeOK'
    BY DEF WaitProcess, Callbacks, lists
  <2>10. WaitFails => TypeOK'
    BY DEF WaitFails, GiveUp, Callbacks, lists
  <2>11. WaitReturns => TypeOK'
    BY DEF WaitReturns, GiveUp, lists
  <2>12. Exit => TypeOK'
    BY DEF Exit
  <2>13. UNCHANGED vars => TypeOK'
    BY DEF vars, lists
  <2>. QED
    BY <2>1, <2>2, <2>3, <2>4, <2>5, <2>6, <2>7, <2>8, <2>9, <2>10, <2>11, <2>12, <2>13,
       StepCases
<1>. QED
  BY <1>1, <1>2, PTL DEF Spec

\* The count is right whenever the list is there, although failures leave it behind.
THEOREM ListCorrect == Spec => []ListInv
<1> USE DEF ListInv
<1>1. Init => ListInv
  BY DEF Init
<1>2. ListInv /\ [Next]_vars => ListInv'
  <2> SUFFICES ASSUME ListInv PROVE [Next]_vars => ListInv'
    OBVIOUS
  <2>1. discoverAllDevices => ListInv'
    BY DEF discoverAllDevices
  <2>2. discoverUnownedDevices => ListInv'
    BY DEF discoverUnownedDevices
  <2>3. discoverOwnedDevices => ListInv'
    BY DEF discoverOwnedDevices
  <2>4. \A r \in {"ok", "error", "empty"} : EndsWith(r) => ListInv'
    BY DEF EndsWith, lists
  <2>5. \A devices : CallApi(devices) => ListInv'
    BY DEF CallApi, lists
  <2>6. checkLinkedStatus => ListInv'
    BY DEF checkLinkedStatus, lists
  <2>7. removeDeviceWithUuid => ListInv'
    BY DEF removeDeviceWithUuid, EndsWith, lists
  <2>8. WaitProcess \/ WaitFails \/ WaitReturns => ListInv'
    BY DEF WaitProcess, WaitFails, WaitReturns, lists
  <2>9. Exit => ListInv'
    BY DEF Exit
  <2>10. UNCHANGED vars => ListInv'
    BY DEF vars, lists
  <2>. QED
    BY <2>1, <2>2, <2>3, <2>4, <2>5, <2>6, <2>7, <2>8, <2>9, <2>10, StepCases
<1>. QED
  BY <1>1, <1>2, PTL DEF Spec

\* A device the user picks is in the list.
THEOREM SelectionInListAlways == Spec => SelectionInList
<1> USE DEF ListInv
<1>1. ListInv /\ [Next]_vars
        => [selected' = selected \/ selected' \subseteq 1 .. g_own_list]_vars
  <2> DEFINE Picked == selected' = selected \/ selected' \subseteq 1 .. g_own_list
  <2> SUFFICES ASSUME ListInv PROVE [Next]_vars => Picked
    OBVIOUS
  <2>1. discoverAllDevices \/ discoverUnownedDevices \/ discoverOwnedDevices => Picked
    BY DEF discoverAllDevices, discoverUnownedDevices, discoverOwnedDevices, Discovery
  <2>2. \A r \in {"ok", "error", "empty"} : EndsWith(r) => Picked
    BY DEF EndsWith
  <2>3. \A devices \in SUBSET (1 .. g_own_cnt) :
          g_own_list # NULL /\ CallApi(devices) => Picked
    BY DEF CallApi
  <2>4. CallApi({}) => Picked
    BY DEF CallApi
  <2>5. checkLinkedStatus => Picked
    BY DEF checkLinkedStatus, Selections
  <2>6. removeDeviceWithUuid => Picked
    BY DEF removeDeviceWithUuid, EndsWith
  <2>7. WaitProcess \/ WaitFails \/ WaitReturns \/ Exit => Picked
    BY DEF WaitProcess, WaitFails, WaitReturns, Exit
  <2>8. UNCHANGED vars => Picked
    BY DEF vars
  <2>. QED
    BY <2>1, <2>2, <2>3, <2>4, <2>5, <2>6, <2>7, <2>8, StepCases
<1>. QED
  BY <1>1, ListCorrect, PTL DEF Spec, SelectionInList

\* The flag, the callbacks owed and the calls given up, at every step.
THEOREM WaitCorrect == Spec => []WaitInv
<1> USE DEF WaitInv, CallbackEndsWait
<1>1. Init => WaitInv
  BY DEF Init
<1>2. TypeOK /\ WaitInv /\ [Next]_vars => WaitInv'
  <2> SUFFICES ASSUME TypeOK, WaitInv PROVE [Next]_vars => WaitInv'
    OBVIOUS
  <2>1. /\ call \in Nat
        /\ \A c \in givenUp \cup ran \cup pending : c \in Nat
    BY ProvisionClientConstants DEF TypeOK, Calls
  <2>2. discoverAllDevices \/ discoverUnownedDevices \/ discoverOwnedDevices => WaitInv'
    <3> SUFFICES ASSUME Discovery PROVE WaitInv'
      BY DEF discoverAllDevices, discoverUnownedDevices, discoverOwnedDevices
    <3>. QED
      BY <2>1 DEF Discovery, Callbacks
  <2>3. \A r \in {"ok", "error", "empty"} : EndsWith(r) => WaitInv'
    BY DEF EndsWith
  <2>4. \A devices : CallApi(devices) => WaitInv'
    <3> SUFFICES ASSUME NEW devices, CallApi(devices) PROVE WaitInv'
      OBVIOUS
    <3>1. call' = call + 1 /\ pc = "menu" /\ givenUp' = givenUp /\ pending \subseteq givenUp
      BY DEF CallApi
    <3>2. \A c \in givenUp \cup ran \cup pending : c < call'
      BY <2>1, <3>1
    <3>3. CASE pc' = "wait"
      <4>1. PICK D \in SUBSET (pending \cup {call'}) :
              /\ ran' = ran \cup D
              /\ pending' = (pending \cup {call'}) \ D
              /\ g_doneCB' = (D # {})
        BY <3>1, <3>3 DEF CallApi
      <4>2. call' \in ran' => g_doneCB'
        <5>1. call' \notin ran
          BY <2>1, <3>1, <3>2
        <5>2. call' \in D => g_doneCB'
          BY <4>1, Zenon
        <5>. QED
          BY <4>1, <5>1, <5>2
      <4>3. pending' \subseteq givenUp' \cup {call'}
        BY <3>1, <4>1
      <4>4. g_doneCB' => call' \in ran' \/ \E c \in givenUp' \cap ran' : c < call'
        BY <3>1, <3>2, <4>1
      <4>5. \A c \in givenUp' \cup ran' : c <= call'
        BY <2>1, <3>1, <3>2, <4>1
      <4>. QED
        BY <3>1, <3>2, <3>3, <4>2, <4>3, <4>4, <4>5
    <3>4. CASE pc' # "wait"
      <4>1. pc' = "menu" /\ \E D \in SUBSET pending : ran' = ran \cup D /\ pending' = pending \ D
        BY <3>1, <3>4 DEF CallApi
      <4>. QED
        BY <2>1, <3>1, <3>2, <4>1
    <3>. QED
      BY <3>3, <3>4
  <2>5. checkLinkedStatus => WaitInv'
    BY DEF checkLinkedStatus
  <2>6. removeDeviceWithUuid => WaitInv'
    <3> SUFFICES ASSUME removeDeviceWithUuid, ~EndsWith("error") PROVE WaitInv'
      BY <2>3
    <3>1. call' = call + 1 /\ pc = "menu" /\ givenUp' = givenUp /\ pending \subseteq givenUp
      BY DEF removeDeviceWithUuid
    <3>2. \A c \in givenUp \cup ran \cup pending : c < call'
      BY <2>1, <3>1
    <3>3. CASE pc' = "wait"
      <4>1. byUuid' = TRUE /\ g_doneCB' = FALSE
        BY <3>1, <3>3 DEF removeDeviceWithUuid
      <4>2. \E D \in SUBSET (pending \cup {call'}) :
              ran' = ran \cup D /\ pending' = (pending \cup {call'}) \ D
        BY <3>1, <3>3 DEF removeDeviceWithUuid
      <4>. QED
        BY <2>1, <3>1, <3>2, <3>3, <4>1, <4>2
    <3>4. CASE pc' # "wait"
      <4>1. pc' = "menu" /\ \E D \in SUBSET pending : ran' = ran \cup D /\ pending' = pending \ D
        BY <3>1, <3>4 DEF removeDeviceWithUuid, Callbacks
      <4>. QED
        BY <2>1, <3>1, <3>2, <4>1
    <3>. QED
      BY <3>3, <3>4
  <2>7. WaitProcess => WaitInv'
    <3> SUFFICES ASSUME WaitProcess PROVE WaitInv'
      OBVIOUS
    <3>1. /\ pc = "wait" /\ pc' = "wait" /\ ~g_doneCB
          /\ call' = call /\ givenUp' = givenUp /\ byUuid' = byUuid
      BY DEF WaitProcess
    <3>2. PICK D \in SUBSET pending : Callbacks(D)
      BY DEF WaitProcess
    <3>3. ran' = ran \cup D /\ pending' = pending \ D /\ (g_doneCB' <=> D # {})
      BY <3>1, <3>2 DEF Callbacks
    <3>. QED
      BY <2>1, <3>1, <3>3
  <2>8. WaitFails => WaitInv'
    BY <2>1 DEF WaitFails, GiveUp, Callbacks
  <2>9. WaitReturns => WaitInv'
    BY <2>1 DEF WaitReturns, GiveUp
  <2>10. Exit => WaitInv'
    BY DEF Exit
  <2>11. UNCHANGED vars => WaitInv'
    BY DEF vars
  <2>. QED
    BY <2>2, <2>3, <2>4, <2>5, <2>6, <2>7, <2>8, <2>9, <2>10, <2>11, StepCases
<1>. QED
  BY <1>1, <1>2, TypeCorrect, PTL DEF Spec

\* A callback is not missed by the wait for it, except by removeDeviceWithUuid.
THEOREM CallbackEndsWaitAlways == Spec => []CallbackEndsWait
<1>1. WaitInv => CallbackEndsWait
  BY DEF WaitInv
<1>. QED
  BY <1>1, WaitCorrect, PTL

\* An early success is that of the operation's own call, unless one was given up before.
THEOREM EarlyReturnIsOwnAlways == Spec => EarlyReturnIsOwn
<1> DEFINE Own == call \in ran \/ \E c \in givenUp \cap ran : c < call
           Early == /\ pc = "wait" /\ pc' = "menu" /\ result' = "ok"
                    /\ waited < CALLBACK_TIMEOUT
<1>1. TypeOK /\ WaitInv /\ [Next]_vars => [Early => Own]_vars
  <2> SUFFICES ASSUME TypeOK, WaitInv, Early PROVE [Next]_vars => Own
    OBVIOUS
  <2>1. g_doneCB => Own
    BY DEF WaitInv
  <2>2. WaitReturns => Own
    BY <2>1, ProvisionClientConstants DEF WaitReturns, TypeOK
  <2>3. WaitProcess \/ WaitFails => Own
    BY DEF WaitProcess, WaitFails
  <2>4. discoverAllDevices \/ discoverUnownedDevices \/ discoverOwnedDevices => Own
    BY DEF discoverAllDevices, discoverUnownedDevices, discoverOwnedDevices, Discovery
  <2>5. \A r \in {"ok", "error", "empty"} : EndsWith(r) => Own
    BY DEF EndsWith
  <2>6. \A devices : CallApi(devices) => Own
    BY DEF CallApi
  <2>7. checkLinkedStatus \/ removeDeviceWithUuid \/ Exit => Own
    BY DEF checkLinkedStatus, removeDeviceWithUuid, EndsWith, Exit
  <2>8. UNCHANGED vars => Own
    BY DEF vars
  <2>. QED
    BY <2>2, <2>3, <2>4, <2>5, <2>6, <2>7, <2>8, StepCases
<1>. QED
  BY <1>1, TypeCorrect, WaitCorrect, PTL DEF Spec, EarlyReturnIsOwn

\* A wait takes at most CALLBACK_TIMEOUT + 1 steps, whatever callbacks come or fail to come.
THEOREM WaitBounded == Spec => WaitAdvances /\ [](WaitRank \in 0 .. CALLBACK_TIMEOUT + 1)
<1>1. TypeOK => WaitRank \in 0 .. CALLBACK_TIMEOUT + 1
  BY ProvisionClientConstants DEF TypeOK, WaitRank
<1>2. TypeOK /\ [Next]_vars => [pc = "wait" => WaitRank' < WaitRank]_vars
  <2> DEFINE Lowered == WaitRank' < WaitRank \/ UNCHANGED vars
  <2> SUFFICES ASSUME TypeOK, pc = "wait" PROVE [Next]_vars => Lowered
    OBVIOUS
  <2>1. waited \in Nat /\ waited <= CALLBACK_TIMEOUT /\ CALLBACK_TIMEOUT \in Nat
    BY ProvisionClientConstants DEF TypeOK
  <2>2. discoverAllDevices \/ discoverUnownedDevices \/ discoverOwnedDevices => Lowered
    BY DEF discoverAllDevices, discoverUnownedDevices, discoverOwnedDevices, Discovery
  <2>3. \A r \in {"ok", "error", "empty"} : EndsWith(r) => Lowered
    BY DEF EndsWith
  <2>4. /\ CallApi({}) => Lowered
        /\ \A devices \in SUBSET (1 .. g_own_cnt) :
             g_own_list # NULL /\ CallApi(devices) => Lowered
    BY DEF CallApi
  <2>5. checkLinkedStatus \/ Exit => Lowered
    BY DEF checkLinkedStatus, Exit
  <2>6. removeDeviceWithUuid => Lowered
    BY DEF removeDeviceWithUuid, EndsWith
  <2>7. WaitProcess => Lowered
    BY <2>1 DEF WaitProcess, WaitRank
  <2>8. WaitFails \/ WaitReturns => Lowered
    <3>1. WaitFails \/ WaitReturns => pc' = "menu"
      BY DEF WaitFails, WaitReturns
    <3>. QED
      BY <2>1, <3>1 DEF WaitRank
  <2>9. UNCHANGED vars => Lowered
    OBVIOUS
  <2>. QED
    BY <2>2, <2>3, <2>4, <2>5, <2>6, <2>7, <2>8, <2>9, StepCases
<1>. QED
  BY <1>1, <1>2, TypeCorrect, PTL DEF Spec, WaitAdvances
=============================================================================
