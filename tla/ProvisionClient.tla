-------------------------- MODULE ProvisionClient --------------------------
(***************************************************************************)
(* The provisioning client of examples/provisioning/provisioningclient.c:  *)
(* a menu of operations on the devices found by discovery.  Most of them   *)
(* call the provisioning API with a callback, and wait for g_doneCB to     *)
(* rise, at most CALLBACK_TIMEOUT rounds.  All of them share that flag and *)
(* the two device lists, so that an operation given up by the wait meets   *)
(* the later ones through its late callback.                               *)
(*                                                                         *)
(* One thread; callbacks run inside OCProcess and inside API calls.        *)
(***************************************************************************)
EXTENDS Naturals, FiniteSets

CONSTANTS
  CALLBACK_TIMEOUT,   \* rounds of waitCallbackRet, 60 in the source
  MaxDevices,         \* bound: devices a discovery finds of each kind
  MaxCalls            \* bound: API calls with a callback

ASSUME ProvisionClientConstants ==
  CALLBACK_TIMEOUT \in Nat /\ MaxDevices \in Nat /\ MaxCalls \in Nat

VARIABLES
  g_own_list, g_unown_list,   \* length of the list; 0 is NULL, there is no empty list
  g_own_cnt, g_unown_cnt,
  g_doneCB,
  pc,          \* "menu", "wait" in waitCallbackRet, "stopped"
  waited,      \* rounds waited
  call,        \* number of the latest API call with a callback
  byUuid,      \* whether that call is the one of removeDeviceWithUuid
  pending,     \* calls whose callback the stack still owes
  \* history
  selected,    \* devices the latest operation picked from the list it works on
  result,      \* what the latest operation said: "ok", "error" or "empty"
  ran,         \* calls whose callback has run
  givenUp      \* calls that were returned from before their callback

lists == <<g_own_list, g_unown_list, g_own_cnt, g_unown_cnt>>
vars == <<lists, g_doneCB, pc, waited, call, byUuid, pending, selected, result, ran, givenUp>>

NULL == 0
Lists == 0 .. MaxDevices

Init ==
  /\ g_own_list = NULL /\ g_unown_list = NULL
  /\ g_own_cnt = 0 /\ g_unown_cnt = 0
  /\ g_doneCB = FALSE
  /\ pc = "menu"
  /\ waited = 0
  /\ call = 0 /\ byUuid = FALSE
  /\ pending = {} /\ ran = {} /\ givenUp = {}
  /\ selected = {}
  /\ result = "ok"

\* The callbacks of the calls D run: whatever the result, each only raises the flag.
Callbacks(D) ==
  /\ ran' = ran \cup D
  /\ pending' = pending \ D
  /\ g_doneCB' = (g_doneCB \/ D # {})

-----------------------------------------------------------------------------
(* Discovery blocks for DISCOVERY_TIMEOUT; earlier callbacks may run in it.*)

Discovery ==
  /\ pc = "menu"
  /\ \E D \in SUBSET pending : Callbacks(D)
  /\ UNCHANGED <<pc, waited, call, byUuid, selected, givenUp>>

\* A failed discovery leaves the lists NULL and the counts as they were.
discoverAllDevices ==
  /\ Discovery
  /\ \/ /\ g_own_list' \in Lists /\ g_own_cnt' = g_own_list'
        /\ g_unown_list' \in Lists /\ g_unown_cnt' = g_unown_list'
        /\ result' = "ok"
     \/ /\ g_own_list' = NULL /\ g_unown_list' = NULL
        /\ UNCHANGED <<g_own_cnt, g_unown_cnt>>
        /\ result' = "error"

discoverUnownedDevices ==
  /\ Discovery
  /\ \/ g_unown_list' \in Lists /\ g_unown_cnt' = g_unown_list' /\ result' = "ok"
     \/ g_unown_list' = NULL /\ UNCHANGED g_unown_cnt /\ result' = "error"
  /\ UNCHANGED <<g_own_list, g_own_cnt>>

discoverOwnedDevices ==
  /\ Discovery
  /\ \/ g_own_list' \in Lists /\ g_own_cnt' = g_own_list' /\ result' = "ok"
     \/ g_own_list' = NULL /\ UNCHANGED g_own_cnt /\ result' = "error"
  /\ UNCHANGED <<g_unown_list, g_unown_cnt>>

-----------------------------------------------------------------------------
(* Operations with a callback.                                             *)

\* The operation ends before it calls the API.
EndsWith(r) ==
  /\ pc = "menu"
  /\ result' = r
  /\ UNCHANGED <<lists, g_doneCB, pc, waited, call, byUuid, pending, selected, ran, givenUp>>

\* Mutant: the flag is not lowered before the call.
CallApi_NoReset(devices) ==
  /\ pc = "menu" /\ call < MaxCalls
  /\ call' = call + 1 /\ byUuid' = FALSE
  /\ selected' = devices
  /\ waited' = 0
  /\ \E D \in SUBSET (pending \cup {call'}) :
       /\ ran' = ran \cup D
       /\ pending' = (pending \cup {call'}) \ D
       /\ g_doneCB' = (g_doneCB \/ D # {})
  /\ pc' = "wait"
  /\ UNCHANGED <<lists, result, givenUp>>

\* Mutant: the flag is lowered after the call, as removeDeviceWithUuid does.
CallApi_LateReset(devices) ==
  /\ pc = "menu" /\ call < MaxCalls
  /\ call' = call + 1 /\ byUuid' = FALSE
  /\ selected' = devices
  /\ waited' = 0
  /\ \E D \in SUBSET (pending \cup {call'}) :
       /\ ran' = ran \cup D
       /\ pending' = (pending \cup {call'}) \ D
  /\ g_doneCB' = FALSE
  /\ pc' = "wait"
  /\ UNCHANGED <<lists, result, givenUp>>

\* The flag is lowered, then the API is called.  Callbacks may run before it returns, that
\* of this call among them; if it fails, this call has none and the operation ends.
CallApi(devices) ==
  /\ pc = "menu" /\ call < MaxCalls
  /\ call' = call + 1 /\ byUuid' = FALSE
  /\ selected' = devices
  /\ waited' = 0
  /\ \/ /\ \E D \in SUBSET (pending \cup {call'}) :
             /\ ran' = ran \cup D
             /\ pending' = (pending \cup {call'}) \ D
             /\ g_doneCB' = (D # {})
        /\ pc' = "wait"
        /\ UNCHANGED result
     \/ /\ \E D \in SUBSET pending :
             /\ ran' = ran \cup D
             /\ pending' = pending \ D
             /\ g_doneCB' = (D # {})
        /\ result' = "error"
        /\ UNCHANGED pc
  /\ UNCHANGED <<lists, givenUp>>

\* The user enters numbers until n of them are different and within the count.
Selections(n) == {S \in SUBSET (1 .. g_own_cnt) : Cardinality(S) = n}

\* Mutant: the list is not looked at, only the count.
OwnedOperation_CountOnly(n) ==
  \/ /\ g_own_cnt >= n
     /\ \E devices \in Selections(n) : CallApi(devices)
  \/ EndsWith("empty")

\* Most operations work on n devices of the owned list.
OwnedOperation(n) ==
  \/ /\ g_own_list # NULL /\ g_own_cnt >= n
     /\ \E devices \in Selections(n) : CallApi(devices)
  \/ /\ g_own_list = NULL \/ g_own_cnt < n
     /\ EndsWith("empty")

\* What is made for the operation, the ACL for one, may fail to be made.
PreparationFails(n) == g_own_list # NULL /\ g_own_cnt >= n /\ EndsWith("error")

registerDevices ==
  \/ g_unown_list # NULL /\ g_unown_cnt > 0 /\ CallApi({})
  \/ (g_unown_list = NULL \/ g_unown_cnt = 0) /\ EndsWith("empty")

provisionPairwise == OwnedOperation(2) \/ PreparationFails(2)
provisionCred == OwnedOperation(2)
provisionAcl == OwnedOperation(1) \/ PreparationFails(1)
provisionDirectPairing == OwnedOperation(1) \/ PreparationFails(1)
getCred == OwnedOperation(1)
getAcl == OwnedOperation(1)
unlinkPairwise == OwnedOperation(2)
removeDevice == OwnedOperation(1)
resetDevice == OwnedOperation(1)

\* No callback: the provisioning database answers, or fails.
checkLinkedStatus ==
  /\ pc = "menu"
  /\ \/ /\ g_own_list # NULL /\ g_own_cnt >= 1
        /\ selected' \in Selections(1)
        /\ result' \in {"ok", "error"}
     \/ /\ g_own_list = NULL \/ g_own_cnt < 1
        /\ result' = "empty"
        /\ UNCHANGED selected
  /\ UNCHANGED <<lists, g_doneCB, pc, waited, call, byUuid, pending, ran, givenUp>>

\* By UUID, whatever the lists hold.  The flag is lowered after the call, so that a
\* callback that ran inside it goes unnoticed.
removeDeviceWithUuid ==
  \/ EndsWith("error")
  \/ /\ pc = "menu" /\ call < MaxCalls
     /\ call' = call + 1 /\ byUuid' = TRUE
     /\ selected' = {}
     /\ waited' = 0
     /\ \/ /\ \E D \in SUBSET (pending \cup {call'}) :
                /\ ran' = ran \cup D
                /\ pending' = (pending \cup {call'}) \ D
           /\ g_doneCB' = FALSE
           /\ pc' = "wait"
           /\ UNCHANGED result
        \/ /\ \E D \in SUBSET pending : Callbacks(D)
           /\ result' = "error"
           /\ UNCHANGED pc
     /\ UNCHANGED <<lists, givenUp>>

-----------------------------------------------------------------------------
(* waitCallbackRet                                                         *)

\* Mutant: the rounds are not counted.
WaitProcess_Forever ==
  /\ pc = "wait" /\ ~g_doneCB /\ waited < CALLBACK_TIMEOUT
  /\ \E D \in SUBSET pending : Callbacks(D)
  /\ UNCHANGED <<lists, pc, waited, call, byUuid, selected, result, givenUp>>

\* Mutant: one round too many.
WaitProcess_OneMore ==
  /\ pc = "wait" /\ ~g_doneCB /\ waited <= CALLBACK_TIMEOUT
  /\ \E D \in SUBSET pending : Callbacks(D)
  /\ waited' = waited + 1
  /\ UNCHANGED <<lists, pc, call, byUuid, selected, result, givenUp>>

WaitProcess ==
  /\ pc = "wait" /\ ~g_doneCB /\ waited < CALLBACK_TIMEOUT
  /\ \E D \in SUBSET pending : Callbacks(D)
  /\ waited' = waited + 1
  /\ UNCHANGED <<lists, pc, call, byUuid, selected, result, givenUp>>

GiveUp == givenUp' = givenUp \cup ({call} \cap pending')

\* OCProcess fails, after it may have run callbacks, and so does the operation.
WaitFails ==
  /\ pc = "wait" /\ ~g_doneCB /\ waited < CALLBACK_TIMEOUT
  /\ \E D \in SUBSET pending : Callbacks(D)
  /\ pc' = "menu"
  /\ result' = "error"
  /\ GiveUp
  /\ UNCHANGED <<lists, waited, call, byUuid, selected>>

\* The flag is up or the time is over: 0 in both cases, and the operation announces success.
WaitReturns ==
  /\ pc = "wait" /\ (g_doneCB \/ waited >= CALLBACK_TIMEOUT)
  /\ pc' = "menu"
  /\ result' = "ok"
  /\ UNCHANGED pending
  /\ GiveUp
  /\ UNCHANGED <<lists, g_doneCB, waited, call, byUuid, selected, ran>>

waitCallbackRet == WaitProcess \/ WaitFails \/ WaitReturns

\* Menu item 99: OCStop, and both lists are deleted.
Exit ==
  /\ pc = "menu"
  /\ pc' = "stopped"
  /\ g_own_list' = NULL /\ g_unown_list' = NULL
  /\ pending' = {}
  /\ UNCHANGED <<g_own_cnt, g_unown_cnt, g_doneCB, waited, call, byUuid, selected, result,
                 ran, givenUp>>

Operation ==
  \/ discoverAllDevices \/ discoverUnownedDevices \/ discoverOwnedDevices
  \/ registerDevices \/ provisionPairwise \/ provisionCred \/ provisionAcl
  \/ provisionDirectPairing \/ checkLinkedStatus \/ getCred \/ getAcl
  \/ unlinkPairwise \/ removeDevice \/ removeDeviceWithUuid \/ resetDevice

Terminated == pc = "stopped" /\ UNCHANGED vars

Next == Operation \/ waitCallbackRet \/ Exit \/ Terminated

\* The program runs on inside waitCallbackRet; nobody has to choose a menu item, no callback
\* has to come, and OCProcess need not fail.
Fairness == WF_vars(WaitProcess \/ WaitReturns)

Spec == Init /\ [][Next]_vars
FairSpec == Spec /\ Fairness

-----------------------------------------------------------------------------
Calls == 1 .. MaxCalls

TypeOK ==
  /\ g_own_list \in Lists /\ g_unown_list \in Lists
  /\ g_own_cnt \in Lists /\ g_unown_cnt \in Lists
  /\ g_doneCB \in BOOLEAN
  /\ pc \in {"menu", "wait", "stopped"}
  /\ waited \in 0 .. CALLBACK_TIMEOUT
  /\ call \in 0 .. MaxCalls
  /\ byUuid \in BOOLEAN
  /\ pending \subseteq Calls /\ ran \subseteq Calls /\ givenUp \subseteq Calls
  /\ selected \subseteq 1 .. MaxDevices
  /\ result \in {"ok", "error", "empty"}

\* The numbers a user picks are of devices in the list, though they are checked against
\* the count, which a failed discovery leaves behind: getDevInst never returns NULL to the
\* callers that do not look at its result (provisionPairwise, removeDevice, ...).
SelectionInList == [][selected' = selected \/ selected' \subseteq 1 .. g_own_list]_vars

\* An operation that announces success before its time is over has had its own callback,
\* or an earlier one was given up and its callback came late: two operations that both
\* wait for g_doneCB are not confused otherwise.
EarlyReturnIsOwn ==
  [][ pc = "wait" /\ pc' = "menu" /\ result' = "ok" /\ waited < CALLBACK_TIMEOUT
        => call \in ran \/ \E c \in givenUp \cap ran : c < call ]_vars

\* A callback ends the wait for it, also when it ran inside the API call, before the wait
\* began; not so in removeDeviceWithUuid, which then waits until its time is over.
CallbackEndsWait == pc = "wait" /\ ~byUuid /\ call \in ran => g_doneCB

\* No operation waits for ever, even for a callback that never comes.
WaitEnds == (pc = "wait") ~> (pc = "menu")

-----------------------------------------------------------------------------
(* The inductive invariant.                                                *)

\* A list that is there has as many devices as were counted.
ListInv == g_own_list # NULL => g_own_cnt = g_own_list

\* A flag that is up was raised by a callback since this call began, and only this call and
\* those that were given up are owed a callback.
WaitInv ==
  /\ CallbackEndsWait
  /\ pc = "menu" => pending \subseteq givenUp
  /\ pc = "wait" => pending \subseteq givenUp \cup {call}
  /\ pc = "wait" /\ g_doneCB => call \in ran \/ \E c \in givenUp \cap ran : c < call
  /\ pc = "wait" => \A c \in givenUp : c < call
  /\ \A c \in givenUp \cup ran : c <= call

IInv == TypeOK /\ ListInv /\ WaitInv

\* How many steps a wait still has, at most.
WaitRank == IF pc = "wait" THEN CALLBACK_TIMEOUT + 1 - waited ELSE 0

\* Every step in waitCallbackRet brings the return closer, whichever callbacks it runs.
WaitAdvances == [][pc = "wait" => WaitRank' < WaitRank]_vars

\* provisioningclient.c:424, and the same at each such call: "calling this API with
\* callback actually acts like blocking".
ActsLikeBlocking == [][pc = "wait" /\ pc' = "menu" /\ result' = "ok" => call \in ran]_vars
=============================================================================
