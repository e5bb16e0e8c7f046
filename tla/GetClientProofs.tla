-------------------------- MODULE GetClientProofs --------------------------
(* Type correctness, safety and the bounded shutdown of GetClient, for any servers and URIs. *)
EXTENDS GetClient, FiniteSetTheorems, TLAPS

\* The actions one by one, as the cases of every invariance proof below.
LEMMA StepCases ==
  ASSUME NEW P,
         LoopTest => P, ProcessNothing => P, CollectOther => P, SaveAddress => P,
         SavePort => P, SaveConnType => P, CollectDone => P, Notify => P, JoinUi => P,
         \A kind \in Kinds : ProcessResponse(kind) => P,
         \A kind \in Kinds : ProcessNullResponse(kind) => P,
         handleSigInt => P, UiTest => P, UiPrompt => P, UiQuit => P,
         \A kind \in Kinds : OCDoResource(kind) => P,
         UiAwait => P, print_resource_list => P, UiCancelled => P,
         UNCHANGED vars => P
  PROVE  [Next]_vars => P
<1>1. Main => P
  BY DEF Main, collectUniqueResource
<1>2. prompt_user => P
  BY DEF prompt_user, UiRuns
<1>. QED
  BY <1>1, <1>2 DEF Next, Terminated

\* Every variable keeps its type, whichever threads run in whichever order.
THEOREM TypeCorrect == Spec => []TypeOK
<1>1. Init => TypeOK
  <2> SUFFICES ASSUME Init PROVE TypeOK
    OBVIOUS
  <2>1. device_address \in [addr : Servers \cup {NoServer}, port : Servers \cup {NoServer}]
    BY DEF Init
  <2>. QED
    BY <2>1 DEF Init, TypeOK
<1>2. TypeOK /\ [Next]_vars => TypeOK'
  <2> SUFFICES ASSUME TypeOK PROVE [Next]_vars => TypeOK'
    OBVIOUS
  <2>1. LoopTest => TypeOK'
    BY DEF TypeOK, LoopTest, MainGoto, mainFrame, addressVars
  <2>2. ProcessNothing => TypeOK'
    BY DEF TypeOK, ProcessNothing, MainGoto, mainFrame, addressVars
  <2>3. CollectOther => TypeOK'
    BY DEF TypeOK, CollectOther, insertResource, MainGoto, mainFrame, addressVars
  <2>4. SaveAddress => TypeOK'
    BY DEF TypeOK, SaveAddress, MainGoto, mainFrame, addressVars
  <2>5. SavePort => TypeOK'
    BY DEF TypeOK, SavePort, MainGoto, mainFrame, addressVars
  <2>6. SaveConnType => TypeOK'
    BY GetClientConstants DEF TypeOK, SaveConnType, insertResource, MainGoto, mainFrame
  <2>7. CollectDone => TypeOK'
    BY DEF TypeOK, CollectDone, MainGoto, mainFrame, addressVars
  <2>8. Notify => TypeOK'
    BY DEF TypeOK, Notify, MainGoto, mainFrame, addressVars
  <2>9. JoinUi => TypeOK'
    BY DEF TypeOK, JoinUi, MainGoto, mainFrame, addressVars
  <2>10. \A kind \in Kinds : ProcessResponse(kind) => TypeOK'
    BY DEF TypeOK, ProcessResponse, MainGoto, mainFrame, addressVars
  <2>11. \A kind \in Kinds : ProcessNullResponse(kind) => TypeOK'
    BY DEF TypeOK, ProcessNullResponse, MainGoto, mainFrame, addressVars
  <2>12. handleSigInt => TypeOK'
    BY DEF TypeOK, handleSigInt, addressVars, mainVars
  <2>13. UiTest => TypeOK'
    BY DEF TypeOK, UiTest, UiGoto, uiFrame, addressVars
  <2>14. UiPrompt => TypeOK'
    BY DEF TypeOK, UiPrompt, UiGoto, uiFrame, addressVars
  <2>15. UiQuit => TypeOK'
    BY DEF TypeOK, UiQuit, UiGoto, uiFrame, addressVars
  <2>16. \A kind \in Kinds : OCDoResource(kind) => TypeOK'
    BY DEF TypeOK, OCDoResource, UiGoto, uiFrame, addressVars
  <2>17. UiAwait => TypeOK'
    BY DEF TypeOK, UiAwait, UiGoto, uiFrame, addressVars
  <2>18. print_resource_list => TypeOK'
    BY DEF TypeOK, print_resource_list, UiGoto, uiFrame, addressVars
  <2>19. UiCancelled => TypeOK'
    BY DEF TypeOK, UiCancelled, UiGoto, uiFrame, addressVars
  <2>20. UNCHANGED vars => TypeOK'
    BY DEF TypeOK, vars, addressVars, mainVars
  <2>. QED
    BY <2>1, <2>2, <2>3, <2>4, <2>5, <2>6, <2>7, <2>8, <2>9, <2>10, <2>11, <2>12, <2>13,
       <2>14, <2>15, <2>16, <2>17, <2>18, <2>19, <2>20, StepCases
<1>. QED
  BY <1>1, <1>2, PTL DEF Spec

\* The prompt is a moment of rest: no request outstanding, no service routine running; and
\* the stack is stopped after the thread has ended.
THEOREM IdleCorrect == Spec => []IdleInv
<1> USE DEF IdleInv, PromptMeansIdle, QuietAfterStop, Alive, Choosing, InRoutine, Kinds
<1>1. Init => IdleInv
  BY DEF Init
<1>2. TypeOK /\ IdleInv /\ [Next]_vars => IdleInv'
  <2> SUFFICES ASSUME TypeOK, IdleInv PROVE [Next]_vars => IdleInv'
    OBVIOUS
  <2>1. LoopTest => IdleInv'
    BY DEF LoopTest, MainGoto, mainFrame
  <2>2. ProcessNothing => IdleInv'
    BY DEF ProcessNothing, MainGoto, mainFrame
  <2>3. CollectOther => IdleInv'
    BY DEF CollectOther, MainGoto, mainFrame
  <2>4. SaveAddress => IdleInv'
    BY DEF SaveAddress, MainGoto, mainFrame
  <2>5. SavePort => IdleInv'
    BY DEF SavePort, MainGoto, mainFrame
  <2>6. SaveConnType => IdleInv'
    BY DEF SaveConnType, MainGoto, mainFrame
  <2>7. CollectDone => IdleInv'
    BY DEF CollectDone, MainGoto, mainFrame
  <2>8. Notify => IdleInv'
    BY DEF Notify, MainGoto, mainFrame
  <2>9. JoinUi => IdleInv'
    BY DEF JoinUi, MainGoto, mainFrame
  <2>10. \A kind \in Kinds : ProcessResponse(kind) => IdleInv'
    <3> SUFFICES ASSUME NEW kind \in Kinds, ProcessResponse(kind) PROVE IdleInv'
      OBVIOUS
    <3>1. outstanding' = {} /\ ~Choosing
      BY DEF ProcessResponse, MainGoto
    <3>. QED
      BY <3>1 DEF ProcessResponse, MainGoto, mainFrame
  <2>11. \A kind \in Kinds : ProcessNullResponse(kind) => IdleInv'
    <3> SUFFICES ASSUME NEW kind \in Kinds, ProcessNullResponse(kind) PROVE IdleInv'
      OBVIOUS
    <3>1. outstanding' = {} /\ ~Choosing
      BY DEF ProcessNullResponse, MainGoto
    <3>. QED
      BY <3>1 DEF ProcessNullResponse, MainGoto, mainFrame
  <2>12. handleSigInt => IdleInv'
    BY DEF handleSigInt, mainVars
  <2>13. UiTest => IdleInv'
    BY DEF UiTest, UiGoto, uiFrame, TypeOK
  <2>14. UiPrompt => IdleInv'
    BY DEF UiPrompt, UiGoto, uiFrame
  <2>15. UiQuit => IdleInv'
    BY DEF UiQuit, UiGoto, uiFrame
  <2>16. \A kind \in Kinds : OCDoResource(kind) => IdleInv'
    BY DEF OCDoResource, UiGoto, uiFrame
  <2>17. UiAwait => IdleInv'
    BY DEF UiAwait, UiGoto, uiFrame
  <2>18. print_resource_list => IdleInv'
    BY DEF print_resource_list, UiGoto, uiFrame
  <2>19. UiCancelled => IdleInv'
    BY DEF UiCancelled, UiGoto, uiFrame
  <2>20. UNCHANGED vars => IdleInv'
    BY DEF vars, mainVars
  <2>. QED
    BY <2>1, <2>2, <2>3, <2>4, <2>5, <2>6, <2>7, <2>8, <2>9, <2>10, <2>11, <2>12, <2>13,
       <2>14, <2>15, <2>16, <2>17, <2>18, <2>19, <2>20, StepCases
<1>. QED
  BY <1>1, <1>2, TypeCorrect, PTL DEF Spec

\* The user chooses only while no response is awaited or being handled.
THEOREM PromptMeansIdleAlways == Spec => []PromptMeansIdle
<1>1. IdleInv => PromptMeansIdle
  BY DEF IdleInv
<1>. QED
  BY <1>1, IdleCorrect, PTL

\* The stack is stopped only after the user's thread has ended.
THEOREM QuietAfterStopAlways == Spec => []QuietAfterStop
<1>1. IdleInv => QuietAfterStop
  BY DEF IdleInv
<1>. QED
  BY <1>1, IdleCorrect, PTL

\* The address is whole except between the steps that save it.
THEOREM AddressCorrect == Spec => []AddressInv
<1> USE DEF AddressInv, AddressWhole
<1>1. Init => AddressInv
  BY DEF Init
<1>2. TypeOK /\ IdleInv /\ AddressInv /\ [Next]_vars => AddressInv'
  <2> SUFFICES ASSUME TypeOK, IdleInv, AddressInv PROVE [Next]_vars => AddressInv'
    OBVIOUS
  <2>1. LoopTest => AddressInv'
    BY DEF LoopTest, MainGoto, addressVars
  <2>2. ProcessNothing => AddressInv'
    BY DEF ProcessNothing, MainGoto, addressVars
  <2>3. CollectOther => AddressInv'
    BY DEF CollectOther, MainGoto, addressVars
  <2>4. SaveAddress => AddressInv'
    BY DEF SaveAddress, MainGoto
  <2>5. SavePort => AddressInv'
    BY DEF SavePort, MainGoto, TypeOK
  <2>6. SaveConnType => AddressInv'
    BY DEF SaveConnType, MainGoto
  <2>7. CollectDone => AddressInv'
    BY DEF CollectDone, MainGoto, addressVars
  <2>8. Notify => AddressInv'
    BY DEF Notify, MainGoto, addressVars
  <2>9. JoinUi => AddressInv'
    BY DEF JoinUi, MainGoto, addressVars
  <2>10. \A kind \in Kinds : ProcessResponse(kind) => AddressInv'
    BY DEF ProcessResponse, MainGoto, addressVars
  <2>11. \A kind \in Kinds : ProcessNullResponse(kind) => AddressInv'
    BY DEF ProcessNullResponse, MainGoto, addressVars
  <2>12. handleSigInt => AddressInv'
    BY DEF handleSigInt, mainVars, addressVars
  <2>13. UiTest => AddressInv'
    BY DEF UiTest, uiFrame, addressVars
  <2>14. UiPrompt => AddressInv'
    BY DEF UiPrompt, uiFrame, addressVars
  <2>15. UiQuit => AddressInv'
    BY DEF UiQuit, uiFrame, addressVars
  <2>16. \A kind \in Kinds : OCDoResource(kind) => AddressInv'
    BY DEF OCDoResource, uiFrame, addressVars
  <2>17. UiAwait => AddressInv'
    BY DEF UiAwait, uiFrame, addressVars
  \* A crash while the list is printed leaves the address as it is: no routine is running.
  <2>18. print_resource_list => AddressInv'
    BY DEF print_resource_list, UiGoto, uiFrame, addressVars, IdleInv, PromptMeansIdle,
           Choosing, InRoutine
  <2>19. UiCancelled => AddressInv'
    BY DEF UiCancelled, uiFrame, addressVars
  <2>20. UNCHANGED vars => AddressInv'
    BY DEF vars, mainVars, addressVars
  <2>. QED
    BY <2>1, <2>2, <2>3, <2>4, <2>5, <2>6, <2>7, <2>8, <2>9, <2>10, <2>11, <2>12, <2>13,
       <2>14, <2>15, <2>16, <2>17, <2>18, <2>19, <2>20, StepCases
<1>. QED
  BY <1>1, <1>2, TypeCorrect, IdleCorrect, PTL DEF Spec

\* No GET is sent to an address that is put together from two servers.
THEOREM AddressIsWholeAlways == Spec => []AddressIsWhole
<1>1. IdleInv /\ AddressInv => AddressIsWhole
  BY DEF IdleInv, AddressInv, AddressIsWhole, PromptMeansIdle, Choosing, InRoutine, Kinds
<1>. QED
  BY <1>1, IdleCorrect, AddressCorrect, PTL

-----------------------------------------------------------------------------
(* What the flag waiting costs and buys.                                   *)

\* Main writes the list and the address only in a service routine, and the user's thread
\* never.
LEMMA WritesInRoutine ==
  [Next]_vars => InRoutine \/ UNCHANGED <<resourceList, device_address, conn_type>>
<1> USE DEF addressVars, uiFrame
<1>1. LoopTest \/ ProcessNothing \/ JoinUi \/ handleSigInt \/ Notify \/ CollectDone
        => UNCHANGED <<resourceList, device_address, conn_type>>
  BY DEF LoopTest, ProcessNothing, JoinUi, handleSigInt, Notify, CollectDone
<1>2. CollectOther \/ SaveAddress \/ SavePort \/ SaveConnType => InRoutine
  BY DEF CollectOther, SaveAddress, SavePort, SaveConnType, MainGoto, InRoutine
<1>3. \A kind \in Kinds : ProcessResponse(kind) \/ ProcessNullResponse(kind) \/ OCDoResource(kind)
        => UNCHANGED <<resourceList, device_address, conn_type>>
  BY DEF ProcessResponse, ProcessNullResponse, OCDoResource
<1>4. UiTest \/ UiPrompt \/ UiQuit \/ UiAwait \/ print_resource_list \/ UiCancelled
        => UNCHANGED <<resourceList, device_address, conn_type>>
  BY DEF UiTest, UiPrompt, UiQuit, UiAwait, print_resource_list, UiCancelled
<1>5. UNCHANGED vars => UNCHANGED <<resourceList, device_address, conn_type>>
  BY DEF vars
<1>. QED
  BY <1>1, <1>2, <1>3, <1>4, <1>5, StepCases

\* The list and the address are never written under the user's thread while it reads them.
THEOREM NoConcurrentWriteAlways == Spec => NoConcurrentWrite
<1>1. IdleInv /\ [Next]_vars
        => [Choosing => UNCHANGED <<resourceList, device_address, conn_type>>]_vars
  <2> SUFFICES ASSUME IdleInv, [Next]_vars, Choosing
               PROVE  UNCHANGED <<resourceList, device_address, conn_type>>
    OBVIOUS
  <2>1. CASE InRoutine
    <3>1. ~Alive
      BY <2>1 DEF IdleInv, PromptMeansIdle
    <3>. QED
      BY <2>1, <3>1 DEF Alive, InRoutine
  <2>. QED
    BY <2>1, WritesInRoutine
<1>. QED
  BY <1>1, IdleCorrect, PTL DEF Spec, NoConcurrentWrite

\* Only who was told to quit is cancelled; a join comes after the cancellation; and the
\* temperature resource is saved while it is still to be inserted.
THEOREM JoinCorrect == Spec => []JoinInv
<1> USE DEF JoinInv
<1>1. Init => JoinInv
  BY DEF Init
<1>2. JoinInv /\ [Next]_vars => JoinInv'
  <2> SUFFICES ASSUME JoinInv PROVE [Next]_vars => JoinInv'
    OBVIOUS
  <2>1. LoopTest => JoinInv'
    BY DEF LoopTest, MainGoto, mainFrame
  <2>2. ProcessNothing \/ JoinUi \/ Notify \/ CollectDone => JoinInv'
    BY DEF ProcessNothing, JoinUi, Notify, CollectDone, MainGoto, mainFrame
  <2>3. CollectOther \/ SaveAddress \/ SavePort \/ SaveConnType => JoinInv'
    BY DEF CollectOther, SaveAddress, SavePort, SaveConnType, MainGoto, mainFrame
  <2>4. \A kind \in Kinds : ProcessResponse(kind) \/ ProcessNullResponse(kind) => JoinInv'
    BY DEF ProcessResponse, ProcessNullResponse, MainGoto, mainFrame
  <2>5. handleSigInt => JoinInv'
    BY DEF handleSigInt, mainVars
  <2>6. \A kind \in Kinds : OCDoResource(kind) => JoinInv'
    BY DEF OCDoResource, uiFrame
  <2>7. UiTest \/ UiPrompt \/ UiQuit \/ UiAwait \/ UiCancelled => JoinInv'
    BY DEF UiTest, UiPrompt, UiQuit, UiAwait, UiCancelled, uiFrame
  <2>8. print_resource_list => JoinInv'
    BY DEF print_resource_list, uiFrame
  <2>9. UNCHANGED vars => JoinInv'
    BY DEF vars, mainVars
  <2>. QED
    BY <2>1, <2>2, <2>3, <2>4, <2>5, <2>6, <2>7, <2>8, <2>9, StepCases
<1>. QED
  BY <1>1, <1>2, PTL DEF Spec

\* A response that comes before the flag is raised leaves the user's thread waiting for
\* good: only SIGINT gets it out.
THEOREM MissedResponseIsFinalAlways == Spec => MissedResponseIsFinal
<1>1. JoinInv /\ [Next]_vars
        => [Alive /\ ui = "test" /\ waiting /\ outstanding = {} /\ ~InRoutine
              => waiting' /\ ui' \in {"test", "exit"} /\ (ui' = "exit" => gQuitFlag)]_vars
  <2> DEFINE Waits == waiting' /\ ui' \in {"test", "exit"} /\ (ui' = "exit" => gQuitFlag)
  <2> SUFFICES ASSUME JoinInv, ui = "test", waiting, outstanding = {}, ~InRoutine
               PROVE  [Next]_vars => Waits
    OBVIOUS
  <2>1. LoopTest \/ ProcessNothing \/ JoinUi => Waits
    BY DEF LoopTest, ProcessNothing, JoinUi, mainFrame
  <2>2. CollectOther \/ SaveAddress \/ SavePort \/ SaveConnType \/ CollectDone \/ Notify => Waits
    BY DEF CollectOther, SaveAddress, SavePort, SaveConnType, CollectDone, Notify,
           MainGoto, InRoutine
  <2>3. \A kind \in Kinds : ProcessResponse(kind) \/ ProcessNullResponse(kind) => Waits
    BY DEF ProcessResponse, ProcessNullResponse
  <2>4. handleSigInt \/ UNCHANGED vars => Waits
    BY DEF handleSigInt, vars
  <2>5. UiTest => Waits
    BY DEF UiTest, UiGoto
  <2>6. UiPrompt \/ UiQuit \/ UiAwait \/ print_resource_list => Waits
    BY DEF UiPrompt, UiQuit, UiAwait, print_resource_list, UiGoto
  <2>7. \A kind \in Kinds : OCDoResource(kind) => Waits
    BY DEF OCDoResource, UiGoto, Kinds
  <2>8. UiCancelled => Waits
    BY DEF UiCancelled, UiGoto, JoinInv
  <2>. QED
    BY <2>1, <2>2, <2>3, <2>4, <2>5, <2>6, <2>7, <2>8, StepCases
<1>. QED
  BY <1>1, JoinCorrect, PTL DEF Spec, MissedResponseIsFinal

-----------------------------------------------------------------------------
(* The shutdown ends: a rank that every step after SIGINT lowers.          *)

\* What is taken out of the resources of a response makes them fewer.
LEMMA UrisCounted ==
  ASSUME TypeOK
  PROVE  /\ Cardinality(Uris) \in Nat /\ Cardinality(uris) \in Nat
         /\ \A uri \in uris : Cardinality(uris \ {uri}) = Cardinality(uris) - 1
         /\ \A T \in SUBSET Uris : Cardinality(T) \in Nat /\ Cardinality(T) <= Cardinality(Uris)
<1>1. IsFiniteSet(Uris) /\ uris \subseteq Uris
  BY GetClientConstants DEF TypeOK
<1>2. \A T \in SUBSET Uris : /\ IsFiniteSet(T) /\ Cardinality(T) <= Cardinality(Uris)
  BY <1>1, FS_Subset
<1>3. \A T \in SUBSET Uris : Cardinality(T) \in Nat
  BY <1>2, FS_CardinalityType
<1>4. \A uri \in uris : Cardinality(uris \ {uri}) = Cardinality(uris) - 1
  BY <1>1, <1>2, FS_RemoveElement
<1>. QED
  BY <1>1, <1>2, <1>3, <1>4

\* The rank is a natural number.
LEMMA RankIsNatural == TypeOK => ShutdownRank \in Nat
BY UrisCounted DEF ShutdownRank, MainRank, UiRank

\* After SIGINT or "q" the two threads have a bounded number of steps, the user's answers
\* included.
THEOREM ShutdownBounded == Spec => ShutdownAdvances /\ [](ShutdownRank \in Nat)
<1>1. TypeOK => ShutdownRank \in Nat
  BY RankIsNatural
<1>2. TypeOK /\ JoinInv /\ [Next]_vars => [gQuitFlag => ShutdownRank' < ShutdownRank]_vars
  <2> DEFINE Lowered == ShutdownRank' < ShutdownRank \/ UNCHANGED vars
  <2> SUFFICES ASSUME TypeOK, JoinInv, gQuitFlag
               PROVE  [Next]_vars => Lowered
    OBVIOUS
  <2>1. /\ Cardinality(Uris) \in Nat /\ Cardinality(uris) \in Nat
        /\ \A uri \in uris : Cardinality(uris \ {uri}) = Cardinality(uris) - 1
        /\ \A T \in SUBSET Uris : Cardinality(T) \in Nat /\ Cardinality(T) <= Cardinality(Uris)
    BY UrisCounted
  <2> USE <2>1 DEF MainGoto, UiGoto, ShutdownRank, MainRank, UiRank
  <2>2. LoopTest \/ ProcessNothing \/ JoinUi \/ Notify => Lowered
    <3>1. LoopTest \/ ProcessNothing \/ JoinUi \/ Notify
            => /\ \/ main = "test" /\ main' = "join"
                  \/ main = "process" /\ main' \in {"test", "aborted"}
                  \/ main = "join" /\ main' = "stopped"
                  \/ main = "notify" /\ main' = "test"
               /\ ui' = ui
      BY DEF LoopTest, ProcessNothing, JoinUi, Notify, mainFrame
    <3>. QED
      BY <3>1
  <2>3. CollectOther => Lowered
    BY DEF CollectOther, insertResource, mainFrame
  <2>4. SaveAddress \/ SavePort \/ CollectDone => Lowered
    <3>1. SaveAddress \/ SavePort \/ CollectDone
            => /\ \/ main = "collect" /\ main' = "port"
                  \/ main = "port" /\ main' = "conn"
                  \/ main = "collect" /\ main' = "notify"
               /\ uris' = uris /\ ui' = ui
      BY DEF SaveAddress, SavePort, CollectDone, mainFrame
    <3>. QED
      BY <3>1
  <2>5. SaveConnType => Lowered
    BY DEF SaveConnType, insertResource, mainFrame, JoinInv
  <2>6. \A kind \in Kinds : ProcessResponse(kind) => Lowered
    <3> SUFFICES ASSUME NEW kind \in Kinds, ProcessResponse(kind) PROVE Lowered
      OBVIOUS
    <3>1. main = "process" /\ main' \in {"collect", "notify"} /\ ui' = ui /\ uris' \subseteq Uris
      BY DEF ProcessResponse, mainFrame
    <3>. QED
      BY <3>1
  <2>7. \A kind \in Kinds : ProcessNullResponse(kind) => Lowered
    BY DEF ProcessNullResponse, mainFrame
  <2>8. handleSigInt => Lowered
    BY DEF handleSigInt
  <2>9. UiTest \/ UiPrompt \/ UiQuit \/ UiAwait => Lowered
    <3>1. UiTest \/ UiPrompt \/ UiQuit \/ UiAwait
            => /\ \/ ui = "test" /\ ui' = "exit"
                  \/ ui = "prompt" /\ ui' \in Kinds \cup {"list", "test"}
                  \/ ui = "await" /\ ui' = "test"
               /\ main' = main /\ uris' = uris
      BY DEF UiTest, UiPrompt, UiQuit, UiAwait, uiFrame
    <3>. QED
      BY <3>1 DEF Kinds
  <2>10. print_resource_list => Lowered
    BY DEF print_resource_list, uiFrame, Kinds
  <2>11. \A kind \in Kinds : OCDoResource(kind) => Lowered
    BY DEF OCDoResource, uiFrame, Kinds
  <2>12. UiCancelled => Lowered
    BY DEF UiCancelled, uiFrame, Kinds
  <2>13. UNCHANGED vars => Lowered
    OBVIOUS
  <2>. QED
    BY <2>2, <2>3, <2>4, <2>5, <2>6, <2>7, <2>8, <2>9, <2>10, <2>11, <2>12, <2>13,
       StepCases
<1>. QED
  BY <1>1, <1>2, TypeCorrect, JoinCorrect, PTL DEF Spec, ShutdownAdvances
=============================================================================
