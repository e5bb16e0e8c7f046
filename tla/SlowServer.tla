---------------------------- MODULE SlowServer ----------------------------
(***************************************************************************)
(* The slow server of examples/SimpleClientServer/ocserverslow.cpp: the    *)
(* entity handler queues a copy of each request and arms a one-shot alarm; *)
(* the alarm's signal handler, which may run between any two steps of the  *)
(* main thread, serves the oldest request.  The main loop ends on SIGINT,  *)
(* frees what is queued and stops the stack.                               *)
(*                                                                         *)
(* A PUT is named by the value it carries, so that the LED's state and     *)
(* power are one value: the last PUT that was applied.                     *)
(***************************************************************************)
EXTENDS Naturals, Sequences

CONSTANTS
  Requests,   \* requests clients may send, each at most once
  Puts,       \* PUTs with a representation as payload
  Gets,       \* GETs; the rest are other methods, and PUTs with another payload
  NoPut       \* state and power given to createLEDResource

ASSUME SlowServerConstants ==
  /\ Puts \subseteq Requests /\ Gets \subseteq Requests /\ Puts \cap Gets = {}
  /\ NoPut \notin Requests

VARIABLES
  gQuitFlag,
  gRequestList,
  led,         \* LED.state and LED.power
  alarm,       \* a SIGALRM is pending
  main,        \* where the main thread is
  request,     \* the copy the entity handler works on
  iter,        \* the clean-up's position in gRequestList
  \* history
  accepted,    \* requests in the order in which they were queued
  served,      \* how many requests the alarm handler took from the list
  answers      \* responses sent: [req, value]

vars == <<gQuitFlag, gRequestList, led, alarm, main, request, iter, accepted, served, answers>>
history == <<accepted, served, answers>>

Init ==
  /\ gQuitFlag = FALSE
  /\ gRequestList = <<>>
  /\ led = NoPut
  /\ alarm = FALSE
  /\ main = "test"
  /\ request = NoPut
  /\ iter = 1
  /\ accepted = <<>> /\ served = 0 /\ answers = <<>>

Alive == main \notin {"stopped", "aborted", "crashed"}
Queued == {gRequestList[k] : k \in DOMAIN gRequestList}
Accepted == {accepted[k] : k \in DOMAIN accepted}

-----------------------------------------------------------------------------
(* Main thread.                                                            *)

Goto(from, to) == main = from /\ main' = to

\* while (!gQuitFlag); sleep(2) at the end of each round needs no state of its own, for
\* nothing but the signal handlers can run in it.
LoopTest ==
  /\ Goto("test", IF gQuitFlag THEN "free" ELSE "process")
  /\ UNCHANGED <<gQuitFlag, gRequestList, led, alarm, request, iter, history>>

ProcessNothing ==
  /\ Goto("process", "test")
  /\ UNCHANGED <<gQuitFlag, gRequestList, led, alarm, request, iter, history>>

\* main returns at once when OCProcess fails.
ProcessFails ==
  /\ Goto("process", "aborted")
  /\ UNCHANGED <<gQuitFlag, gRequestList, led, alarm, request, iter, history>>

\* Mutant: the result of CopyRequest is not checked, and NULL is queued.
CopyRequest_Unchecked(r) ==
  /\ Goto("process", "push")
  /\ r \notin Accepted
  /\ request' \in {r, NoPut}
  /\ UNCHANGED <<gQuitFlag, gRequestList, led, alarm, iter, history>>

\* The copy of the request; without it (ProcessNothing) the stack is told OC_EH_ERROR.
CopyRequest(r) ==
  /\ Goto("process", "push")
  /\ r \notin Accepted
  /\ request' = r
  /\ UNCHANGED <<gQuitFlag, gRequestList, led, alarm, iter, history>>

\* Mutant: push_front.
PushRequest_Front ==
  /\ Goto("push", "arm")
  /\ gRequestList' = <<request>> \o gRequestList
  /\ accepted' = Append(accepted, request)
  /\ UNCHANGED <<gQuitFlag, led, alarm, request, iter, served, answers>>

PushRequest ==
  /\ Goto("push", "arm")
  /\ gRequestList' = Append(gRequestList, request)
  /\ accepted' = Append(accepted, request)
  /\ UNCHANGED <<gQuitFlag, led, alarm, request, iter, served, answers>>

\* Mutant: the alarm is armed only for the first request in the list.
ArmAlarm_FirstOnly ==
  /\ Goto("arm", "test")
  /\ alarm' = (alarm \/ Len(gRequestList) = 1)
  /\ UNCHANGED <<gQuitFlag, gRequestList, led, request, iter, history>>

\* alarm() replaces a pending alarm, and the handler returns OC_EH_SLOW.
ArmAlarm ==
  /\ Goto("arm", "test")
  /\ alarm' = TRUE
  /\ UNCHANGED <<gQuitFlag, gRequestList, led, request, iter, history>>

OCEntityHandlerCb == (\E r \in Requests : CopyRequest(r)) \/ PushRequest \/ ArmAlarm

\* Mutant: the iterator is not advanced.
FreeRequest_NoAdvance ==
  /\ Goto("free", "free")
  /\ iter <= Len(gRequestList)
  /\ UNCHANGED vars

\* The clean-up frees one request per step and clears the list at the end.
FreeRequest ==
  /\ Goto("free", "free")
  /\ iter <= Len(gRequestList)
  /\ iter' = iter + 1
  /\ UNCHANGED <<gQuitFlag, gRequestList, led, alarm, request, history>>

\* Mutant: the list is not cleared.
ClearList_Kept ==
  /\ Goto("free", "stop")
  /\ iter > Len(gRequestList)
  /\ UNCHANGED <<gQuitFlag, gRequestList, led, alarm, request, iter, history>>

ClearList ==
  /\ Goto("free", "stop")
  /\ iter > Len(gRequestList)
  /\ gRequestList' = <<>>
  /\ UNCHANGED <<gQuitFlag, led, alarm, request, iter, history>>

\* OCStop, and main returns.
Stop ==
  /\ Goto("stop", "stopped")
  /\ UNCHANGED <<gQuitFlag, gRequestList, led, alarm, request, iter, history>>

Main == LoopTest \/ ProcessNothing \/ ProcessFails \/ OCEntityHandlerCb
          \/ FreeRequest \/ ClearList \/ Stop

-----------------------------------------------------------------------------
(* Signal handlers: each runs to its end before main goes on.              *)

handleSigInt ==
  /\ Alive /\ ~gQuitFlag
  /\ gQuitFlag' = TRUE
  /\ UNCHANGED <<gRequestList, led, alarm, main, request, iter, history>>

\* Mutant: the response is built before the PUT is applied.
ProcessGetPutRequest_AnswersFirst(r) ==
  /\ led' = IF r \in Puts THEN r ELSE led
  /\ answers' = IF r \in Puts \cup Gets THEN Append(answers, [req |-> r, value |-> led])
                                        ELSE answers

\* A PUT is applied, and a GET or PUT answered with the LED as it is then.
ProcessGetPutRequest(r) ==
  /\ led' = IF r \in Puts THEN r ELSE led
  /\ answers' = IF r \in Puts \cup Gets THEN Append(answers, [req |-> r, value |-> led'])
                                        ELSE answers

\* The alarm is armed again when the list has become empty, not when requests are left.
\* While the clean-up walks through the list, taking the front either invalidates its
\* iterator or uses a request it freed: the program crashes, or goes on as if it had not.
AlarmHandler ==
  /\ Alive /\ alarm
  /\ \/ /\ gRequestList = <<>>
        /\ alarm' = FALSE
        /\ UNCHANGED <<gRequestList, led, main, iter, served, answers>>
     \/ /\ gRequestList # <<>>
        /\ gRequestList' = Tail(gRequestList)
        /\ served' = served + 1
        /\ ProcessGetPutRequest(Head(gRequestList))
        /\ alarm' = (gRequestList' = <<>>)
        /\ iter' = IF iter > 1 THEN iter - 1 ELSE iter
        /\ \/ UNCHANGED main
           \/ main = "free" /\ main' = "crashed"
  /\ UNCHANGED <<gQuitFlag, request, accepted>>

Terminated == ~Alive /\ UNCHANGED vars

Next == Main \/ handleSigInt \/ AlarmHandler \/ Terminated

\* The main thread runs, and a pending alarm rings.
Fairness == WF_vars(Main) /\ WF_vars(AlarmHandler)

Spec == Init /\ [][Next]_vars
FairSpec == Spec /\ Fairness

-----------------------------------------------------------------------------
TypeOK ==
  /\ gQuitFlag \in BOOLEAN
  /\ gRequestList \in Seq(Requests)
  /\ led \in Requests \cup {NoPut}
  /\ alarm \in BOOLEAN
  /\ main \in {"test", "process", "push", "arm", "free", "stop",
               "stopped", "aborted", "crashed"}
  /\ request \in Requests \cup {NoPut}
  /\ main = "push" => request \in Requests
  /\ iter \in Nat
  /\ accepted \in Seq(Requests)
  /\ served \in Nat
  /\ answers \in Seq([req : Requests, value : Requests \cup {NoPut}])

\* The list is what was accepted and not served yet, in the order of arrival, until the
\* clean-up drops it.
ListIsBacklog ==
  main \notin {"stop", "stopped"} =>
    /\ served + Len(gRequestList) = Len(accepted)
    /\ \A k \in DOMAIN gRequestList : gRequestList[k] = accepted[served + k]

\* The server implements the promise of InOrderResponder: requests are served once and in
\* order, however the alarm falls between the steps of the main thread.
Responder == INSTANCE InOrderResponder
  WITH log <- accepted, done <- served, value <- led
ImplementsResponder == Responder!Spec

\* Once the queue is dropped no response is sent, though an alarm may still be pending.
NothingAfterClear ==
  [][(main \in {"stop", "stopped"}) => UNCHANGED <<led, answers>>]_vars

\* The inductive invariant: what is pushed is new, and the clean-up leaves nothing behind.
ListInv ==
  /\ ListIsBacklog
  /\ main = "push" => \A k \in DOMAIN accepted : accepted[k] # request
  /\ main \in {"stop", "stopped"} => gRequestList = <<>>

IInv == TypeOK /\ ListInv

\* The clean-up's iterator stays in the list, or one past its end, although the alarm may
\* take the front from under it.
IterInv ==
  /\ main \in {"test", "process", "push", "arm"} => iter = 1
  /\ main = "free" => iter \in 1 .. Len(gRequestList) + 1

\* How many steps are left after SIGINT, at most: main's, one alarm for every request in
\* the list and for the one being queued, and what the clean-up has not freed yet.
MainRank == CASE main = "process" -> 11
              [] main = "push" -> 10
              [] main = "arm" -> 5
              [] main = "test" -> 3
              [] main = "free" -> 3 - iter
              [] main = "stop" -> 1
              [] OTHER -> 0
ListRank == 4 * Len(gRequestList) + (IF alarm THEN 1 ELSE 0)
ShutdownRank == IF Alive THEN MainRank + ListRank ELSE 0

\* After SIGINT every step, of main or of an alarm that interrupts it, brings the end
\* closer: no alarm arms another one for ever, and the clean-up is never thrown back by an
\* alarm that takes a request from the list it walks through.
ShutdownAdvances == [][gQuitFlag => ShutdownRank' < ShutdownRank]_vars

\* Each arrival gets the oldest waiting request served, or the server ends: a request that
\* finds the queue empty never waits for another one.
ArrivalServesOldest ==
  \A r \in Requests :
    (main = "arm" /\ gRequestList # <<>> /\ Head(gRequestList) = r)
      ~> (r \notin Queued \/ gQuitFlag \/ ~Alive)

\* SIGINT always ends the server.
ShutdownCompletes == gQuitFlag ~> ~Alive

\* ocserverslow.cpp:308, "If there are more requests in list, re-arm the alarm signal":
\* in the main loop, and outside of the entity handler, a backlog has an alarm.
BacklogIsArmed ==
  main \in {"test", "process"} /\ gRequestList # <<>> => alarm
=============================================================================
