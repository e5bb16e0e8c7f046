------------------------- MODULE InOrderResponder -------------------------
(***************************************************************************)
(* What a server with deferred responses promises: every request it queued *)
(* is served at most once, in the order of arrival, as if it were executed *)
(* at that moment; a GET or PUT that is served is answered with the value  *)
(* the resource has then.  Nothing is said about when, or whether, a       *)
(* request is served.                                                      *)
(***************************************************************************)
EXTENDS Naturals, Sequences

CONSTANTS
  Requests,   \* requests clients may send, each at most once
  Puts,       \* PUTs with a representation: they give the resource a new value
  Gets,       \* GETs
  NoPut       \* value of the resource before any PUT

VARIABLES
  log,        \* requests in the order in which they were queued
  done,       \* how many of them have been served
  value,      \* the last PUT served
  answers     \* responses sent: [req, value]

vars == <<log, done, value, answers>>

Init == log = <<>> /\ done = 0 /\ value = NoPut /\ answers = <<>>

Accept(r) ==
  /\ \A k \in DOMAIN log : log[k] # r
  /\ log' = Append(log, r)
  /\ UNCHANGED <<done, value, answers>>

Serve ==
  /\ done < Len(log)
  /\ done' = done + 1
  /\ value' = IF log[done + 1] \in Puts THEN log[done + 1] ELSE value
  /\ answers' = IF log[done + 1] \in Puts \cup Gets
                THEN Append(answers, [req |-> log[done + 1], value |-> value'])
                ELSE answers
  /\ UNCHANGED log

Next == (\E r \in Requests : Accept(r)) \/ Serve

Spec == Init /\ [][Next]_vars
=============================================================================
