---------------------------- MODULE EgressLedger ----------------------------
(***************************************************************************)
(* What llm_egress_events promises of model requests, whoever makes them   *)
(* and whatever fails: no request leaves before its authorization is on    *)
(* record, none leaves twice, completion is recorded only of one that      *)
(* left, and a failure on record is the last word.                         *)
(***************************************************************************)
CONSTANT Request

VARIABLES
  events,   \* the statuses on record for each request
  egress    \* the requests that left

vars == <<events, egress>>

Init ==
  /\ events = [r \in Request |-> {}]
  /\ egress = {}

Record(r, status) == events' = [events EXCEPT ![r] = @ \cup {status}]

Authorize(r) ==
  /\ events[r] = {}
  /\ Record(r, "authorized")
  /\ UNCHANGED egress

Send(r) ==
  /\ events[r] = {"authorized"}
  /\ r \notin egress
  /\ egress' = egress \cup {r}
  /\ UNCHANGED events

Complete(r) ==
  /\ r \in egress
  /\ events[r] = {"authorized"}
  /\ Record(r, "completed")
  /\ UNCHANGED egress

\* Also after a completion that the caller was not told of.
Fail(r) ==
  /\ "authorized" \in events[r]
  /\ "failed" \notin events[r]
  /\ Record(r, "failed")
  /\ UNCHANGED egress

Next == \E r \in Request : Authorize(r) \/ Send(r) \/ Complete(r) \/ Fail(r)

Spec == Init /\ [][Next]_vars
=============================================================================
