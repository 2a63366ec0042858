--------------------------- MODULE SetupContract ---------------------------
(***************************************************************************)
(* What a setup step promises the workflow that uses it, whatever happens  *)
(* inside: every request is answered by exactly the environment promised   *)
(* for it, or by a failure that delivers none.                             *)
(***************************************************************************)
CONSTANTS
  Requests,     \* what a workflow may ask for
  Promise(_),   \* the environment promised for a request
  Nothing       \* no environment

VARIABLES
  status,       \* "idle", "running", "ready" or "failed"
  request,      \* the request being answered, or answered last
  given         \* the environment it was given

Init ==
  /\ status = "idle"
  /\ request \in Requests
  /\ given = Nothing

Ask(r) ==
  /\ status # "running"
  /\ status' = "running"
  /\ request' = r
  /\ given' = Nothing

Deliver ==
  /\ status = "running"
  /\ status' = "ready"
  /\ given' = Promise(request)
  /\ UNCHANGED request

Fail ==
  /\ status = "running"
  /\ status' = "failed"
  /\ UNCHANGED <<request, given>>

\* The job ends, and its machine with it.
Discard ==
  /\ status # "running"
  /\ status' = "idle"
  /\ given' = Nothing
  /\ UNCHANGED request

Next == (\E r \in Requests : Ask(r)) \/ Deliver \/ Fail \/ Discard

Spec == Init /\ [][Next]_<<status, request, given>>
=============================================================================
