-------------------------- MODULE PipelineContract --------------------------
(***************************************************************************)
(* What Pipeline.Process promises its caller, with no goroutine, channel   *)
(* or context in sight: payloads are accepted in order; each is completed  *)
(* (marked as processed) once or given up, and it is given up only after a *)
(* failure or after the caller's context ended; Process returns when no    *)
(* payload is in flight, with an error exactly if something failed.        *)
(***************************************************************************)
EXTENDS Naturals

VARIABLES
  accepted,  \* how many payloads were taken from the source
  inFlight,  \* accepted payloads not yet completed or given up
  completed, \* payloads marked as processed
  broken,    \* some processor, the sink or the source failed
  timedOut,  \* the caller's context ended
  status     \* "running", or Process returned "ok" or "error"

vars == <<accepted, inFlight, completed, broken, timedOut, status>>

Init ==
  /\ accepted = 0
  /\ inFlight = {}
  /\ completed = {}
  /\ broken = FALSE
  /\ timedOut = FALSE
  /\ status = "running"

Accept ==
  /\ status = "running"
  /\ accepted' = accepted + 1
  /\ inFlight' = inFlight \cup {accepted + 1}
  /\ UNCHANGED <<completed, broken, timedOut, status>>

Complete(p) ==
  /\ p \in inFlight
  /\ inFlight'  = inFlight \ {p}
  /\ completed' = completed \cup {p}
  /\ UNCHANGED <<accepted, broken, timedOut, status>>

\* The step that handles p fails, or the source reports an error.
FailOn(p) ==
  /\ p \in inFlight
  /\ inFlight' = inFlight \ {p}
  /\ broken' = TRUE
  /\ UNCHANGED <<accepted, completed, timedOut, status>>

FailSource ==
  /\ status = "running"
  /\ broken' = TRUE
  /\ UNCHANGED <<accepted, inFlight, completed, timedOut, status>>

GiveUp(p) ==
  /\ broken \/ timedOut
  /\ p \in inFlight
  /\ inFlight' = inFlight \ {p}
  /\ UNCHANGED <<accepted, completed, broken, timedOut, status>>

TimeOut ==
  /\ timedOut' = TRUE
  /\ UNCHANGED <<accepted, inFlight, completed, broken, status>>

Return ==
  /\ status = "running" /\ inFlight = {}
  /\ status' = IF broken THEN "error" ELSE "ok"
  /\ UNCHANGED <<accepted, inFlight, completed, broken, timedOut>>

Next ==
  \/ Accept
  \/ \E p \in inFlight : Complete(p) \/ FailOn(p) \/ GiveUp(p)
  \/ FailSource
  \/ TimeOut
  \/ Return

Spec == Init /\ [][Next]_vars
=============================================================================
