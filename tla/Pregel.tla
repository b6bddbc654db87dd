------------------------------- MODULE Pregel -------------------------------
(***************************************************************************)
(* The bulk-synchronous model that Chapter08/bspgraph promises: in a       *)
(* superstep every vertex that is awake or has mail is computed once, on   *)
(* the mail sent in the superstep before; when all have been, and none     *)
(* failed, what was sent becomes the mail of the next superstep.  Messages *)
(* are counted, not told apart.                                            *)
(***************************************************************************)
EXTENDS Naturals

CONSTANT VertexId

VARIABLES
  present, \* the vertices of the graph
  inbox,   \* how many messages a vertex can read in this superstep
  outbox,  \* how many were sent to it in this superstep
  awake,   \* the vertex did not vote to halt
  phase,   \* "superstep" or "between"
  todo,    \* vertices this superstep has still to look at
  busy,    \* vertices being computed
  faulty   \* a vertex failed in this superstep

vars == <<present, inbox, outbox, awake, phase, todo, busy, faulty>>

Empty == [v \in VertexId |-> 0]

Init ==
  /\ present = {} /\ inbox = Empty /\ outbox = Empty
  /\ awake = [v \in VertexId |-> FALSE]
  /\ phase = "between" /\ todo = {} /\ busy = {} /\ faulty = FALSE

AddVertex(v) ==
  /\ todo = {} /\ busy = {} /\ v \notin present
  /\ present' = present \cup {v}
  /\ awake' = [awake EXCEPT ![v] = TRUE]
  /\ inbox' = [inbox EXCEPT ![v] = 0]
  /\ outbox' = [outbox EXCEPT ![v] = 0]
  /\ UNCHANGED <<phase, todo, busy, faulty>>

Clear ==
  /\ todo = {} /\ busy = {}
  /\ present' = {} /\ inbox' = Empty /\ outbox' = Empty
  /\ awake' = [v \in VertexId |-> FALSE]
  /\ phase' = "between"
  /\ UNCHANGED <<todo, busy, faulty>>

Start ==
  /\ phase = "between"
  /\ outbox = Empty
  /\ phase' = "superstep"
  /\ todo' = present
  /\ faulty' = FALSE
  /\ UNCHANGED <<present, inbox, outbox, awake, busy>>

Wake(v) ==
  /\ v \in todo /\ (awake[v] \/ inbox[v] > 0)
  /\ todo' = todo \ {v}
  /\ busy' = busy \cup {v}
  /\ awake' = [awake EXCEPT ![v] = TRUE]
  /\ UNCHANGED <<present, inbox, outbox, phase, faulty>>

Skip(v) ==
  /\ v \in todo /\ ~awake[v] /\ inbox[v] = 0
  /\ todo' = todo \ {v}
  /\ UNCHANGED <<present, inbox, outbox, awake, phase, busy, faulty>>

Read(v) ==
  /\ v \in busy /\ inbox[v] > 0
  /\ inbox' = [inbox EXCEPT ![v] = @ - 1]
  /\ UNCHANGED <<present, outbox, awake, phase, todo, busy, faulty>>

Send(u) ==
  /\ busy # {} /\ u \in present
  /\ outbox' = [outbox EXCEPT ![u] = @ + 1]
  /\ UNCHANGED <<present, inbox, awake, phase, todo, busy, faulty>>

VoteToHalt(v) ==
  /\ v \in busy
  /\ awake' = [awake EXCEPT ![v] = FALSE]
  /\ UNCHANGED <<present, inbox, outbox, phase, todo, busy, faulty>>

Finish(v) ==
  /\ v \in busy
  /\ busy' = busy \ {v}
  /\ inbox' = [inbox EXCEPT ![v] = 0]
  /\ UNCHANGED <<present, outbox, awake, phase, todo, faulty>>

Fail(v) ==
  /\ v \in busy
  /\ busy' = busy \ {v}
  /\ faulty' = TRUE
  /\ UNCHANGED <<present, inbox, outbox, awake, phase, todo>>

Deliver ==
  /\ phase = "superstep" /\ todo = {} /\ busy = {} /\ ~faulty
  /\ inbox = Empty
  /\ phase' = "between"
  /\ inbox' = outbox
  /\ outbox' = Empty
  /\ UNCHANGED <<present, awake, todo, busy, faulty>>

Next ==
  \/ \E v \in VertexId : AddVertex(v)
  \/ Clear
  \/ Start
  \/ \E v \in todo : Wake(v) \/ Skip(v)
  \/ \E v \in busy : Read(v) \/ VoteToHalt(v) \/ Finish(v) \/ Fail(v)
  \/ \E u \in present : Send(u)
  \/ Deliver

Spec == Init /\ [][Next]_vars
=============================================================================
