--------------------------- MODULE BspGraphProof ---------------------------
(***************************************************************************)
(* Proofs about BspGraph, for any numbers of vertices and workers and any  *)
(* bounds.                                                                 *)
(***************************************************************************)
EXTENDS BspGraph, FiniteSetTheorems, TLAPS

(***************************************************************************)
(* The inductive invariant.                                                *)
(***************************************************************************)

InStep  == masterPc \in {"feed", "await"}
Stepped == masterPc \in {"feed", "await", "errs", "post"}

Touching(w) == wpc[w] \in {"test", "compute", "count"}

\* The vertices that may still read what they were sent, and those that
\* pendingInStep counts.
Unread == {v \in vertices : \/ v \in unfed
                            \/ \E w \in Worker : wpc[w] \in {"test", "compute"} /\ wv[w] = v}

Open == {v \in vertices : \/ v \in unfed
                          \/ \E w \in Worker : Touching(w) /\ wv[w] = v}

\* step feeds vertices of the graph while there are any, and only in a step.
FeedingPlace ==
  /\ unfed \subseteq vertices
  /\ unfed # {} <=> masterPc = "feed"

\* A worker has a vertex from the moment it receives it to the moment it waits
\* for the next; it is one of the graph, fed to no other worker.
WorkersHold ==
  \A w \in Worker :
    /\ wv[w] # NoVertex <=> Touching(w) \/ wpc[w] = "signal"
    /\ Touching(w) \/ wpc[w] = "signal" => InStep /\ wv[w] \in vertices \ unfed
    /\ wpc[w] = "done" => closed

NoSharing ==
  \A w, x \in Worker : wv[w] = wv[x] /\ wv[w] # NoVertex => w = x

ClosedPlace == closed <=> masterPc \in {"closing", "closed"}

\* pendingInStep counts the vertices that are not done with, and who signals
\* is alone.
PendingCounts ==
  /\ InStep => pending = Cardinality(Open)
  /\ \A w \in Worker : wpc[w] = "signal" =>
       /\ pending = 0
       /\ \A x \in Worker : wpc[x] = "signal" => x = w

\* What was due when the step began is either computed or still untested, and
\* what is untested has not changed.
DueAccounted ==
  Stepped =>
    /\ due \subseteq VertexId
    /\ \A v \in VertexId : computed[v] = IF v \in due \ Untested THEN 1 ELSE 0
    /\ activeInStep = Cardinality(due \ Untested)
    /\ \A v \in Untested : v \in due <=> active[v] \/ queue[v][Current] # <<>>

AbsentIsBlank ==
  \A v \in VertexId \ vertices : ~active[v] /\ queue[v] = NoMessages

\* The count of supersteps, kept from above by the supersteps executed.
SuperstepBound == superstep + (IF Stepped THEN 1 ELSE 0) <= round

ErrorsInStep ==
  IF masterPc \in {"feed", "await", "errs"} THEN errCh > 0 <=> failed
                                            ELSE errCh = 0

\* All messages of a queue should be processed in superstep r, or none later.
Due(q, r)  == \A i \in DOMAIN q : q[i] = r
Upto(q, r) == \A i \in DOMAIN q : q[i] <= r

\* No message is early.
NeverEarly ==
  \A v \in VertexId :
    /\ Upto(queue[v][Filling], round + 1)
    /\ Upto(queue[v][Current], IF Stepped THEN round ELSE round + 1)

BrokePlace ==
  /\ broke => masterPc \in {"idle", "closing", "closed"}
  /\ masterPc = "post" => ~failed

\* Unless the client resumed, no message is late: in a superstep what is in
\* the current buffer is due now, and belongs to a vertex that may still read
\* it, if no compute function failed; outside one, the other buffer is empty.
NeverLateInStep ==
  Stepped /\ ~resumed =>
    \A v \in VertexId :
      /\ Due(queue[v][Current], round)
      /\ Due(queue[v][Filling], round + 1)
      /\ queue[v][Current] # <<>> => failed \/ v \in Unread

NeverLateBetween ==
  ~Stepped /\ ~resumed /\ ~broke =>
    \A v \in VertexId :
      /\ Due(queue[v][Current], round + 1)
      /\ queue[v][Filling] = <<>>

IInv ==
  /\ TypeOK
  /\ FeedingPlace
  /\ WorkersHold
  /\ NoSharing
  /\ ClosedPlace
  /\ PendingCounts
  /\ DueAccounted
  /\ AbsentIsBlank
  /\ SuperstepBound
  /\ ErrorsInStep
  /\ NeverEarly
  /\ BrokePlace
  /\ NeverLateInStep
  /\ NeverLateBetween

-----------------------------------------------------------------------------
(* Lemmas about the operators of the model.                                *)

\* The current buffer and the one that is filled are always the two different
\* ones; they stay while the superstep counter does, and swap when it advances.
LEMMA Buffers ==
  ASSUME TypeOK
  PROVE  /\ Current \in 0..1 /\ Filling \in 0..1 /\ Current # Filling
         /\ \A b \in 0..1 : b = Current \/ b = Filling
         /\ superstep' \in Nat => Current' \in 0..1 /\ Filling' \in 0..1
         /\ superstep' = superstep => Current' = Current /\ Filling' = Filling
         /\ superstep' = superstep + 1 => Current' = Filling /\ Filling' = Current
  <1>1. superstep \in Nat
    BY BoundsAssumption DEF TypeOK
  <1>2. \A n \in Nat : /\ n % 2 \in 0..1 /\ (n + 1) % 2 = 1 - (n % 2)
                       /\ ((n + 1) + 1) % 2 = n % 2
    OBVIOUS
  <1> QED BY <1>1, <1>2 DEF Current, Filling

\* A new vertex has two empty queues.
LEMMA Blank ==
  /\ NoMessages \in [0..1 -> Seq(1..(MaxRounds + 1))]
  /\ \A b \in 0..1 : NoMessages[b] = <<>>
  /\ \A r : Due(<<>>, r) /\ Upto(<<>>, r)
  <1>1. <<>> \in Seq(1..(MaxRounds + 1)) /\ DOMAIN <<>> = {}
    OBVIOUS
  <1>2. \A r : Due(<<>>, r) /\ Upto(<<>>, r)
    BY <1>1 DEF Due, Upto
  <1> QED BY <1>1, <1>2 DEF NoMessages

\* A message appended to a queue is due, or not too late, if those in the queue
\* are.
LEMMA Appended ==
  ASSUME NEW S, NEW q \in Seq(S), NEW e \in S
  PROVE  /\ Append(q, e) \in Seq(S)
         /\ Len(Append(q, e)) = Len(q) + 1
         /\ Due(q, e) => Due(Append(q, e), e)
         /\ Upto(q, e) /\ e \in Int => Upto(Append(q, e), e)
  BY DEF Due, Upto

\* What remains of a queue without its newest message was in it.
LEMMA Remaining ==
  ASSUME NEW S, NEW q \in Seq(S), q # <<>>
  PROVE  /\ SubSeq(q, 1, Len(q) - 1) \in Seq(S)
         /\ Len(SubSeq(q, 1, Len(q) - 1)) = Len(q) - 1
         /\ \A r : Due(q, r) => Due(SubSeq(q, 1, Len(q) - 1), r)
         /\ \A r : Upto(q, r) => Upto(SubSeq(q, 1, Len(q) - 1), r)
  <1> DEFINE n == Len(q) - 1
             rest == SubSeq(q, 1, n)
  <1>1. n \in Nat /\ n < Len(q) /\ Len(q) \in Nat /\ DOMAIN q = 1..Len(q)
    OBVIOUS
  <1> HIDE DEF n
  <1>2. \A i \in 1..n : q[i] \in S /\ i \in DOMAIN q
    BY <1>1
  <1>3. rest \in Seq(S) /\ Len(rest) = n
    BY <1>1, <1>2
  <1>4. DOMAIN rest = 1..n /\ \A i \in 1..n : rest[i] = q[i]
    BY <1>1, <1>2
  <1> HIDE DEF rest
  <1>5. \A r : (Due(q, r) => Due(rest, r)) /\ (Upto(q, r) => Upto(rest, r))
    BY <1>2, <1>4 DEF Due, Upto
  <1> QED BY <1>3, <1>5 DEF n, rest

\* What was sent so far should be processed in the next superstep at the
\* latest, whichever buffer it is in; and a later bound is a bound too.
LEMMA SentSoFar ==
  ASSUME IInv, NEW v \in VertexId, NEW b \in 0..1
  PROVE  /\ Upto(queue[v][b], round + 1) /\ Upto(queue[v][b], (round + 1) + 1)
  <1> USE DEF IInv
  <1>1. queue[v][b] \in Seq(1..(MaxRounds + 1)) /\ round \in Nat
    BY BoundsAssumption DEF TypeOK
  <1>2. \A n \in Nat : Upto(queue[v][b], n) => Upto(queue[v][b], n + 1)
    <2>1. \A i \in DOMAIN queue[v][b] : queue[v][b][i] \in Nat
      BY <1>1, BoundsAssumption
    <2> QED BY <2>1 DEF Upto
  <1>3. Upto(queue[v][b], round) \/ Upto(queue[v][b], round + 1)
    BY Buffers DEF NeverEarly
  <1>4. Upto(queue[v][b], round + 1)
    BY <1>1, <1>2, <1>3
  <1> HIDE DEF IInv
  <1> QED BY <1>1, <1>2, <1>4

\* The sets of vertices the invariant counts are finite.
LEMMA Counted ==
  ASSUME IInv
  PROVE  /\ Cardinality(VertexId) \in Nat /\ Cardinality({}) = 0
         /\ \A S \in SUBSET VertexId :
              /\ IsFiniteSet(S)
              /\ Cardinality(S) \in 0..Cardinality(VertexId)
              /\ \A v \in S : /\ Cardinality(S \ {v}) = Cardinality(S) - 1
                              /\ Cardinality(S) > 0
              /\ \A v \in VertexId \ S : Cardinality(S \cup {v}) = Cardinality(S) + 1
         /\ Open \subseteq VertexId /\ Untested \subseteq VertexId
         /\ vertices \subseteq VertexId /\ due \subseteq VertexId
  <1>1. /\ vertices \subseteq VertexId /\ due \subseteq VertexId
        /\ Open \subseteq VertexId /\ Untested \subseteq VertexId
    BY DEF IInv, TypeOK, Open, Untested
  <1>2. Cardinality(VertexId) \in Nat /\ Cardinality({}) = 0
    BY VertexAssumption, FS_CardinalityType, FS_EmptySet
  <1>3. ASSUME NEW S \in SUBSET VertexId
        PROVE  IsFiniteSet(S) /\ Cardinality(S) \in 0..Cardinality(VertexId)
    BY VertexAssumption, FS_Subset, FS_CardinalityType
  <1>4. ASSUME NEW S \in SUBSET VertexId, NEW v \in S
        PROVE  Cardinality(S \ {v}) = Cardinality(S) - 1 /\ Cardinality(S) > 0
    <2>1. IsFiniteSet(S) /\ IsFiniteSet(S \ {v})
      BY <1>3
    <2>2. Cardinality(S \ {v}) = Cardinality(S) - 1
      BY <2>1, FS_RemoveElement
    <2>3. Cardinality(S \ {v}) \in Nat /\ Cardinality(S) \in Nat
      BY <2>1, FS_CardinalityType
    <2> QED BY <2>2, <2>3
  <1>5. ASSUME NEW S \in SUBSET VertexId, NEW v \in VertexId \ S
        PROVE  Cardinality(S \cup {v}) = Cardinality(S) + 1
    BY <1>3, FS_AddElement
  <1> QED BY <1>1, <1>2, <1>3, <1>4, <1>5

\* The conditions on places are about the caller alone.
Places == FeedingPlace /\ ClosedPlace /\ SuperstepBound /\ ErrorsInStep /\ BrokePlace

\* No message is early or late.
OnTime == NeverEarly /\ NeverLateInStep /\ NeverLateBetween

-----------------------------------------------------------------------------
(* The invariant holds initially, and every action keeps it.               *)

\* At first there is no vertex, no message and no superstep.
LEMMA InitIInv == Init => IInv
  <1> SUFFICES ASSUME Init PROVE IInv OBVIOUS
  <1> USE DEF Init
  <1>1. Open = {} /\ Untested = {}
    BY DEF Open, Untested
  <1>2. Cardinality(VertexId) \in Nat /\ Cardinality({}) = 0
    BY VertexAssumption, FS_CardinalityType, FS_EmptySet
  <1>3. TypeOK
    <2>1. superstep \in 0..MaxRounds /\ round \in 0..MaxRounds /\ stepsLeft \in -1..MaxSteps
      BY BoundsAssumption
    <2>2. queue \in [VertexId -> [0..1 -> Seq(1..(MaxRounds + 1))]]
      BY Blank
    <2>3. failed \in BOOLEAN /\ broke \in BOOLEAN /\ resumed \in BOOLEAN
      OBVIOUS
    <2>4. /\ wpc \in [Worker -> {"recv", "test", "compute", "count", "signal", "done"}]
          /\ wv \in [Worker -> VertexId \cup {NoVertex}]
          /\ active \in [VertexId -> BOOLEAN] /\ computed \in [VertexId -> 0..1]
      OBVIOUS
    <2> QED BY <1>2, <2>1, <2>2, <2>3, <2>4 DEF TypeOK
  <1>4. Places
    BY DEF Places, FeedingPlace, ClosedPlace, SuperstepBound, ErrorsInStep,
           BrokePlace, Stepped
  <1>5. WorkersHold /\ NoSharing /\ PendingCounts
    BY DEF WorkersHold, NoSharing, PendingCounts, InStep, Touching
  <1>6. DueAccounted /\ AbsentIsBlank
    BY DEF DueAccounted, AbsentIsBlank, Stepped
  <1>7. OnTime
    BY <1>3, Blank, Buffers
    DEF OnTime, NeverEarly, NeverLateInStep, NeverLateBetween, Stepped
  <1> QED BY <1>3, <1>4, <1>5, <1>6, <1>7 DEF IInv, Places, OnTime

\* A vertex that is added has no messages, and no worker touches it: the step
\* of the callback that adds it is over.
LEMMA AddVertexKeepsIInv ==
  ASSUME IInv, NEW v \in VertexId, AddVertex(v)
  PROVE  IInv'
  <1> USE DEF IInv, AddVertex, InCallback, vertexVars, stepVars, masterVars,
              workerVars, history
  <1>1. \A u \in VertexId : queue'[u] = queue[u] \/ queue'[u] = NoMessages
    BY DEF TypeOK
  <1>2. TypeOK'
    <2>1. queue' \in [VertexId -> [0..1 -> Seq(1..(MaxRounds + 1))]]
      BY Blank DEF TypeOK
    <2> QED BY <2>1 DEF TypeOK
  <1>3. Places'
    BY DEF Places, FeedingPlace, ClosedPlace, SuperstepBound, ErrorsInStep,
           BrokePlace, Stepped
  <1>4. WorkersHold' /\ NoSharing' /\ PendingCounts'
    BY DEF WorkersHold, NoSharing, PendingCounts, InStep, Touching
  <1>5. AbsentIsBlank'
    BY DEF AbsentIsBlank, TypeOK
  <1>6. DueAccounted'
    <2>1. Untested = {} /\ Untested' = {}
      BY DEF Untested, WorkersHold, Touching, FeedingPlace, InStep
    <2> QED BY <2>1 DEF DueAccounted, Stepped
  <1>7. OnTime'
    <2>1. Current' = Current /\ Filling' = Filling /\ {Current, Filling} \subseteq 0..1
      BY Buffers
    <2>2. \A u \in VertexId :
            \/ queue'[u] = queue[u]
            \/ queue'[u][Current] = <<>> /\ queue'[u][Filling] = <<>>
      BY <1>1, <2>1, Blank
    <2>3. Unread \subseteq Unread'
      BY DEF Unread
    <2>4. NeverEarly'
      BY <2>1, <2>2, Blank DEF NeverEarly, Stepped
    <2>5. NeverLateInStep' /\ NeverLateBetween'
      BY <2>1, <2>2, <2>3, Blank DEF NeverLateInStep, NeverLateBetween, Stepped
    <2> QED BY <2>4, <2>5 DEF OnTime
  <1> QED BY <1>2, <1>3, <1>4, <1>5, <1>6, <1>7 DEF Places, OnTime

\* Reset, and Close when the workers are gone, leave an empty graph.
LEMMA EmptyGraphKeepsIInv ==
  ASSUME IInv, Reset \/ CloseResets
  PROVE  IInv'
  <1> USE DEF IInv, Reset, CloseResets, stepVars, masterVars, workerVars
  <1>1. TypeOK'
    <2>1. queue' \in [VertexId -> [0..1 -> Seq(1..(MaxRounds + 1))]]
      BY Blank
    <2>2. active' \in [VertexId -> BOOLEAN]
      OBVIOUS
    <2>3. superstep' \in 0..MaxRounds /\ vertices' \subseteq VertexId
      BY BoundsAssumption
    <2>4. masterPc' \in {"closed", masterPc}
      OBVIOUS
    <2>5. failed' \in BOOLEAN /\ broke' \in BOOLEAN /\ resumed' \in BOOLEAN
      BY DEF TypeOK
    <2> QED BY <2>1, <2>2, <2>3, <2>4, <2>5 DEF TypeOK
  <1>2. Places'
    BY BoundsAssumption
    DEF Places, FeedingPlace, ClosedPlace, SuperstepBound, ErrorsInStep,
        BrokePlace, Stepped, TypeOK
  <1>3. WorkersHold' /\ NoSharing' /\ PendingCounts'
    BY DEF WorkersHold, NoSharing, PendingCounts, InStep, Touching, ClosedPlace
  <1>4. AbsentIsBlank' /\ DueAccounted'
    BY DEF AbsentIsBlank, DueAccounted, Stepped
  <1>5. OnTime'
    <2>1. superstep' \in Nat /\ ~Stepped'
      BY DEF Stepped
    <2>2. \A u \in VertexId : queue'[u][Current'] = <<>> /\ queue'[u][Filling'] = <<>>
      BY <2>1, Buffers, Blank
    <2> QED
      BY <2>1, <2>2, Blank DEF OnTime, NeverEarly, NeverLateInStep, NeverLateBetween
  <1> QED BY <1>1, <1>2, <1>3, <1>4, <1>5 DEF Places, OnTime

\* A move of the caller from outside a superstep to outside a superstep that
\* touches no vertex leaves the workers idle and no message early.
LEMMA OutsideStep ==
  ASSUME IInv, ~InStep, ~Stepped',
         UNCHANGED <<vertices, vertexVars, unfed, workerVars, round>>,
         superstep' \in {0, superstep, superstep + 1},
         closed => closed'
  PROVE  /\ WorkersHold' /\ NoSharing' /\ PendingCounts'
         /\ AbsentIsBlank' /\ DueAccounted'
         /\ NeverEarly' /\ NeverLateInStep'
  <1> USE DEF IInv, vertexVars, workerVars
  <1>1. ~InStep'
    BY DEF InStep, Stepped
  <1>2. WorkersHold' /\ NoSharing' /\ PendingCounts'
    BY <1>1 DEF WorkersHold, NoSharing, PendingCounts, Touching
  <1>3. AbsentIsBlank' /\ DueAccounted' /\ NeverLateInStep'
    BY DEF AbsentIsBlank, DueAccounted, NeverLateInStep
  <1>4. NeverEarly'
    <2>1. superstep' \in Nat
      BY BoundsAssumption DEF TypeOK
    <2>2. Current' \in 0..1 /\ Filling' \in 0..1
      BY <2>1, Buffers
    <2> QED BY <2>2, SentSoFar DEF NeverEarly
  <1> QED BY <1>2, <1>3, <1>4

\* Close lets the workers go, but changes no vertex.
LEMMA CloseKeepsIInv ==
  ASSUME IInv, Close
  PROVE  IInv'
  <1> USE DEF IInv, Close, graphVars, vertexVars, stepVars, workerVars, history
  <1>1. TypeOK'
    BY DEF TypeOK
  <1>2. Places'
    BY DEF Places, FeedingPlace, ClosedPlace, SuperstepBound, ErrorsInStep,
           BrokePlace, Stepped
  <1>3. ~InStep /\ ~Stepped /\ ~Stepped'
    BY DEF InStep, Stepped
  <1>4. NeverLateBetween'
    BY <1>3, Buffers DEF NeverLateBetween
  <1> QED BY <1>1, <1>2, <1>3, <1>4, OutsideStep DEF Places

\* When the count of supersteps restarts, the buffers may change roles, but then
\* the client has resumed.
LEMMA CountRestartsKeepsIInv ==
  ASSUME IInv, ResetFails \/ NewExecutor \/ CloseFails
  PROVE  IInv'
  <1> USE DEF IInv, ResetFails, NewExecutor, CloseFails, vertexVars, stepVars, masterVars,
              workerVars
  <1>1. TypeOK'
    <2>1. superstep' \in 0..MaxRounds
      BY BoundsAssumption
    <2>2. resumed' \in BOOLEAN
      BY DEF TypeOK
    <2> QED BY <2>1, <2>2 DEF TypeOK
  <1>2. Places'
    BY BoundsAssumption
    DEF Places, FeedingPlace, ClosedPlace, SuperstepBound, ErrorsInStep,
        BrokePlace, Stepped, TypeOK
  <1>3. ~InStep /\ ~Stepped /\ ~Stepped'
    BY DEF InStep, Stepped
  <1>4. NeverLateBetween'
    BY <1>3, Buffers DEF NeverLateBetween, TypeOK
  <1> QED BY <1>1, <1>2, <1>3, <1>4, OutsideStep DEF Places

\* A run begins.
LEMMA RunKeepsIInv ==
  ASSUME IInv, NEW n \in -1..MaxSteps, Run(n)
  PROVE  IInv'
  <1> USE DEF IInv, Run, graphVars, vertexVars, stepVars, workerVars
  <1>1. TypeOK'
    BY BoundsAssumption DEF TypeOK
  <1>2. Places'
    BY DEF Places, FeedingPlace, ClosedPlace, SuperstepBound, ErrorsInStep,
           BrokePlace, Stepped
  <1>3. ~InStep /\ ~Stepped /\ ~Stepped'
    BY DEF InStep, Stepped
  <1>4. NeverLateBetween'
    BY <1>3, Buffers DEF NeverLateBetween
  <1> QED BY <1>1, <1>2, <1>3, <1>4, OutsideStep DEF Places

\* A run ends, for whatever reason: only one that ends between two supersteps
\* is not counted as broken off.
LEMMA RunEndsKeepsIInv ==
  ASSUME IInv,
         \/ RunReturns \/ PreStepFails \/ StepFails
         \/ \E res \in {"ok", "error"} : PostStepStops(res)
  PROVE  IInv'
  <1> USE DEF IInv, RunReturns, PreStepFails, StepFails, PostStepStops, BreakWith,
              graphVars, vertexVars, stepVars, workerVars, history
  <1>1. TypeOK'
    <2>1. errCh' \in 0..1 /\ masterPc' = "idle" /\ result' \in {"ok", "error"}
      BY DEF TypeOK
    <2>2. broke' \in BOOLEAN
      BY DEF TypeOK
    <2>3. UNCHANGED <<superstep, vertices, active, queue, pending, activeInStep,
                      unfed, stepsLeft, wpc, wv, round, due, computed, failed, resumed>>
      OBVIOUS
    <2> QED BY <2>1, <2>2, <2>3 DEF TypeOK
  <1>2. Places'
    BY BoundsAssumption
    DEF Places, FeedingPlace, ClosedPlace, SuperstepBound, ErrorsInStep,
        BrokePlace, Stepped, TypeOK
  <1>3. ~InStep /\ ~Stepped' /\ superstep' = superstep
    BY DEF InStep, Stepped
  <1>4. NeverLateBetween'
    BY <1>3, Buffers DEF NeverLateBetween, Stepped
  <1> QED BY <1>1, <1>2, <1>3, <1>4, OutsideStep DEF Places

\* The step had no error, so every vertex has read what it was sent.
LEMMA StepSucceedsKeepsIInv ==
  ASSUME IInv, StepSucceeds
  PROVE  IInv'
  <1> USE DEF IInv, StepSucceeds, graphVars, vertexVars, stepVars, workerVars,
              history
  <1>1. TypeOK'
    BY DEF TypeOK
  <1>2. Places'
    BY DEF Places, FeedingPlace, ClosedPlace, SuperstepBound, ErrorsInStep,
           BrokePlace, Stepped, TypeOK
  <1>3. WorkersHold' /\ NoSharing' /\ PendingCounts' /\ AbsentIsBlank'
    BY DEF WorkersHold, NoSharing, PendingCounts, AbsentIsBlank, InStep, Touching
  <1>4. DueAccounted'
    BY Buffers DEF DueAccounted, Untested, Stepped
  <1>5. OnTime'
    BY Buffers
    DEF OnTime, NeverEarly, NeverLateInStep, NeverLateBetween, Stepped, Unread
  <1> QED BY <1>1, <1>2, <1>3, <1>4, <1>5 DEF Places, OnTime

\* The superstep is counted: what was filled is read next, and what was read,
\* which is empty unless the client resumed, is filled.
LEMMA KeepRunningKeepsIInv ==
  ASSUME IInv, KeepRunning
  PROVE  IInv'
  <1> USE DEF IInv, KeepRunning, vertexVars, stepVars, workerVars, history
  <1>1. TypeOK'
    BY BoundsAssumption DEF TypeOK, SuperstepBound, Stepped
  <1>2. Places'
    BY BoundsAssumption
    DEF Places, FeedingPlace, ClosedPlace, SuperstepBound, ErrorsInStep,
        BrokePlace, Stepped, TypeOK
  <1>3. ~InStep /\ Stepped /\ ~Stepped'
    BY DEF InStep, Stepped
  <1>4. NeverLateBetween'
    <2>1. Unread = {} /\ ~failed
      BY <1>3 DEF Unread, WorkersHold, Touching, FeedingPlace, BrokePlace
    <2> QED
      BY <1>3, <2>1, Buffers DEF NeverLateInStep, NeverLateBetween
  <1> QED BY <1>1, <1>2, <1>3, <1>4, OutsideStep DEF Places

\* A superstep begins with every vertex still to be fed and nothing computed.
LEMMA StepBeginsKeepsIInv ==
  ASSUME IInv, StepBegins
  PROVE  IInv'
  <1> USE DEF IInv, StepBegins, graphVars, vertexVars, workerVars
  <1>1. TypeOK'
    <2>1. pending' \in 0..Cardinality(VertexId) /\ activeInStep' \in 0..Cardinality(VertexId)
      BY Counted
    <2>2. due' \subseteq VertexId /\ computed' \in [VertexId -> 0..1] /\ round' \in 0..MaxRounds
      BY BoundsAssumption DEF TypeOK
    <2>3. masterPc' \in {"post", "feed"} /\ unfed' \subseteq VertexId
      BY DEF TypeOK
    <2> QED BY <2>1, <2>2, <2>3 DEF TypeOK
  <1>2. Places'
    BY BoundsAssumption
    DEF Places, FeedingPlace, ClosedPlace, SuperstepBound, ErrorsInStep,
        BrokePlace, Stepped, TypeOK
  <1>3. /\ Untested' = vertices /\ Unread' = vertices /\ Open' = vertices
        /\ ~Stepped /\ ~InStep /\ Stepped' /\ round' = round + 1
        /\ Current' = Current /\ Filling' = Filling
        /\ Current \in 0..1 /\ Filling \in 0..1
    BY Buffers DEF Untested, Unread, Open, InStep, Stepped
  <1>4. WorkersHold' /\ NoSharing' /\ PendingCounts'
    BY <1>3 DEF WorkersHold, NoSharing, PendingCounts, Touching
  <1>5. AbsentIsBlank'
    BY DEF AbsentIsBlank
  <1>6. DueAccounted'
    <2>1. due' \subseteq vertices /\ due' \ Untested' = {}
      BY <1>3
    <2>2. \A v \in VertexId : computed'[v] = 0
      OBVIOUS
    <2>3. \A v \in vertices : v \in due' <=> active[v] \/ queue[v][Current] # <<>>
      OBVIOUS
    <2> QED BY <1>3, <2>1, <2>2, <2>3, Counted DEF DueAccounted
  <1>7. OnTime'
    <2>1. NeverEarly'
      BY <1>3, SentSoFar DEF NeverEarly
    <2>2. NeverLateInStep' /\ NeverLateBetween'
      BY <1>3, Blank, Buffers
      DEF NeverLateInStep, NeverLateBetween, BrokePlace, AbsentIsBlank, TypeOK
    <2> QED BY <2>1, <2>2 DEF OnTime
  <1> QED BY <1>1, <1>2, <1>4, <1>5, <1>6, <1>7 DEF Places, OnTime

\* A vertex goes from step to a worker: it is still untested and not done with.
LEMMA FeedKeepsIInv ==
  ASSUME IInv, NEW v \in VertexId, NEW w \in Worker, Feed(v, w)
  PROVE  IInv'
  <1> USE DEF IInv, Feed, graphVars, vertexVars, stepVars, history
  <1>1. TypeOK'
    BY DEF TypeOK
  <1>2. Places'
    BY DEF Places, FeedingPlace, ClosedPlace, SuperstepBound, ErrorsInStep,
           BrokePlace, Stepped
  <1>3. WorkersHold' /\ NoSharing'
    BY VertexAssumption
    DEF TypeOK, WorkersHold, NoSharing, Touching, InStep, FeedingPlace
  <1>4. /\ \A x \in Worker : x # w => wpc'[x] = wpc[x] /\ wv'[x] = wv[x]
        /\ wpc'[w] = "test" /\ wv'[w] = v /\ wpc[w] = "recv" /\ v \in vertices
    BY DEF TypeOK, FeedingPlace
  <1>5. Untested' = Untested /\ Unread' = Unread /\ Open' = Open
    <2>1. Untested' = Untested
      BY <1>4 DEF Untested
    <2>2. Unread' = Unread
      BY <1>4 DEF Unread
    <2>3. Open' = Open
      BY <1>4 DEF Open, Touching
    <2> QED BY <2>1, <2>2, <2>3
  <1>6. PendingCounts'
    BY <1>4, <1>5 DEF PendingCounts, InStep
  <1>7. AbsentIsBlank' /\ DueAccounted'
    BY <1>5, Buffers DEF AbsentIsBlank, DueAccounted, Stepped
  <1>8. OnTime'
    BY <1>5, Buffers
    DEF OnTime, NeverEarly, NeverLateInStep, NeverLateBetween, Stepped
  <1> QED BY <1>1, <1>2, <1>3, <1>6, <1>7, <1>8 DEF Places, OnTime

\* The last worker meets step, when no vertex is open any more.
LEMMA StepCompletedKeepsIInv ==
  ASSUME IInv, NEW w \in Worker, StepCompleted(w)
  PROVE  IInv'
  <1> USE DEF IInv, StepCompleted, graphVars, vertexVars, stepVars, history
  <1>1. TypeOK'
    BY DEF TypeOK
  <1>2. Places'
    BY DEF Places, FeedingPlace, ClosedPlace, SuperstepBound, ErrorsInStep,
           BrokePlace, Stepped
  <1>3. Open = {}
    <2>1. Cardinality(Open) = 0
      BY DEF PendingCounts, InStep
    <2>2. \A v \in Open : Cardinality(Open) > 0
      BY Counted
    <2> QED BY <2>1, <2>2
  <1>4. \A x \in Worker : ~Touching(x)
    BY <1>3 DEF WorkersHold, Open
  <1>5. \A x \in Worker : x # w => wpc[x] \in {"recv", "done"}
    BY <1>4 DEF PendingCounts, Touching, TypeOK
  <1>6. WorkersHold' /\ NoSharing' /\ PendingCounts'
    BY <1>5, VertexAssumption
    DEF WorkersHold, NoSharing, PendingCounts, Touching, InStep, TypeOK
  <1>7. Untested' = {} /\ Untested = {} /\ Unread' = {} /\ Unread = {}
    BY <1>4, <1>5 DEF Untested, Unread, FeedingPlace, Touching, TypeOK
  <1>8. AbsentIsBlank' /\ DueAccounted'
    BY <1>7, Buffers DEF AbsentIsBlank, DueAccounted, Stepped
  <1>9. OnTime'
    BY <1>7, Buffers
    DEF OnTime, NeverEarly, NeverLateInStep, NeverLateBetween, Stepped
  <1> QED BY <1>1, <1>2, <1>6, <1>8, <1>9 DEF Places, OnTime

\* A worker that goes from one use of its vertex to the next still has it.
LEMMA WorkerKeepsVertex ==
  ASSUME IInv, NEW w \in Worker, Touching(w),
         NEW l \in {"compute", "count"}, wpc' = [wpc EXCEPT ![w] = l],
         UNCHANGED <<vertices, pending, closed, masterPc, unfed, wv>>
  PROVE  /\ wpc' \in [Worker -> {"recv", "test", "compute", "count", "signal", "done"}]
         /\ WorkersHold' /\ NoSharing' /\ PendingCounts'
         /\ Stepped /\ Stepped' /\ wv[w] \in Open
         /\ \A x \in Worker : x # w => wpc'[x] = wpc[x] /\ wv[x] # wv[w]
  <1> USE DEF IInv, TypeOK
  <1>1. /\ \A x \in Worker : x # w => wpc'[x] = wpc[x] /\ wv[x] # wv[w]
        /\ wpc'[w] = l
        /\ wpc' \in [Worker -> {"recv", "test", "compute", "count", "signal", "done"}]
    BY DEF WorkersHold, NoSharing
  <1>2. WorkersHold' /\ NoSharing'
    BY <1>1 DEF WorkersHold, NoSharing, Touching, InStep
  <1>3. Open' = Open
    BY <1>1 DEF Open, Touching
  <1>4. PendingCounts'
    BY <1>1, <1>3 DEF PendingCounts, InStep
  <1>5. Stepped /\ Stepped' /\ wv[w] \in Open
    BY DEF WorkersHold, Stepped, InStep, Open
  <1> QED BY <1>1, <1>2, <1>4, <1>5

\* The vertex was untested and due, and is computed for the first time.
LEMMA ComputeBeginsKeepsIInv ==
  ASSUME IInv, NEW w \in Worker, ComputeBegins(w)
  PROVE  IInv'
  <1> DEFINE v == wv[w]
  <1> USE DEF IInv, ComputeBegins, graphVars, masterVars
  <1>1. /\ wpc' \in [Worker -> {"recv", "test", "compute", "count", "signal", "done"}]
        /\ WorkersHold' /\ NoSharing' /\ PendingCounts'
        /\ Stepped /\ Stepped'
        /\ \A x \in Worker : x # w => wpc'[x] = wpc[x] /\ wv[x] # v
    BY WorkerKeepsVertex DEF Touching
  <1>2. v \in vertices \ unfed /\ v \in VertexId /\ wpc'[w] = "compute"
    BY DEF WorkersHold, Touching, TypeOK
  <1>3. Untested' = Untested \ {v} /\ v \in Untested /\ Unread' = Unread
    BY <1>1, <1>2 DEF Untested, Unread
  <1>4. /\ due \ Untested' = (due \ Untested) \cup {v}
        /\ v \in VertexId \ (due \ Untested)
        /\ Cardinality(due \ Untested') = Cardinality(due \ Untested) + 1
    <2>1. v \in due
      BY <1>1, <1>3 DEF DueAccounted
    <2>2. /\ due \ Untested' = (due \ Untested) \cup {v}
          /\ v \in VertexId \ (due \ Untested)
      BY <1>2, <1>3, <2>1
    <2>3. due \ Untested \in SUBSET VertexId
      BY Counted
    <2> QED BY <2>2, <2>3, Counted
  <1>5. /\ computed' \in [VertexId -> 0..1]
        /\ \A u \in VertexId : computed'[u] = IF u \in due \ Untested' THEN 1 ELSE 0
    BY <1>1, <1>4 DEF DueAccounted, TypeOK
  <1>6. DueAccounted'
    <2>1. \A u \in Untested' : active'[u] = active[u]
      BY <1>2, <1>3 DEF TypeOK, Untested
    <2>2. \A u \in Untested' : u \in due <=> active'[u] \/ queue[u][Current] # <<>>
      BY <1>1, <1>3, <2>1 DEF DueAccounted
    <2>3. activeInStep' = Cardinality(due \ Untested')
      BY <1>1, <1>4 DEF DueAccounted
    <2> QED BY <1>1, <1>5, <2>2, <2>3, Buffers DEF DueAccounted
  <1>7. TypeOK'
    <2>1. activeInStep' \in 0..Cardinality(VertexId)
      <3>1. due \ Untested' \in SUBSET VertexId
        BY Counted
      <3> QED BY <1>1, <1>6, <3>1, Counted DEF DueAccounted
    <2> QED BY <1>1, <1>5, <2>1 DEF TypeOK
  <1>8. Places' /\ AbsentIsBlank'
    BY <1>2
    DEF Places, FeedingPlace, ClosedPlace, SuperstepBound, ErrorsInStep,
        BrokePlace, Stepped, AbsentIsBlank, TypeOK
  <1>9. OnTime'
    BY <1>1, <1>3, Buffers DEF OnTime, NeverEarly, NeverLateInStep, NeverLateBetween
  <1> QED BY <1>1, <1>6, <1>7, <1>8, <1>9 DEF Places, OnTime

\* The vertex was untested and not due, so it has nothing to read.
LEMMA VertexSkippedKeepsIInv ==
  ASSUME IInv, NEW w \in Worker, VertexSkipped(w)
  PROVE  IInv'
  <1> DEFINE v == wv[w]
  <1> USE DEF IInv, VertexSkipped, graphVars, masterVars, vertexVars, stepVars,
              history
  <1>1. /\ wpc' \in [Worker -> {"recv", "test", "compute", "count", "signal", "done"}]
        /\ WorkersHold' /\ NoSharing' /\ PendingCounts'
        /\ Stepped /\ Stepped'
        /\ \A x \in Worker : x # w => wpc'[x] = wpc[x] /\ wv[x] # v
    BY WorkerKeepsVertex DEF Touching
  <1>2. v \in vertices \ unfed /\ v \in VertexId /\ wpc'[w] = "count"
    BY DEF WorkersHold, Touching, TypeOK
  <1>3. Untested' = Untested \ {v} /\ v \in Untested /\ Unread' = Unread \ {v}
    BY <1>1, <1>2 DEF Untested, Unread
  <1>4. due \ Untested' = due \ Untested
    BY <1>1, <1>3 DEF DueAccounted
  <1>5. TypeOK'
    BY <1>1 DEF TypeOK
  <1>6. Places' /\ AbsentIsBlank'
    BY DEF Places, FeedingPlace, ClosedPlace, SuperstepBound, ErrorsInStep,
           BrokePlace, Stepped, AbsentIsBlank
  <1>7. DueAccounted'
    BY <1>1, <1>3, <1>4, Buffers DEF DueAccounted
  <1>8. OnTime'
    BY <1>1, <1>3, Buffers DEF OnTime, NeverEarly, NeverLateInStep, NeverLateBetween
  <1> QED BY <1>1, <1>5, <1>6, <1>7, <1>8 DEF Places, OnTime

\* What the compute function does to its vertex and to the buffer that is
\* filled changes no vertex that is still untested.
LEMMA ComputeStepKeepsAccount ==
  ASSUME IInv, NEW w \in Worker, wpc[w] = "compute",
         UNCHANGED <<graphVars, stepVars, closed, masterVars, workerVars, history>>,
         \A u \in VertexId \ {wv[w]} :
           active'[u] = active[u] /\ queue'[u][Current] = queue[u][Current]
  PROVE  /\ WorkersHold' /\ NoSharing' /\ PendingCounts'
         /\ Stepped /\ Stepped' /\ wv[w] \in vertices
         /\ Unread' = Unread /\ wv[w] \in Unread
         /\ DueAccounted' /\ Places'
  <1> USE DEF IInv, graphVars, stepVars, masterVars, workerVars, history
  <1>1. WorkersHold' /\ NoSharing' /\ PendingCounts'
    BY DEF WorkersHold, NoSharing, PendingCounts, InStep, Touching, Open
  <1>2. /\ Stepped /\ Stepped' /\ wv[w] \in vertices
        /\ Unread' = Unread /\ wv[w] \in Unread
    BY DEF WorkersHold, Touching, InStep, Stepped, Unread
  <1>3. Untested' = Untested /\ wv[w] \notin Untested /\ Untested \subseteq VertexId
    BY DEF Untested, WorkersHold, NoSharing, Touching, TypeOK
  <1>4. DueAccounted'
    BY <1>2, <1>3, Buffers DEF DueAccounted
  <1>5. Places'
    BY DEF Places, FeedingPlace, ClosedPlace, SuperstepBound, ErrorsInStep,
           BrokePlace, Stepped
  <1> QED BY <1>1, <1>2, <1>3, <1>4, <1>5

\* Reading takes a message of the current buffer.
LEMMA ReadKeepsIInv ==
  ASSUME IInv, NEW w \in Worker, Read(w)
  PROVE  IInv'
  <1> DEFINE v == wv[w]
             rest == SubSeq(queue[v][Current], 1, Len(queue[v][Current]) - 1)
  <1> USE DEF IInv
  <1>1. /\ wpc[w] = "compute" /\ queue[v][Current] # <<>>
        /\ queue' = [queue EXCEPT ![v] = [@ EXCEPT ![Current] = rest]]
        /\ UNCHANGED <<graphVars, stepVars, closed, masterVars, workerVars, history>>
        /\ UNCHANGED active
    BY DEF Read
  <1>2. v \in VertexId /\ queue[v][Current] \in Seq(1..(MaxRounds + 1))
    BY <1>1, Buffers DEF WorkersHold, Touching, TypeOK
  <1>3. /\ rest \in Seq(1..(MaxRounds + 1))
        /\ \A r : Due(queue[v][Current], r) => Due(rest, r)
        /\ \A r : Upto(queue[v][Current], r) => Upto(rest, r)
    BY <1>1, <1>2, Remaining
  <1> HIDE DEF rest
  <1>4. /\ queue' \in [VertexId -> [0..1 -> Seq(1..(MaxRounds + 1))]]
        /\ \A u \in VertexId \ {v} : queue'[u] = queue[u]
        /\ queue'[v][Current] = rest /\ queue'[v][Filling] = queue[v][Filling]
    BY <1>1, <1>2, <1>3, Buffers DEF TypeOK
  <1>5. /\ WorkersHold' /\ NoSharing' /\ PendingCounts'
        /\ Stepped /\ Stepped' /\ v \in vertices
        /\ Unread' = Unread /\ v \in Unread
        /\ DueAccounted' /\ Places'
    BY <1>1, <1>4, ComputeStepKeepsAccount
  <1>6. TypeOK' /\ AbsentIsBlank'
    BY <1>1, <1>4, <1>5
    DEF TypeOK, AbsentIsBlank, graphVars, stepVars, masterVars, workerVars, history
  <1>7. OnTime'
    BY <1>1, <1>3, <1>4, <1>5, Buffers
    DEF OnTime, NeverEarly, NeverLateInStep, NeverLateBetween, graphVars, history
  <1> QED BY <1>5, <1>6, <1>7 DEF Places, OnTime

\* A message sent is due in the next superstep, and goes into the buffer that
\* is filled.
LEMMA SendMessageKeepsIInv ==
  ASSUME IInv, NEW w \in Worker, NEW u \in VertexId, SendMessage(w, u)
  PROVE  IInv'
  <1> DEFINE more == Append(queue[u][Filling], round + 1)
  <1> USE DEF IInv
  <1>1. /\ wpc[w] = "compute" /\ u \in vertices
        /\ queue' = [queue EXCEPT ![u] = [@ EXCEPT ![Filling] = more]]
        /\ UNCHANGED <<graphVars, stepVars, closed, masterVars, workerVars, history>>
        /\ UNCHANGED active
    BY DEF SendMessage
  <1>2. /\ queue[u][Filling] \in Seq(1..(MaxRounds + 1))
        /\ round + 1 \in 1..(MaxRounds + 1) /\ round + 1 \in Int
    BY Buffers, BoundsAssumption DEF TypeOK
  <1>3. /\ more \in Seq(1..(MaxRounds + 1))
        /\ Due(queue[u][Filling], round + 1) => Due(more, round + 1)
        /\ Upto(queue[u][Filling], round + 1) => Upto(more, round + 1)
    BY <1>2, Appended
  <1> HIDE DEF more
  <1>4. /\ queue' \in [VertexId -> [0..1 -> Seq(1..(MaxRounds + 1))]]
        /\ \A x \in VertexId \ {u} : queue'[x] = queue[x]
        /\ queue'[u][Filling] = more /\ queue'[u][Current] = queue[u][Current]
    BY <1>1, <1>2, <1>3, Buffers DEF TypeOK
  <1>5. /\ WorkersHold' /\ NoSharing' /\ PendingCounts'
        /\ Stepped /\ Stepped'
        /\ Unread' = Unread
        /\ DueAccounted' /\ Places'
    BY <1>1, <1>4, ComputeStepKeepsAccount
  <1>6. TypeOK' /\ AbsentIsBlank'
    BY <1>1, <1>4
    DEF TypeOK, AbsentIsBlank, graphVars, stepVars, masterVars, workerVars, history
  <1>7. OnTime'
    BY <1>1, <1>3, <1>4, <1>5, Buffers
    DEF OnTime, NeverEarly, NeverLateInStep, NeverLateBetween, graphVars, history
  <1> QED BY <1>5, <1>6, <1>7 DEF Places, OnTime

\* A vertex that is frozen was tested before.
LEMMA FreezeKeepsIInv ==
  ASSUME IInv, NEW w \in Worker, Freeze(w)
  PROVE  IInv'
  <1> USE DEF IInv, Freeze
  <1>1. \A u \in VertexId \ {wv[w]} : active'[u] = active[u] /\ queue'[u] = queue[u]
    BY DEF TypeOK
  <1>2. /\ WorkersHold' /\ NoSharing' /\ PendingCounts'
        /\ Stepped /\ Stepped' /\ wv[w] \in vertices
        /\ Unread' = Unread /\ DueAccounted' /\ Places'
    BY <1>1, ComputeStepKeepsAccount
  <1>3. TypeOK' /\ AbsentIsBlank'
    BY <1>1, <1>2
    DEF TypeOK, AbsentIsBlank, graphVars, stepVars, masterVars, workerVars, history
  <1>4. OnTime'
    BY <1>2, Buffers
    DEF OnTime, NeverEarly, NeverLateInStep, NeverLateBetween, graphVars, history
  <1> QED BY <1>2, <1>3, <1>4 DEF Places, OnTime

\* The compute function succeeds and what it did not read is discarded.
LEMMA ComputeSucceedsKeepsIInv ==
  ASSUME IInv, NEW w \in Worker, ComputeSucceeds(w)
  PROVE  IInv'
  <1> DEFINE v == wv[w]
  <1> USE DEF IInv, ComputeSucceeds, graphVars, masterVars, stepVars, history
  <1>1. /\ wpc' \in [Worker -> {"recv", "test", "compute", "count", "signal", "done"}]
        /\ WorkersHold' /\ NoSharing' /\ PendingCounts'
        /\ Stepped /\ Stepped'
        /\ \A x \in Worker : x # w => wpc'[x] = wpc[x] /\ wv[x] # v
    BY WorkerKeepsVertex DEF Touching
  <1>2. v \in vertices \ unfed /\ v \in VertexId /\ wpc'[w] = "count"
    BY DEF WorkersHold, Touching, TypeOK
  <1>3. Untested' = Untested /\ v \notin Untested /\ Unread' = Unread \ {v}
    BY <1>1, <1>2 DEF Untested, Unread
  <1>4. /\ queue' \in [VertexId -> [0..1 -> Seq(1..(MaxRounds + 1))]]
        /\ \A u \in VertexId \ {v} : queue'[u] = queue[u]
        /\ queue'[v][Current] = <<>> /\ queue'[v][Filling] = queue[v][Filling]
    <2>1. <<>> \in Seq(1..(MaxRounds + 1))
      OBVIOUS
    <2> QED BY <1>2, <2>1, Buffers DEF TypeOK
  <1>5. TypeOK' /\ AbsentIsBlank'
    BY <1>1, <1>2, <1>4 DEF TypeOK, AbsentIsBlank
  <1>6. Places'
    BY DEF Places, FeedingPlace, ClosedPlace, SuperstepBound, ErrorsInStep,
           BrokePlace, Stepped
  <1>7. DueAccounted'
    <2>1. \A u \in Untested : u \in VertexId /\ queue'[u] = queue[u]
      BY <1>3, <1>4 DEF Untested, TypeOK
    <2> QED BY <1>1, <1>3, <2>1, Buffers DEF DueAccounted
  <1>8. OnTime'
    BY <1>1, <1>3, <1>4, Blank, Buffers
    DEF OnTime, NeverEarly, NeverLateInStep, NeverLateBetween
  <1> QED BY <1>1, <1>5, <1>6, <1>7, <1>8 DEF Places, OnTime

\* The compute function fails; what it did not read stays, and errCh has an
\* error.
LEMMA ComputeFailsKeepsIInv ==
  ASSUME IInv, NEW w \in Worker, ComputeFails(w)
  PROVE  IInv'
  <1> DEFINE v == wv[w]
  <1> USE DEF IInv, ComputeFails, graphVars, masterVars, vertexVars
  <1>1. /\ wpc' \in [Worker -> {"recv", "test", "compute", "count", "signal", "done"}]
        /\ WorkersHold' /\ NoSharing' /\ PendingCounts'
        /\ Stepped /\ Stepped'
        /\ \A x \in Worker : x # w => wpc'[x] = wpc[x] /\ wv[x] # v
    BY WorkerKeepsVertex DEF Touching
  <1>2. InStep /\ wpc'[w] = "count"
    BY DEF WorkersHold, Touching, TypeOK
  <1>3. Untested' = Untested
    BY <1>1, <1>2 DEF Untested
  <1>4. errCh' = 1
    BY DEF TypeOK, TryEmitError
  <1>5. TypeOK' /\ AbsentIsBlank'
    BY <1>1, <1>4 DEF TypeOK, AbsentIsBlank
  <1>6. Places'
    BY <1>2, <1>4
    DEF Places, FeedingPlace, ClosedPlace, SuperstepBound, ErrorsInStep,
        BrokePlace, Stepped, InStep
  <1>7. DueAccounted'
    BY <1>1, <1>3, Buffers DEF DueAccounted
  <1>8. OnTime'
    BY <1>1, Buffers DEF OnTime, NeverEarly, NeverLateInStep, NeverLateBetween
  <1> QED BY <1>1, <1>5, <1>6, <1>7, <1>8 DEF Places, OnTime

\* A vertex is done with.  The worker that finds the count at one closes the
\* last open vertex, so it is the only one to signal.
LEMMA CountKeepsIInv ==
  ASSUME IInv, NEW w \in Worker, Count(w)
  PROVE  IInv'
  <1> DEFINE v == wv[w]
  <1> USE DEF IInv, Count, graphVars, masterVars, vertexVars, history
  <1>1. v \in vertices \ unfed /\ v \in VertexId /\ v \in Open /\ InStep
    BY DEF WorkersHold, Touching, TypeOK, Open
  <1>2. /\ \A x \in Worker : x # w => wpc'[x] = wpc[x] /\ wv'[x] = wv[x] /\ wv[x] # v
        /\ wpc'[w] \in {"signal", "recv"}
        /\ wpc'[w] = "signal" <=> pending = 1
        /\ wpc'[w] = "signal" => wv'[w] = v
        /\ wpc'[w] = "recv" => wv'[w] = NoVertex
    BY <1>1, VertexAssumption DEF TypeOK, NoSharing
  <1>3. Open' = Open \ {v}
    BY <1>1, <1>2 DEF Open, Touching
  <1>4. /\ pending = Cardinality(Open) /\ pending > 0
        /\ pending' = Cardinality(Open') /\ pending' \in 0..Cardinality(VertexId)
    <2>1. pending = Cardinality(Open)
      BY <1>1 DEF PendingCounts
    <2>2. pending > 0 /\ pending - 1 = Cardinality(Open')
      BY <1>1, <1>3, <2>1, Counted
    <2> QED BY <2>1, <2>2, Counted DEF TypeOK
  <1>5. PendingCounts'
    BY <1>2, <1>4 DEF PendingCounts, TypeOK
  <1>6. WorkersHold' /\ NoSharing'
    BY <1>1, <1>2, VertexAssumption DEF WorkersHold, NoSharing, Touching, InStep
  <1>7. TypeOK'
    <2>1. /\ wpc' \in [Worker -> {"recv", "test", "compute", "count", "signal", "done"}]
          /\ wv' \in [Worker -> VertexId \cup {NoVertex}]
      BY DEF TypeOK
    <2> QED BY <1>4, <2>1 DEF TypeOK
  <1>8. Untested' = Untested /\ Unread' = Unread
    BY <1>2 DEF Untested, Unread
  <1>9. DueAccounted' /\ AbsentIsBlank'
    BY <1>8, Buffers DEF DueAccounted, AbsentIsBlank, Stepped
  <1>10. Places'
    BY DEF Places, FeedingPlace, ClosedPlace, SuperstepBound, ErrorsInStep,
           BrokePlace, Stepped
  <1>11. OnTime'
    BY <1>8, Buffers DEF OnTime, NeverEarly, NeverLateInStep, NeverLateBetween, Stepped
  <1> QED BY <1>5, <1>6, <1>7, <1>9, <1>10, <1>11 DEF Places, OnTime

\* A worker exits only when there is no vertex left for it.
LEMMA WorkerExitsKeepsIInv ==
  ASSUME IInv, NEW w \in Worker, WorkerExits(w)
  PROVE  IInv'
  <1> USE DEF IInv, WorkerExits, graphVars, masterVars, vertexVars, stepVars, history
  <1>1. TypeOK'
    BY DEF TypeOK
  <1>2. ~Stepped /\ ~Stepped' /\ ~InStep /\ ~InStep'
    BY DEF ClosedPlace, Stepped, InStep
  <1>3. WorkersHold' /\ NoSharing' /\ PendingCounts'
    BY <1>2 DEF WorkersHold, NoSharing, PendingCounts, Touching, TypeOK
  <1>4. DueAccounted' /\ AbsentIsBlank'
    BY <1>2 DEF DueAccounted, AbsentIsBlank
  <1>5. Places'
    BY DEF Places, FeedingPlace, ClosedPlace, SuperstepBound, ErrorsInStep,
           BrokePlace, Stepped
  <1>6. OnTime'
    BY <1>2, Buffers DEF OnTime, NeverEarly, NeverLateInStep, NeverLateBetween
  <1> QED BY <1>1, <1>3, <1>4, <1>5, <1>6 DEF Places, OnTime

-----------------------------------------------------------------------------
(* The invariant, and the properties it implies.                           *)

\* Every step keeps the inductive invariant.
LEMMA NextIInv ==
  ASSUME IInv, [Next]_vars
  PROVE  IInv'
  <1>1. CASE Client
    BY <1>1, AddVertexKeepsIInv, EmptyGraphKeepsIInv, CountRestartsKeepsIInv,
       CloseKeepsIInv, RunKeepsIInv
    DEF Client
  <1>2. CASE Executor
    BY <1>2, RunEndsKeepsIInv, StepBeginsKeepsIInv, StepSucceedsKeepsIInv,
       KeepRunningKeepsIInv
    DEF Executor
  <1>3. ASSUME NEW w \in Worker, WorkerStep(w) \/ ComputeStep(w) \/ StepCompleted(w)
        PROVE  IInv'
    <2>1. CASE WorkerStep(w)
      BY <2>1, ComputeBeginsKeepsIInv, VertexSkippedKeepsIInv,
         ComputeSucceedsKeepsIInv, ComputeFailsKeepsIInv, CountKeepsIInv,
         WorkerExitsKeepsIInv
      DEF WorkerStep, ComputeReturns
    <2>2. CASE ComputeStep(w)
      BY <2>2, ReadKeepsIInv, SendMessageKeepsIInv, FreezeKeepsIInv DEF ComputeStep
    <2>3. CASE StepCompleted(w)
      BY <2>3, StepCompletedKeepsIInv
    <2> QED BY <1>3, <2>1, <2>2, <2>3
  <1>4. CASE \E v \in VertexId, w \in Worker : Feed(v, w)
    BY <1>4, FeedKeepsIInv
  <1>5. CASE CloseReturns
    BY <1>5, EmptyGraphKeepsIInv, CountRestartsKeepsIInv DEF CloseReturns
  <1>6. CASE UNCHANGED vars
    BY <1>6
    DEF vars, graphVars, vertexVars, stepVars, masterVars, workerVars, history,
        IInv, TypeOK, FeedingPlace, WorkersHold, NoSharing, ClosedPlace,
        PendingCounts, DueAccounted, AbsentIsBlank, SuperstepBound, ErrorsInStep,
        NeverEarly, BrokePlace, NeverLateInStep, NeverLateBetween, InStep, Stepped,
        Touching, Untested, Unread, Open, Current, Filling
  <1> QED BY <1>1, <1>2, <1>3, <1>4, <1>5, <1>6 DEF Next, Terminated

\* The inductive invariant holds in every reachable state.
THEOREM Invariance == Spec => []IInv
  <1>1. Init => IInv
    BY InitIInv
  <1>2. IInv /\ [Next]_vars => IInv'
    BY NextIInv
  <1> QED BY <1>1, <1>2, PTL DEF Spec

\* The superstep barrier: outside a superstep no worker touches a vertex, and
\* no two workers ever touch the same one.
THEOREM BarrierHolds == Spec => []Barrier
  <1>1. IInv => Barrier
    BY DEF IInv, Barrier, WorkersHold, NoSharing, Touching, InStep, TypeOK
  <1> QED BY Invariance, <1>1, PTL

\* A superstep computes every vertex that was due exactly once, and no other.
THEOREM DueAreComputedOnce == Spec => []ComputesDueOnce
  <1>1. IInv => ComputesDueOnce
    <2> SUFFICES ASSUME IInv, masterPc \in {"errs", "post"}
                 PROVE  /\ \A v \in VertexId : computed[v] = IF v \in due THEN 1 ELSE 0
                        /\ activeInStep = Cardinality(due)
      BY DEF ComputesDueOnce
    <2>1. Untested = {} /\ due \ Untested = due
      BY DEF IInv, Untested, WorkersHold, FeedingPlace, Touching, InStep
    <2> QED BY <2>1 DEF IInv, DueAccounted, Stepped
  <1> QED BY Invariance, <1>1, PTL

\* Messages sent in a superstep are there in the next one, and in no other.
THEOREM MessagesAreOnTime == Spec => []NextSuperstep
  <1>1. IInv => NextSuperstep
    <2> SUFFICES ASSUME IInv PROVE NextSuperstep OBVIOUS
    <2> USE DEF IInv
    <2>1. ASSUME NEW w \in Worker, wpc[w] = "compute",
                 NEW i \in DOMAIN queue[wv[w]][Current]
          PROVE  /\ queue[wv[w]][Current][i] <= round
                 /\ ~resumed => queue[wv[w]][Current][i] = round
      <3>1. wv[w] \in VertexId /\ Stepped
        BY <2>1 DEF WorkersHold, Touching, TypeOK, InStep, Stepped
      <3> QED BY <2>1, <3>1 DEF NeverEarly, NeverLateInStep, Due, Upto
    <2>2. ASSUME masterPc = "post", NEW v \in vertices, NEW b \in 0..1,
                 NEW i \in DOMAIN queue[v][b]
          PROVE  /\ b = Current => resumed
                 /\ ~resumed => queue[v][b][i] = round + 1
      <3>1. Stepped /\ v \in VertexId /\ ~failed
        BY <2>2 DEF Stepped, TypeOK, BrokePlace
      <3>2. v \notin Unread
        BY <2>2 DEF Unread, WorkersHold, FeedingPlace, Touching, InStep
      <3>3. queue[v][b] # <<>> /\ (b = Current \/ b = Filling)
        BY <2>2, Buffers
      <3> QED BY <2>2, <3>1, <3>2, <3>3 DEF NeverLateInStep, Due
    <2> QED BY <2>1, <2>2 DEF NextSuperstep
  <1> QED BY Invariance, <1>1, PTL

\* step returns an error exactly if a compute function failed in its superstep.
THEOREM StepErrorsReported == Spec => []ErrorsReported
  <1>1. IInv => ErrorsReported
    BY DEF IInv, ErrorsInStep, ErrorsReported
  <1> QED BY Invariance, <1>1, PTL

-----------------------------------------------------------------------------
(* The refinement of the Pregel model.                                     *)

\* The initial states are those of the Pregel model.
LEMMA InitMaps == Init => Pregel!Init
  <1> SUFFICES ASSUME Init PROVE Pregel!Init OBVIOUS
  <1> USE DEF Init
  <1>1. Untested = {} /\ Computing = {} /\ Phase = "between"
    BY DEF Untested, Computing, Phase
  <1>2. IInv
    BY InitIInv
  <1>3. \A v \in VertexId : queue[v][Current] = <<>> /\ queue[v][Filling] = <<>>
    BY <1>2, Buffers, Blank DEF IInv
  <1>4. Inbox = Pregel!Empty /\ Outbox = Pregel!Empty
    BY <1>3 DEF Inbox, Outbox, Pregel!Empty
  <1> QED BY <1>1, <1>4 DEF Pregel!Init

\* The length of a queue is a number, and zero for an empty one only.
LEMMA Lengths ==
  ASSUME TypeOK, NEW v \in VertexId
  PROVE  /\ Inbox[v] \in Nat /\ (Inbox[v] = 0 <=> queue[v][Current] = <<>>)
         /\ Inbox[v] > 0 <=> queue[v][Current] # <<>>
         /\ Outbox[v] \in Nat
  <1>1. queue[v][Current] \in Seq(1..(MaxRounds + 1)) /\ queue[v][Filling] \in Seq(1..(MaxRounds + 1))
    BY Buffers DEF TypeOK
  <1> QED BY <1>1 DEF Inbox, Outbox

\* Boxes stay while queues and counter do.
LEMMA SameBoxes ==
  ASSUME TypeOK, UNCHANGED <<queue, superstep>>
  PROVE  Inbox' = Inbox /\ Outbox' = Outbox
  BY Buffers DEF Inbox, Outbox

\* Outside a step no vertex is untested or being computed.
LEMMA NothingUnderWay ==
  ASSUME IInv, ~InStep
  PROVE  Untested = {} /\ Computing = {}
  BY DEF IInv, WorkersHold, Touching, FeedingPlace, InStep, Untested, Computing

\* What the client does between runs: it adds a vertex or clears the graph, or
\* the Pregel model sees nothing of it.
LEMMA ClientMaps ==
  ASSUME IInv, IInv', Client \/ CloseReturns, ~resumed'
  PROVE  [Pregel!Next]_(Pregel!vars)
  <1> USE DEF Pregel!vars
  <1>t. TypeOK /\ TypeOK' BY DEF IInv
  <1>1. ASSUME NEW v \in VertexId, AddVertex(v) PROVE [Pregel!Next]_(Pregel!vars)
    <2> USE <1>1 DEF AddVertex, vertexVars, stepVars, masterVars, workerVars, history
    <2>1. ~InStep /\ ~InStep' /\ Phase' = Phase
      BY DEF InStep, Phase, InCallback
    <2>2. Untested = {} /\ Computing = {} /\ Untested' = {} /\ Computing' = {}
      BY <2>1, NothingUnderWay DEF IInv, WorkersHold, Touching, FeedingPlace, InStep,
         Untested, Computing
    <2>3. CASE v \in vertices
      BY <1>t, <2>1, <2>2, <2>3, SameBoxes
    <2>4. CASE v \notin vertices
      <3>1. /\ Inbox' = [Inbox EXCEPT ![v] = 0]
            /\ Outbox' = [Outbox EXCEPT ![v] = 0]
        <4>1. /\ \A u \in VertexId \ {v} : queue'[u] = queue[u]
              /\ queue'[v][Current] = <<>> /\ queue'[v][Filling] = <<>>
          BY <1>t, <2>4, Buffers, Blank DEF TypeOK
        <4>2. Current' = Current /\ Filling' = Filling /\ Len(<<>>) = 0
          BY <1>t, Buffers
        <4> QED BY <4>1, <4>2 DEF Inbox, Outbox
      <3>2. Pregel!AddVertex(v)
        BY <2>1, <2>2, <2>4, <3>1 DEF Pregel!AddVertex
      <3> QED BY <3>2 DEF Pregel!Next
    <2> QED BY <2>3, <2>4
  <1>2. ASSUME Reset \/ CloseResets PROVE [Pregel!Next]_(Pregel!vars)
    <2> USE <1>2 DEF Reset, CloseResets, stepVars, masterVars, workerVars
    <2>1. ~InStep /\ ~InStep' /\ Phase' = "between"
      BY DEF InStep, Phase
    <2>2. Untested = {} /\ Computing = {} /\ Untested' = {} /\ Computing' = {}
      BY <2>1, NothingUnderWay DEF Untested, Computing
    <2>3. superstep' \in Nat /\ Current' \in 0..1 /\ Filling' \in 0..1
      BY <1>t, Buffers
    <2>4. Inbox' = Pregel!Empty /\ Outbox' = Pregel!Empty
      BY <2>3, Blank DEF Inbox, Outbox, Pregel!Empty
    <2>5. Pregel!Clear
      BY <2>1, <2>2, <2>4 DEF Pregel!Clear
    <2> QED BY <2>5 DEF Pregel!Next
  <1>3. ASSUME ResetFails \/ NewExecutor \/ CloseFails PROVE UNCHANGED Pregel!vars
    <2> USE <1>3 DEF ResetFails, NewExecutor, CloseFails, vertexVars, stepVars, masterVars, workerVars
    <2>1. superstep' = superstep
      OBVIOUS
    <2> QED BY <1>t, <2>1, SameBoxes DEF Phase, Untested, Computing
  <1>4. ASSUME Close \/ \E n \in -1..MaxSteps : Run(n) PROVE UNCHANGED Pregel!vars
    <2> USE <1>4 DEF Close, Run, graphVars, vertexVars, stepVars, workerVars, history
    <2>1. Phase' = Phase
      BY DEF Phase, IInv, TypeOK
    <2> QED BY <1>t, <2>1, SameBoxes DEF Untested, Computing
  <1> QED BY <1>1, <1>2, <1>3, <1>4 DEF Client, CloseReturns

\* The Executor starts supersteps and delivers their messages; the Pregel model
\* sees nothing else of it.
LEMMA ExecutorMaps ==
  ASSUME IInv, IInv', Executor, ~resumed'
  PROVE  [Pregel!Next]_(Pregel!vars)
  <1> USE DEF Pregel!vars
  <1>t. TypeOK /\ TypeOK' BY DEF IInv
  <1>1. ASSUME StepBegins PROVE Pregel!Start
    <2> USE <1>1 DEF StepBegins, graphVars, vertexVars, workerVars
    <2>1. Phase = "between" /\ Phase' = "superstep" /\ ~InStep /\ ~Stepped /\ ~broke /\ ~resumed
      BY DEF Phase, InStep, Stepped, IInv, BrokePlace
    <2>2. Untested' = vertices /\ Computing = {} /\ Computing' = {}
      BY <2>1, NothingUnderWay DEF Untested, Computing
    <2>3. Outbox = Pregel!Empty
      BY <2>1 DEF IInv, NeverLateBetween, Outbox, Pregel!Empty
    <2> QED BY <1>t, <2>1, <2>2, <2>3, SameBoxes DEF Pregel!Start
  <1>2. ASSUME KeepRunning PROVE Pregel!Deliver
    <2> USE <1>2 DEF KeepRunning, vertexVars, stepVars, workerVars, history
    <2>1. /\ Phase = "superstep" /\ Phase' = "between" /\ ~InStep /\ ~InStep'
          /\ Stepped /\ ~failed /\ ~resumed /\ ~Stepped' /\ ~broke'
      BY DEF Phase, InStep, Stepped, IInv, BrokePlace
    <2>2. Untested = {} /\ Computing = {} /\ Untested' = {} /\ Computing' = {}
      BY <2>1, NothingUnderWay DEF Untested, Computing
    <2>3. \A v \in VertexId : queue[v][Current] = <<>>
      <3>1. Unread = {}
        BY <2>1 DEF IInv, Unread, WorkersHold, FeedingPlace, Touching, InStep
      <3> QED BY <2>1, <3>1 DEF IInv, NeverLateInStep
    <2>4. Inbox = Pregel!Empty
      BY <2>3 DEF Inbox, Pregel!Empty
    <2>5. Inbox' = Outbox /\ Outbox' = Inbox
      BY <1>t, Buffers DEF Inbox, Outbox
    <2> QED BY <2>1, <2>2, <2>4, <2>5 DEF Pregel!Deliver
  <1>3. ASSUME \/ RunReturns \/ PreStepFails \/ StepFails \/ StepSucceeds
               \/ \E res \in {"ok", "error"} : PostStepStops(res)
        PROVE  UNCHANGED Pregel!vars
    <2> USE <1>3 DEF RunReturns, PreStepFails, StepFails, StepSucceeds, PostStepStops,
                     BreakWith, graphVars, vertexVars, stepVars, workerVars, history
    <2>1. Phase' = Phase
      BY DEF Phase, IInv, BrokePlace
    <2>2. UNCHANGED <<vertices, active, failed, Untested, Computing, queue, superstep>>
      BY DEF Untested, Computing
    <2> QED BY <1>t, <2>1, <2>2, SameBoxes
  <1> QED BY <1>1, <1>2, <1>3 DEF Executor, Pregel!Next

\* What a worker does with a vertex.
LEMMA WorkerMaps ==
  ASSUME IInv, IInv', NEW w \in Worker,
         WorkerStep(w) \/ ComputeStep(w) \/ StepCompleted(w)
  PROVE  [Pregel!Next]_(Pregel!vars)
  <1> DEFINE v == wv[w]
  <1> USE DEF Pregel!vars
  <1>t. TypeOK /\ TypeOK' BY DEF IInv
  <1>a. ASSUME wpc[w] \in {"test", "compute"}
        PROVE  /\ v \in vertices \ unfed /\ v \in VertexId
               /\ \A x \in Worker : x # w => wv[x] # v
               /\ wpc[w] = "test" => v \in Untested
               /\ wpc[w] = "compute" => v \in Computing
    BY <1>a DEF IInv, TypeOK, WorkersHold, NoSharing, Touching, Untested, Computing
  <1>b. ASSUME NEW l \in {"compute", "count"}, wpc[w] \in {"test", "compute"},
               wpc' = [wpc EXCEPT ![w] = l], UNCHANGED <<wv, vertices, unfed>>
        PROVE  /\ Untested' = Untested \ {v}
               /\ Computing' = IF l = "compute" THEN Computing \cup {v} ELSE Computing \ {v}
    <2>1. \A x \in Worker : x # w => wpc'[x] = wpc[x] /\ wv[x] # v
      BY <1>a, <1>b, <1>t DEF TypeOK
    <2>2. wpc'[w] = l /\ v \in vertices \ unfed
      BY <1>a, <1>b, <1>t DEF TypeOK
    <2> QED BY <1>b, <2>1, <2>2 DEF Untested, Computing
  <1>c. ASSUME ComputeStep(w)
        PROVE  /\ wpc[w] = "compute" /\ v \in Computing /\ v \in VertexId
               /\ UNCHANGED <<vertices, Phase, Untested, Computing, failed, superstep>>
    BY <1>a, <1>c
    DEF ComputeStep, Read, SendMessage, Freeze, graphVars, masterVars, workerVars,
        history, Phase, Untested, Computing
  <1>1. ASSUME ComputeBegins(w) PROVE Pregel!Wake(v) /\ v \in Untested
    <2> USE <1>1 DEF ComputeBegins, graphVars, masterVars
    <2>1. Untested' = Untested \ {v} /\ Computing' = Computing \cup {v}
      BY <1>b
    <2>2. v \in VertexId /\ v \in Untested /\ Phase' = Phase
      BY <1>a DEF Phase
    <2> QED BY <1>t, <2>1, <2>2, Lengths, SameBoxes DEF Pregel!Wake
  <1>2. ASSUME VertexSkipped(w) PROVE Pregel!Skip(v) /\ v \in Untested
    <2> USE <1>2 DEF VertexSkipped, graphVars, vertexVars, stepVars, masterVars, history
    <2>1. Untested' = Untested \ {v} /\ Computing' = Computing
      BY <1>a, <1>b DEF IInv, NoSharing, Computing
    <2>2. v \in VertexId /\ v \in Untested /\ Phase' = Phase
      BY <1>a DEF Phase
    <2> QED BY <1>t, <2>1, <2>2, Lengths, SameBoxes DEF Pregel!Skip
  <1>3. ASSUME Read(w) PROVE Pregel!Read(v) /\ v \in Computing
    <2> DEFINE rest == SubSeq(queue[v][Current], 1, Len(queue[v][Current]) - 1)
    <2>1. /\ v \in Computing /\ v \in VertexId
          /\ UNCHANGED <<vertices, Phase, Untested, Computing, failed, superstep>>
      BY <1>3, <1>c DEF ComputeStep
    <2>2. queue[v][Current] \in Seq(1..(MaxRounds + 1)) /\ queue[v][Current] # <<>>
      BY <1>t, <1>3, <2>1, Buffers DEF TypeOK, Read
    <2>3. Len(rest) = Len(queue[v][Current]) - 1
      BY <2>2, Remaining
    <2> HIDE DEF rest
    <2>4. queue' = [queue EXCEPT ![v] = [@ EXCEPT ![Current] = rest]] /\ active' = active
      BY <1>3 DEF Read, rest
    <2>5. /\ \A u \in VertexId \ {v} : queue'[u] = queue[u]
          /\ queue'[v][Current] = rest /\ queue'[v][Filling] = queue[v][Filling]
      <3>1. queue \in [VertexId -> [0..1 -> Seq(1..(MaxRounds + 1))]]
        BY <1>t DEF TypeOK
      <3>2. Current \in 0..1 /\ Filling \in 0..1 /\ Current # Filling
        BY <1>t, Buffers
      <3> QED BY <2>1, <2>4, <3>1, <3>2
    <2>6. Inbox' = [Inbox EXCEPT ![v] = @ - 1] /\ Outbox' = Outbox
      BY <1>t, <2>1, <2>3, <2>5, Buffers DEF Inbox, Outbox
    <2> QED BY <1>t, <2>1, <2>2, <2>4, <2>6, Lengths DEF Pregel!Read
  <1>4. ASSUME NEW u \in VertexId, SendMessage(w, u) PROVE Pregel!Send(u) /\ u \in vertices
    <2> DEFINE more == Append(queue[u][Filling], round + 1)
    <2>1. /\ v \in Computing /\ v \in VertexId /\ u \in vertices
          /\ UNCHANGED <<vertices, Phase, Untested, Computing, failed, superstep>>
      BY <1>4, <1>c DEF ComputeStep, SendMessage
    <2>2. queue[u][Filling] \in Seq(1..(MaxRounds + 1)) /\ round + 1 \in 1..(MaxRounds + 1)
      <3>1. queue \in [VertexId -> [0..1 -> Seq(1..(MaxRounds + 1))]]
        BY <1>t DEF TypeOK
      <3>2. Filling \in 0..1
        BY <1>t, Buffers
      <3>3. round \in 0..MaxRounds
        BY <1>t DEF TypeOK
      <3> QED BY <3>1, <3>2, <3>3, BoundsAssumption
    <2>3. Len(more) = Len(queue[u][Filling]) + 1
      BY <2>2, Appended
    <2> HIDE DEF more
    <2>4. queue' = [queue EXCEPT ![u] = [@ EXCEPT ![Filling] = more]] /\ active' = active
      BY <1>4 DEF SendMessage, more
    <2>5. /\ \A x \in VertexId \ {u} : queue'[x] = queue[x]
          /\ queue'[u][Filling] = more /\ queue'[u][Current] = queue[u][Current]
      BY <1>t, <2>4, Buffers DEF TypeOK
    <2>6. Outbox' = [Outbox EXCEPT ![u] = @ + 1] /\ Inbox' = Inbox
      BY <1>t, <2>1, <2>3, <2>5, Buffers DEF Inbox, Outbox
    <2> QED BY <2>1, <2>4, <2>6 DEF Pregel!Send
  <1>5. ASSUME Freeze(w) PROVE Pregel!VoteToHalt(v) /\ v \in Computing
    BY <1>t, <1>5, <1>c, SameBoxes DEF ComputeStep, Freeze, Pregel!VoteToHalt
  <1>6. ASSUME ComputeSucceeds(w) PROVE Pregel!Finish(v) /\ v \in Computing
    <2> USE <1>6 DEF ComputeSucceeds, graphVars, masterVars, stepVars, history
    <2>1. /\ Untested' = Untested \ {v} /\ Computing' = Computing \ {v}
          /\ v \in Computing /\ v \in VertexId /\ Phase' = Phase
      BY <1>a, <1>b DEF Phase
    <2>2. v \notin Untested
      BY <1>a DEF Untested
    <2>3. /\ \A u \in VertexId \ {v} : queue'[u] = queue[u]
          /\ queue'[v][Current] = <<>> /\ queue'[v][Filling] = queue[v][Filling]
      BY <1>t, <2>1, Buffers DEF TypeOK
    <2>4. Inbox' = [Inbox EXCEPT ![v] = 0] /\ Outbox' = Outbox
      <3>1. Len(<<>>) = 0
        OBVIOUS
      <3>2. Current' = Current /\ Filling' = Filling
        BY <1>t, Buffers
      <3> HIDE <1>6 DEF ComputeSucceeds
      <3>3. Inbox' = [Inbox EXCEPT ![v] = 0]
        BY <2>1, <2>3, <3>1, <3>2 DEF Inbox
      <3>4. Outbox' = Outbox
        BY <2>1, <2>3, <3>2 DEF Outbox
      <3> QED BY <3>3, <3>4
    <2> QED BY <2>1, <2>2, <2>4 DEF Pregel!Finish
  <1>7. ASSUME ComputeFails(w) PROVE Pregel!Fail(v) /\ v \in Computing
    <2> USE <1>7 DEF ComputeFails, graphVars, masterVars, vertexVars
    <2>1. /\ Untested' = Untested \ {v} /\ Computing' = Computing \ {v}
          /\ v \in Computing /\ v \in VertexId /\ Phase' = Phase
      BY <1>a, <1>b DEF Phase
    <2>2. v \notin Untested
      BY <1>a DEF Untested
    <2> QED BY <1>t, <2>1, <2>2, SameBoxes DEF Pregel!Fail
  <1>8. ASSUME Count(w) \/ WorkerExits(w) \/ StepCompleted(w) PROVE UNCHANGED Pregel!vars
    <2> USE <1>8 DEF Count, WorkerExits, StepCompleted, graphVars, masterVars,
                     vertexVars, stepVars, history
    <2>1. /\ \A x \in Worker \ {w} : wpc'[x] = wpc[x] /\ wv'[x] = wv[x]
          /\ wpc[w] \notin {"test", "compute"} /\ wpc'[w] \notin {"test", "compute"}
      BY <1>t DEF TypeOK
    <2>2. Untested' = Untested /\ Computing' = Computing
      BY <2>1 DEF Untested, Computing
    <2>3. Phase' = Phase
      BY DEF Phase
    <2> QED BY <1>t, <2>2, <2>3, SameBoxes
  <1> QED
    BY <1>1, <1>2, <1>3, <1>4, <1>5, <1>6, <1>7, <1>8
    DEF WorkerStep, ComputeStep, ComputeReturns, Pregel!Next

\* Until the client resumes a run that was broken off, every step is one of the
\* Pregel model.
LEMMA NextMaps ==
  ASSUME IInv, IInv', [Next]_vars
  PROVE  [Pregel!Next \/ resumed']_(Pregel!vars)
  <1> SUFFICES ASSUME ~resumed' PROVE [Pregel!Next]_(Pregel!vars)
    OBVIOUS
  <1>t. TypeOK /\ TypeOK' BY DEF IInv
  <1>1. CASE Client \/ CloseReturns
    BY <1>1, ClientMaps
  <1>2. CASE Executor
    BY <1>2, ExecutorMaps
  <1>3. CASE \E w \in Worker : WorkerStep(w) \/ ComputeStep(w) \/ StepCompleted(w)
    BY <1>3, WorkerMaps
  <1>4. ASSUME NEW v \in VertexId, NEW w \in Worker, Feed(v, w)
        PROVE  UNCHANGED Pregel!vars
    <2> USE <1>4 DEF Feed, graphVars, vertexVars, stepVars, history
    <2>1. /\ \A x \in Worker \ {w} : wpc'[x] = wpc[x] /\ wv'[x] = wv[x]
          /\ wpc[w] = "recv" /\ wpc'[w] = "test" /\ wv'[w] = v /\ v \in vertices
      BY <1>t DEF IInv, TypeOK, FeedingPlace
    <2>2. Untested' = Untested /\ Computing' = Computing
      BY <2>1 DEF Untested, Computing
    <2>3. Phase' = Phase
      BY DEF Phase
    <2> QED BY <1>t, <2>2, <2>3, SameBoxes DEF Pregel!vars
  <1>5. CASE UNCHANGED vars
    BY <1>5
    DEF vars, graphVars, vertexVars, stepVars, masterVars, workerVars, history,
        Pregel!vars, Inbox, Outbox, Phase, Untested, Computing, Current, Filling
  <1> QED BY <1>1, <1>2, <1>3, <1>4, <1>5 DEF Next, Terminated

\* The graph and its Executor implement the Pregel model until the client
\* resumes a run that was broken off.
THEOREM ImplementsPregelModel == Spec => ImplementsPregel
  <1>1. Init => Pregel!Init
    BY InitMaps
  <1>2. IInv /\ IInv' /\ [Next]_vars => [Pregel!Next \/ resumed']_(Pregel!vars)
    BY NextMaps
  <1> QED BY Invariance, <1>1, <1>2, PTL DEF Spec, ImplementsPregel
=============================================================================
