------------------------------ MODULE BspGraph ------------------------------
(***************************************************************************)
(* The bulk-synchronous graph of Chapter08/bspgraph and the Executor that  *)
(* drives it: worker goroutines take vertices from vertexCh and run the    *)
(* compute function on them, and the goroutine that called step feeds the  *)
(* vertices and waits at stepCompletedCh.                                  *)
(*                                                                         *)
(* A message is represented by the execution of a superstep in which it    *)
(* should be processed: the one after the execution that sent it.  The     *)
(* compute function is any function that reads messages, sends messages,   *)
(* freezes its vertex and returns, with an error or without.               *)
(***************************************************************************)
EXTENDS Integers, Sequences, FiniteSets

CONSTANTS
  VertexId,       \* vertices that may be in the graph
  NoVertex,       \* what an idle worker has
  Worker,         \* the goroutines of stepWorker
  MaxRounds,      \* bound: how many supersteps are executed in all
  MaxQueue,       \* bound: messages in one queue
  MaxSteps        \* bound: the argument of RunSteps

ASSUME WorkersAssumption == Worker # {} /\ IsFiniteSet(Worker)
ASSUME VertexAssumption  == IsFiniteSet(VertexId) /\ NoVertex \notin VertexId
ASSUME BoundsAssumption  == /\ MaxRounds \in Nat /\ MaxQueue \in Nat
                            /\ MaxSteps \in Nat

VARIABLES
  superstep,    \* g.superstep
  vertices,     \* the keys of g.vertices
  active,       \* active[v]: the vertex is not frozen
  queue,        \* queue[v][b]: msgQueue[b] of v
  pending,      \* g.pendingInStep
  activeInStep, \* g.activeInStep
  errCh,        \* errors in errCh, of capacity 1
  closed,       \* vertexCh is closed
  masterPc,     \* where the caller of the Executor is
  unfed,        \* vertices step has still to put into vertexCh
  stepsLeft,    \* maxSteps in run
  result,       \* what the last run returned
  wpc,          \* where each worker is
  wv,           \* the vertex each worker has
  round,        \* history: how many supersteps were executed
  due,          \* history: the vertices to compute in this superstep
  computed,     \* history: how often each was computed in this superstep
  failed,       \* history: a compute function failed in this superstep
  broke,        \* history: the last run was broken off, not counting its step
  resumed       \* history: the client ran again after that, or made an Executor
                \* or failed to reset the graph in mid-computation

graphVars  == <<superstep, vertices>>
vertexVars == <<active, queue>>
stepVars   == <<pending, activeInStep, errCh>>
masterVars == <<masterPc, unfed, stepsLeft, result>>
workerVars == <<wpc, wv>>
history    == <<round, due, computed, failed, broke, resumed>>
vars == <<graphVars, vertexVars, stepVars, closed, masterVars, workerVars, history>>

NoMessages == [b \in 0..1 |-> <<>>]

Init ==
  /\ superstep = 0
  /\ vertices = {}
  /\ active = [v \in VertexId |-> FALSE]
  /\ queue = [v \in VertexId |-> NoMessages]
  /\ pending = 0 /\ activeInStep = 0 /\ errCh = 0
  /\ closed = FALSE
  /\ masterPc = "idle" /\ unfed = {} /\ stepsLeft = 0 /\ result = "none"
  /\ wpc = [w \in Worker |-> "recv"]
  /\ wv = [w \in Worker |-> NoVertex]
  /\ round = 0 /\ due = {} /\ failed = FALSE
  /\ broke = FALSE /\ resumed = FALSE
  /\ computed = [v \in VertexId |-> 0]

Current == superstep % 2          \* the buffer that is read
Filling == (superstep + 1) % 2    \* the buffer that SendMessage fills

-----------------------------------------------------------------------------
(* The graph, between runs.                                                *)

\* Where PreStep, PostStep and PostStepKeepRunning are called.
InCallback == masterPc = "post" \/ (masterPc = "loop" /\ stepsLeft # 0)

\* A new vertex is active and has empty queues; of one that exists only the
\* value, which is not modelled, is overwritten.
AddVertex(v) ==
  /\ masterPc = "idle" \/ InCallback
  /\ ~closed
  /\ vertices' = vertices \cup {v}
  /\ IF v \in vertices
       THEN UNCHANGED vertexVars
       ELSE /\ active' = [active EXCEPT ![v] = TRUE]
            /\ queue'  = [queue EXCEPT ![v] = NoMessages]
  /\ UNCHANGED <<superstep, stepVars, closed, masterVars, workerVars, history>>

\* Reset drops the vertices and starts counting supersteps again.
Reset ==
  /\ masterPc = "idle" /\ ~closed
  /\ superstep' = 0
  /\ vertices'  = {}
  /\ active' = [v \in VertexId |-> FALSE]
  /\ queue'  = [v \in VertexId |-> NoMessages]
  /\ broke'  = FALSE /\ resumed' = FALSE
  /\ UNCHANGED <<stepVars, closed, masterVars, workerVars, round,
                 due, computed, failed>>

\* A queue fails to close: the count of supersteps starts again, but the graph
\* is still there.
ResetFails ==
  /\ masterPc = "idle" /\ ~closed
  /\ vertices # {}
  /\ superstep' = 0
  /\ resumed' = (resumed \/ superstep # 0)
  /\ UNCHANGED <<vertices, vertexVars, stepVars, closed, masterVars, workerVars,
                 round, due, computed, failed, broke>>

\* Close lets the workers exit, waits for them and resets the graph, or fails to.
Close ==
  /\ masterPc = "idle" /\ ~closed
  /\ closed'   = TRUE
  /\ masterPc' = "closing"
  /\ UNCHANGED <<graphVars, vertexVars, stepVars, unfed, stepsLeft, result,
                 workerVars, history>>

CloseResets ==
  /\ masterPc = "closing" /\ \A w \in Worker : wpc[w] = "done"
  /\ masterPc'  = "closed"
  /\ superstep' = 0
  /\ vertices'  = {}
  /\ active' = [v \in VertexId |-> FALSE]
  /\ queue'  = [v \in VertexId |-> NoMessages]
  /\ broke'  = FALSE /\ resumed' = FALSE
  /\ UNCHANGED <<stepVars, closed, unfed, stepsLeft, result, workerVars, round,
                 due, computed, failed>>

CloseFails ==
  /\ masterPc = "closing" /\ \A w \in Worker : wpc[w] = "done"
  /\ vertices # {}
  /\ masterPc'  = "closed"
  /\ superstep' = 0
  /\ resumed' = (resumed \/ superstep # 0)
  /\ UNCHANGED <<vertices, vertexVars, stepVars, closed, unfed, stepsLeft, result,
                 workerVars, round, due, computed, failed, broke>>

CloseReturns == CloseResets \/ CloseFails

-----------------------------------------------------------------------------
(* Executor.                                                               *)

\* A new Executor restarts the count of supersteps, whatever messages wait.
NewExecutor ==
  /\ masterPc = "idle" /\ ~closed
  /\ superstep' = 0
  /\ resumed' = (resumed \/ superstep # 0)
  /\ UNCHANGED <<vertices, vertexVars, stepVars, closed, masterVars, workerVars,
                 round, due, computed, failed, broke>>

\* RunSteps(n), or RunToCompletion for n = -1.
Run(n) ==
  /\ masterPc = "idle" /\ ~closed
  /\ stepsLeft' = n
  /\ masterPc'  = "loop"
  /\ broke' = FALSE /\ resumed' = (resumed \/ broke)
  /\ UNCHANGED <<graphVars, vertexVars, stepVars, closed, unfed, result,
                 workerVars, round, due, computed, failed>>

RunReturns ==
  /\ masterPc = "loop" /\ stepsLeft = 0
  /\ masterPc' = "idle"
  /\ result' = "ok"
  /\ UNCHANGED <<graphVars, vertexVars, stepVars, closed, unfed, stepsLeft,
                 workerVars, history>>

\* "break": superstep is not incremented.
BreakWith(res) ==
  /\ masterPc' = "idle"
  /\ result' = res
  /\ UNCHANGED <<graphVars, vertexVars, stepVars, closed, unfed, stepsLeft,
                 workerVars, round, due, computed, failed, resumed>>

\* The context expired, or PreStep failed, before the superstep.
PreStepFails ==
  /\ masterPc = "loop" /\ stepsLeft # 0
  /\ UNCHANGED broke
  /\ BreakWith("error")

\* PreStep succeeds and step begins.  (Mutated: one vertex is not counted.)
StepBeginsShort ==
  /\ masterPc = "loop" /\ stepsLeft # 0 /\ round < MaxRounds
  /\ activeInStep' = 0
  /\ pending' = Cardinality(vertices) - 1
  /\ unfed' = vertices
  /\ masterPc' = IF vertices = {} THEN "post" ELSE "feed"
  /\ round' = round + 1
  /\ due' = {v \in vertices : active[v] \/ queue[v][Current] # <<>>}
  /\ computed' = [v \in VertexId |-> 0]
  /\ failed' = FALSE
  /\ UNCHANGED <<graphVars, vertexVars, errCh, closed, stepsLeft, result,
                 workerVars, broke, resumed>>

StepBegins ==
  /\ masterPc = "loop" /\ stepsLeft # 0 /\ round < MaxRounds
  /\ activeInStep' = 0
  /\ pending' = Cardinality(vertices)
  /\ unfed' = vertices
  /\ masterPc' = IF vertices = {} THEN "post" ELSE "feed"
  /\ round' = round + 1
  /\ due' = {v \in vertices : active[v] \/ queue[v][Current] # <<>>}
  /\ computed' = [v \in VertexId |-> 0]
  /\ failed' = FALSE
  /\ UNCHANGED <<graphVars, vertexVars, errCh, closed, stepsLeft, result,
                 workerVars, broke, resumed>>

\* vertexCh <- v meets a worker's range.
Feed(v, w) ==
  /\ masterPc = "feed" /\ v \in unfed
  /\ wpc[w] = "recv"
  /\ unfed' = unfed \ {v}
  /\ masterPc' = IF unfed = {v} THEN "await" ELSE "feed"
  /\ wpc' = [wpc EXCEPT ![w] = "test"]
  /\ wv'  = [wv EXCEPT ![w] = v]
  /\ UNCHANGED <<graphVars, vertexVars, stepVars, closed, stepsLeft, result, history>>

\* A worker's stepCompletedCh <- struct{}{} meets the receive of step.
StepCompleted(w) ==
  /\ masterPc = "await" /\ wpc[w] = "signal"
  /\ masterPc' = "errs"
  /\ wpc' = [wpc EXCEPT ![w] = "recv"]
  /\ wv'  = [wv EXCEPT ![w] = NoVertex]
  /\ UNCHANGED <<graphVars, vertexVars, stepVars, closed, unfed, stepsLeft,
                 result, history>>

\* An error of the step, if there is one, breaks off the run.
StepFails ==
  /\ masterPc = "errs" /\ errCh > 0
  /\ errCh' = errCh - 1
  /\ masterPc' = "idle"
  /\ result' = "error"
  /\ broke' = TRUE
  /\ UNCHANGED <<graphVars, vertexVars, pending, activeInStep, closed, unfed,
                 stepsLeft, workerVars, round, due, computed, failed, resumed>>

StepSucceeds ==
  /\ masterPc = "errs" /\ errCh = 0
  /\ masterPc' = "post"
  /\ UNCHANGED <<graphVars, vertexVars, stepVars, closed, unfed, stepsLeft,
                 result, workerVars, history>>

\* PostStep or PostStepKeepRunning fails, or the latter asks to stop.
PostStepStops(res) ==
  /\ masterPc = "post"
  /\ broke' = TRUE
  /\ BreakWith(res)

\* The run goes on: the for statement counts the superstep.  (Mutated: only
\* maxSteps.)
SuperstepForgotten ==
  /\ masterPc = "post"
  /\ stepsLeft' = IF stepsLeft < 0 THEN stepsLeft ELSE stepsLeft - 1
  /\ masterPc'  = "loop"
  /\ UNCHANGED <<graphVars, vertexVars, stepVars, closed, unfed, result,
                 workerVars, history>>

KeepRunning ==
  /\ masterPc = "post"
  /\ superstep' = superstep + 1
  /\ stepsLeft' = IF stepsLeft < 0 THEN stepsLeft ELSE stepsLeft - 1
  /\ masterPc'  = "loop"
  /\ UNCHANGED <<vertices, vertexVars, stepVars, closed, unfed, result,
                 workerVars, history>>

-----------------------------------------------------------------------------
(* stepWorker.                                                             *)

\* The vertex is computed if it is active or has messages.
ComputeBegins(w) ==
  LET v == wv[w] IN
  /\ wpc[w] = "test"
  /\ active[v] \/ queue[v][Current] # <<>>
  /\ activeInStep' = activeInStep + 1
  /\ active'   = [active EXCEPT ![v] = TRUE]
  /\ computed' = [computed EXCEPT ![v] = @ + 1]
  /\ wpc' = [wpc EXCEPT ![w] = "compute"]
  /\ UNCHANGED <<graphVars, queue, pending, errCh, closed, masterVars, wv,
                 round, due, failed, broke, resumed>>

VertexSkipped(w) ==
  /\ wpc[w] = "test"
  /\ ~active[wv[w]] /\ queue[wv[w]][Current] = <<>>
  /\ wpc' = [wpc EXCEPT ![w] = "count"]
  /\ UNCHANGED <<graphVars, vertexVars, stepVars, closed, masterVars, wv, history>>

\* The compute function takes the newest message of its vertex.
Read(w) ==
  LET v == wv[w] IN
  /\ wpc[w] = "compute" /\ queue[v][Current] # <<>>
  /\ queue' = [queue EXCEPT ![v][Current] = SubSeq(@, 1, Len(@) - 1)]
  /\ UNCHANGED <<graphVars, active, stepVars, closed, masterVars, workerVars, history>>

\* SendMessage, to itself or to any other vertex of the graph.  (Mutated: into
\* the buffer that is being read.)
SendNow(w, u) ==
  /\ wpc[w] = "compute" /\ u \in vertices
  /\ Len(queue[u][Current]) < MaxQueue
  /\ queue' = [queue EXCEPT ![u][Current] = Append(@, round + 1)]
  /\ UNCHANGED <<graphVars, active, stepVars, closed, masterVars, workerVars, history>>

SendMessage(w, u) ==
  /\ wpc[w] = "compute" /\ u \in vertices
  /\ Len(queue[u][Filling]) < MaxQueue
  /\ queue' = [queue EXCEPT ![u][Filling] = Append(@, round + 1)]
  /\ UNCHANGED <<graphVars, active, stepVars, closed, masterVars, workerVars, history>>

Freeze(w) ==
  /\ wpc[w] = "compute" /\ active[wv[w]]
  /\ active' = [active EXCEPT ![wv[w]] = FALSE]
  /\ UNCHANGED <<graphVars, queue, stepVars, closed, masterVars, workerVars, history>>

\* The compute function succeeds: the messages it did not read are discarded.
ComputeSucceeds(w) ==
  /\ wpc[w] = "compute"
  /\ queue' = [queue EXCEPT ![wv[w]][Current] = <<>>]
  /\ wpc' = [wpc EXCEPT ![w] = "count"]
  /\ UNCHANGED <<graphVars, active, stepVars, closed, masterVars, wv, history>>

\* It fails: the first error of a step stays in errCh, others are dropped.
\* (Mutated: errCh holds two errors.)
EmitTwo == errCh' = IF errCh < 2 THEN errCh + 1 ELSE errCh
TryEmitError == errCh' = IF errCh < 1 THEN errCh + 1 ELSE errCh

ComputeFails(w) ==
  /\ wpc[w] = "compute"
  /\ TryEmitError
  /\ failed' = TRUE
  /\ wpc' = [wpc EXCEPT ![w] = "count"]
  /\ UNCHANGED <<graphVars, vertexVars, pending, activeInStep, closed,
                 masterVars, wv, round, due, computed, broke, resumed>>

\* The vertex is done with; the last one completes the step.  (Mutated: the
\* count is compared with zero before it is decremented.)
CountOffByOne(w) ==
  /\ wpc[w] = "count"
  /\ pending' = pending - 1
  /\ wpc' = [wpc EXCEPT ![w] = IF pending = 0 THEN "signal" ELSE "recv"]
  /\ wv'  = [wv EXCEPT ![w] = IF pending = 0 THEN @ ELSE NoVertex]
  /\ UNCHANGED <<graphVars, vertexVars, activeInStep, errCh, closed,
                 masterVars, history>>

Count(w) ==
  /\ wpc[w] = "count"
  /\ pending' = pending - 1
  /\ wpc' = [wpc EXCEPT ![w] = IF pending = 1 THEN "signal" ELSE "recv"]
  /\ wv'  = [wv EXCEPT ![w] = IF pending = 1 THEN @ ELSE NoVertex]
  /\ UNCHANGED <<graphVars, vertexVars, activeInStep, errCh, closed,
                 masterVars, history>>

WorkerExits(w) ==
  /\ wpc[w] = "recv" /\ closed
  /\ wpc' = [wpc EXCEPT ![w] = "done"]
  /\ UNCHANGED <<graphVars, vertexVars, stepVars, closed, masterVars, wv, history>>

-----------------------------------------------------------------------------

Client ==
  \/ \E v \in VertexId : AddVertex(v)
  \/ Reset
  \/ ResetFails
  \/ Close
  \/ NewExecutor
  \/ \E n \in -1..MaxSteps : Run(n)

Executor ==
  \/ RunReturns
  \/ PreStepFails
  \/ StepBegins
  \/ StepFails
  \/ StepSucceeds
  \/ \E res \in {"ok", "error"} : PostStepStops(res)
  \/ KeepRunning

ComputeReturns(w) == ComputeSucceeds(w) \/ ComputeFails(w)

WorkerStep(w) ==
  \/ ComputeBegins(w)
  \/ VertexSkipped(w)
  \/ ComputeReturns(w)
  \/ Count(w)
  \/ WorkerExits(w)

ComputeStep(w) ==
  \/ Read(w)
  \/ \E u \in VertexId : SendMessage(w, u)
  \/ Freeze(w)

Terminated == masterPc = "closed" /\ UNCHANGED vars

Next ==
  \/ Client
  \/ Executor
  \/ \E w \in Worker : WorkerStep(w) \/ ComputeStep(w) \/ StepCompleted(w)
  \/ \E v \in VertexId, w \in Worker : Feed(v, w)
  \/ CloseReturns
  \/ Terminated

Spec == Init /\ [][Next]_vars

\* Goroutines that can move do, and the compute function returns; nothing is
\* assumed of the client.
FairSpec ==
  /\ Spec
  /\ \A w \in Worker : WF_vars(WorkerStep(w))
  /\ WF_vars(\E v \in VertexId, w \in Worker : Feed(v, w))
  /\ WF_vars(\E w \in Worker : StepCompleted(w))
  /\ WF_vars(Executor)
  /\ WF_vars(CloseReturns)

-----------------------------------------------------------------------------
(* Properties.                                                             *)

\* Every variable has its type.
TypeOK ==
  /\ superstep \in 0..MaxRounds
  /\ vertices \subseteq VertexId
  /\ active \in [VertexId -> BOOLEAN]
  /\ queue \in [VertexId -> [0..1 -> Seq(1..(MaxRounds + 1))]]
  /\ pending \in 0..Cardinality(VertexId)
  /\ activeInStep \in 0..Cardinality(VertexId)
  /\ errCh \in 0..1
  /\ masterPc \in {"idle", "loop", "feed", "await", "errs", "post", "closing",
                   "closed"}
  /\ unfed \subseteq VertexId
  /\ stepsLeft \in -1..MaxSteps
  /\ result \in {"none", "ok", "error"}
  /\ wpc \in [Worker -> {"recv", "test", "compute", "count", "signal", "done"}]
  /\ wv \in [Worker -> VertexId \cup {NoVertex}]
  /\ round \in 0..MaxRounds
  /\ due \subseteq VertexId
  /\ computed \in [VertexId -> 0..1]
  /\ failed \in BOOLEAN /\ broke \in BOOLEAN /\ resumed \in BOOLEAN

\* The superstep barrier: outside a superstep no worker touches a vertex, so
\* callbacks and client may, and no two workers ever touch the same one.
Barrier ==
  /\ TypeOK
  /\ masterPc \notin {"feed", "await"} =>
       \A w \in Worker : wpc[w] \in {"recv", "done"}
  /\ \A w, x \in Worker : wv[w] = wv[x] /\ wv[w] # NoVertex => w = x

\* A superstep computes each vertex that was active or had messages when it
\* began exactly once, and no other; step returns their number.
ComputesDueOnce ==
  masterPc \in {"errs", "post"} =>
    /\ \A v \in VertexId : computed[v] = IF v \in due THEN 1 ELSE 0
    /\ activeInStep = Cardinality(due)

\* A message is there for its recipient in the superstep after the one that
\* sent it, and in no other: while a vertex is computed its messages are all
\* due now, and after a superstep none that was due is left.  A client that goes
\* on with a run that was broken off, or restarts the count of supersteps with a
\* new Executor or a failed Reset, may have them late, but never early.
NextSuperstep ==
  /\ \A w \in Worker : wpc[w] = "compute" =>
       \A i \in DOMAIN queue[wv[w]][Current] :
         /\ queue[wv[w]][Current][i] <= round
         /\ ~resumed => queue[wv[w]][Current][i] = round
  /\ masterPc = "post" =>
       \A v \in vertices, b \in 0..1 :
         \A i \in DOMAIN queue[v][b] :
           /\ b = Current => resumed
           /\ ~resumed => queue[v][b][i] = round + 1

\* step returns an error exactly if a compute function failed in that very
\* superstep: none is lost, none is left over from an earlier superstep.
ErrorsReported == masterPc = "errs" => (errCh > 0 <=> failed)

\* A superstep always completes and Close always returns: pendingInStep
\* reaches zero exactly when the last vertex is done, and its worker finds
\* step waiting.
CallsReturn ==
  /\ masterPc = "feed" ~> masterPc = "errs"
  /\ masterPc = "closing" ~> masterPc = "closed"

\* How many messages each vertex has to read, and has for the next superstep;
\* the vertices no worker has looked at, and those being computed.
Inbox     == [v \in VertexId |-> Len(queue[v][Current])]
Outbox    == [v \in VertexId |-> Len(queue[v][Filling])]
Phase     == IF masterPc \in {"feed", "await", "errs", "post"} \/ broke
               THEN "superstep" ELSE "between"
Untested  == {v \in vertices : \/ v \in unfed
                               \/ \E w \in Worker : wpc[w] = "test" /\ wv[w] = v}
Computing == {v \in vertices : \E w \in Worker : wpc[w] = "compute" /\ wv[w] = v}

\* The two buffers of each vertex and the parity of the superstep counter
\* implement the inbox and the outbox of the Pregel model, up to the moment at
\* which the client resumes as above, and again when it has reset the graph.
Pregel == INSTANCE Pregel WITH
  present <- vertices,
  inbox   <- Inbox,
  outbox  <- Outbox,
  awake   <- active,
  phase   <- Phase,
  todo    <- Untested,
  busy    <- Computing,
  faulty  <- failed

ImplementsPregel == Pregel!Init /\ [][Pregel!Next \/ resumed']_(Pregel!vars)
=============================================================================
