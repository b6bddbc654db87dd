------------------------------ MODULE Pipeline ------------------------------
(***************************************************************************)
(* Pipeline.Process over FIFO and FixedWorkerPool stages (a FIFO stage is  *)
(* a pool with one worker).  Worker w runs fifo.Run for stage stageOf[w]:  *)
(* it reads stageCh[stageOf[w]] and writes stageCh[stageOf[w] + 1].        *)
(***************************************************************************)
EXTENDS PipelineCore

CONSTANT stageOf

\* Every stage has a worker: FixedWorkerPool panics on numWorkers <= 0.
ASSUME StageOfAssumption ==
  /\ stageOf \in [Worker -> 0..(NumStages - 1)]
  /\ \A s \in 0..(NumStages - 1) : \E w \in Worker : stageOf[w] = s

Sender   == Worker \cup {Source}
Receiver == Worker \cup {Sink}

OutCh(g) == IF g = Source THEN 0 ELSE stageOf[g] + 1
InCh(g)  == IF g = Sink THEN NumStages ELSE stageOf[g]

Init ==
  /\ CoreInit
  /\ pc = [g \in Goroutine |-> IF g = Source THEN "next" ELSE "recv"]

Feeders(c) == {g \in Sender : OutCh(g) = c}

\* The goroutines that feed channel c have all returned: wg.Wait in
\* fixedWorkerPool.Run.  (Mutated: one of them has.)
SomeFinished(c) == \E g \in Feeders(c) : pc[g] = "done"

Finished(c) == \A g \in Feeders(c) : pc[g] = "done"

Handoff(s, r) ==
  /\ OutCh(s) = InCh(r)
  /\ Transfer(s, r, OutCh(s), IF s = Source THEN "check" ELSE "recv",
              "process")

Process(w) == FifoFails(w) \/ FifoDrops(w) \/ FifoForwards(w)
FifoStep(w) == Process(w) \/ CtxDone(w) \/ InputClosed(w, InCh(w))

Terminated ==
  /\ mainPc = "done" /\ closerPc = "done" /\ expired
  /\ UNCHANGED vars

Next ==
  \/ SourceStep
  \/ SinkStep
  \/ \E w \in Worker : FifoStep(w)
  \/ \E s \in Sender, r \in Receiver : Handoff(s, r)
  \/ \E c \in 0..NumStages : CloseOutput(c, Finished(c))
  \/ CloserStep
  \/ MainStep
  \/ Expire
  \/ Terminated

Spec == Init /\ [][Next]_vars

\* The scheduler runs every goroutine that can move and every callback
\* (source, processors, sink) returns.  The caller's context need not end.
Fairness ==
  /\ WF_vars(SourceStep)
  /\ WF_vars(SinkStep)
  /\ \A w \in Worker : WF_vars(FifoStep(w))
  /\ \A s \in Sender : WF_vars(\E r \in Receiver : Handoff(s, r))
  /\ \A c \in 0..NumStages : WF_vars(CloseOutput(c, Finished(c)))
  /\ WF_vars(CloserStep)
  /\ WF_vars(MainStep)

FairSpec == Spec /\ Fairness

-----------------------------------------------------------------------------
(* Properties.                                                             *)

\* Every variable has its type; errCh never holds more than its capacity.
TypeOK ==
  /\ pc \in [Goroutine -> {"next", "send", "check", "recv", "process", "done"}]
  /\ held \in [Goroutine -> 0..NumPayloads]
  /\ closed \in [Chan -> BOOLEAN]
  /\ produced \in 0..NumPayloads
  /\ srcErr \in BOOLEAN
  /\ sunk \in Seq(1..NumPayloads)
  /\ marked \subseteq 1..NumPayloads
  /\ errCh \in 0..ErrCap
  /\ failed \in BOOLEAN
  /\ err \in BOOLEAN
  /\ mainPc \in {"range", "cancel", "done"}
  /\ closerPc \in {"wait", "cancel", "done"}
  /\ cancelled \in BOOLEAN
  /\ expired \in BOOLEAN

\* No goroutine is at a send on a channel that is closed, and none can still
\* report an error once errCh is closed: in Go either one panics.
ChannelDiscipline ==
  /\ \A g \in Sender : pc[g] = "send" => ~closed[OutCh(g)]
  /\ ErrClosed => \A g \in Goroutine : pc[g] \notin {"process", "check"}

\* A payload is in the hands of one goroutine at a time, and of none after
\* MarkAsProcessed, which may put it back in a pool (crawler/payload.go).
Exclusive ==
  \A g \in Goroutine : held[g] # 0 =>
    /\ held[g] \notin marked
    /\ \A h \in Goroutine : held[h] = held[g] => h = g

\* Process returning no error, its caller's context still live, means that
\* every payload the source handed out was marked as processed.
NothingLost ==
  mainPc = "done" /\ ~err /\ ~expired => marked = 1..produced

\* Process returns an error if any processor, the sink or a checked source
\* failed, and only then, however full errCh was and however the failure
\* raced with the shutdown.
ErrorsReported == mainPc = "done" => (err <=> failed)

\* The goroutines never leak: when Process returns, all of them have.
NoGoroutineLeaks ==
  mainPc = "done" => \A g \in Goroutine : pc[g] = "done"

\* Stopped early by a failure, a source that keeps producing does not keep
\* the pipeline alive: Process always returns.
Termination == <>(mainPc = "done")

\* Process implements its contract: a payload in flight is one a goroutine
\* holds, and the status is what Process returned.
InFlight == {held[g] : g \in Goroutine} \ {0}
Status   == IF mainPc # "done" THEN "running" ELSE IF err THEN "error" ELSE "ok"

Contract == INSTANCE PipelineContract WITH
  accepted  <- produced,
  inFlight  <- InFlight,
  completed <- marked,
  broken    <- failed,
  timedOut  <- expired,
  status    <- Status

ImplementsContract == Contract!Spec
=============================================================================
