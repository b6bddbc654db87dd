---------------------------- MODULE DynamicPool ----------------------------
(***************************************************************************)
(* Pipeline.Process over one DynamicWorkerPool stage.  The goroutine Lead  *)
(* runs dynamicWorkerPool.Run: it takes a payload from stageCh[0], then a  *)
(* token from tokenPool, and starts a goroutine for the pair.  The other   *)
(* workers are those goroutines, one per token: an idle worker stands for  *)
(* a token that is in the pool.                                            *)
(*                                                                         *)
(* Run returns without waiting for the goroutines it started.  They may    *)
(* then send on a closed channel, which panics: the program is crashed and *)
(* nothing moves any more.                                                 *)
(***************************************************************************)
EXTENDS PipelineCore

CONSTANT Lead

ASSUME LeadAssumption == Lead \in Worker /\ NumStages = 1

VARIABLE crashed

poolVars == <<vars, crashed>>

Slot == Worker \ {Lead}

Init ==
  /\ CoreInit
  /\ pc = [g \in Goroutine |-> IF g = Source THEN "next"
                               ELSE IF g \in Slot THEN "idle" ELSE "recv"]
  /\ crashed = FALSE

-----------------------------------------------------------------------------
(* The loop of dynamicWorkerPool.Run.                                      *)

LeadReceives == Transfer(Source, Lead, 0, "check", "token")

TakeToken(w) ==
  /\ pc[Lead] = "token" /\ pc[w] = "idle"
  /\ pc'   = [pc EXCEPT ![Lead] = "recv", ![w] = "process"]
  /\ held' = [held EXCEPT ![Lead] = 0, ![w] = held[Lead]]
  /\ UNCHANGED <<closed, sourceVars, sinkVars, errVars, mainVars, closerPc,
                 ctxVars>>

LeadCtxDone ==
  /\ pc[Lead] \in {"recv", "token"} /\ CtxIsDone
  /\ Leave(Lead)
  /\ UNCHANGED <<closed, sourceVars, sinkVars, errVars, mainVars, closerPc,
                 ctxVars>>

-----------------------------------------------------------------------------
(* A goroutine started by Run, to the deferred return of its token.        *)

GiveBack(w) ==
  /\ pc'   = [pc EXCEPT ![w] = "idle"]
  /\ held' = [held EXCEPT ![w] = 0]

SlotFails(w) ==
  /\ pc[w] = "process" /\ ~ErrClosed
  /\ Emit
  /\ failed' = TRUE
  /\ GiveBack(w)
  /\ UNCHANGED <<closed, sourceVars, sinkVars, mainVars, closerPc, ctxVars>>

\* payloadOut == nil.  (Mutated: returning the token is not deferred, and this
\* return forgets it.)
SlotDropsToken(w) ==
  /\ pc[w] = "process"
  /\ marked' = marked \cup {held[w]}
  /\ Leave(w)
  /\ UNCHANGED <<closed, sourceVars, sunk, errVars, mainVars, closerPc,
                 ctxVars>>

SlotDrops(w) ==
  /\ pc[w] = "process"
  /\ marked' = marked \cup {held[w]}
  /\ GiveBack(w)
  /\ UNCHANGED <<closed, sourceVars, sunk, errVars, mainVars, closerPc,
                 ctxVars>>

SlotDelivers(w) == Transfer(w, Sink, 1, "idle", "process")

\* The sending select takes its ctx.Done() case.
SlotCtxDone(w) ==
  /\ pc[w] = "send" /\ CtxIsDone
  /\ GiveBack(w)
  /\ UNCHANGED <<closed, sourceVars, sinkVars, errVars, mainVars, closerPc,
                 ctxVars>>

\* A send on stageCh[1] after Process closed it, or an error for errCh after
\* that was closed.
Panic(w) ==
  /\ \/ pc[w] = "send" /\ closed[1]
     \/ pc[w] = "process" /\ ErrClosed
  /\ crashed' = TRUE
  /\ UNCHANGED vars

-----------------------------------------------------------------------------

LeadStep == LeadCtxDone \/ InputClosed(Lead, 0)
SlotStep(w) ==
  \/ /\ \/ SlotFails(w)
        \/ SlotDrops(w)
        \/ FifoForwards(w)
        \/ SlotDelivers(w)
        \/ SlotCtxDone(w)
     /\ UNCHANGED crashed
  \/ Panic(w)

\* What a goroutine has returned: the source for channel 0, Run for channel 1.
Closes ==
  \/ CloseOutput(0, pc[Source] = "done")
  \/ CloseOutput(1, pc[Lead] = "done")

Alive(A) == ~crashed /\ A /\ UNCHANGED crashed

RunStep ==
  \/ SourceStep
  \/ SinkStep
  \/ LeadReceives
  \/ \E w \in Slot : TakeToken(w)
  \/ LeadStep
  \/ Closes
  \/ CloserStep
  \/ MainStep
  \/ Expire

Terminated ==
  /\ \/ crashed
     \/ /\ mainPc = "done" /\ closerPc = "done" /\ expired
        /\ \A w \in Slot : pc[w] \in {"idle", "done"}
  /\ UNCHANGED poolVars

Next ==
  \/ Alive(RunStep)
  \/ ~crashed /\ \E w \in Slot : SlotStep(w)
  \/ Terminated

Spec == Init /\ [][Next]_poolVars

\* Every goroutine that can move does; the callbacks return.
FairSpec ==
  /\ Spec
  /\ WF_poolVars(Alive(SourceStep))
  /\ WF_poolVars(Alive(SinkStep))
  /\ WF_poolVars(Alive(LeadReceives))
  /\ WF_poolVars(Alive(\E w \in Slot : TakeToken(w)))
  /\ WF_poolVars(Alive(LeadStep))
  /\ WF_poolVars(Alive(Closes))
  /\ WF_poolVars(Alive(CloserStep))
  /\ WF_poolVars(Alive(MainStep))
  /\ \A w \in Slot : WF_poolVars(~crashed /\ SlotStep(w))

-----------------------------------------------------------------------------
(* Properties.                                                             *)

\* Every variable has its type.
TypeOK ==
  /\ pc \in [Goroutine -> {"next", "send", "check", "recv", "token", "idle",
                           "process", "done"}]
  /\ held \in [Goroutine -> 0..NumPayloads]
  /\ closed \in [Chan -> BOOLEAN]
  /\ produced \in 0..NumPayloads
  /\ marked \subseteq 1..NumPayloads
  /\ errCh \in 0..ErrCap
  /\ crashed \in BOOLEAN

\* A payload is in the hands of one goroutine at a time, and of none after
\* MarkAsProcessed, the goroutines that outlive Process included.
Exclusive ==
  /\ TypeOK
  /\ \A g \in Goroutine : held[g] # 0 =>
       /\ held[g] \notin marked
       /\ \A h \in Goroutine : held[h] = held[g] => h = g

\* Even though goroutines can outlive Run, Process reports an error exactly if
\* something failed: a failure that comes too late for errCh panics instead
\* of being lost.
ErrorsReported == mainPc = "done" /\ ~crashed => (err <=> failed)

\* Until the closer cancels the context, a payload leaves the stage unmarked
\* only because of a failure or because the caller's context ended: payloads
\* are lost at the very end, to the goroutines nobody waits for.
LostOnlyAtShutdown ==
  closerPc # "done" /\ ~failed /\ ~expired =>
    \A p \in 1..produced : p \in marked \/ \E g \in Goroutine : held[g] = p

\* Every token comes back to the pool: no goroutine of the stage is stuck on
\* its send, whoever stopped reading, unless the program crashed.
TokensReturn == \A w \in Slot : pc[w] # "idle" ~> (pc[w] = "idle" \/ crashed)

\* Process returns unless the program crashed.
Returns == <>(mainPc = "done" \/ crashed)

\* What TestDataFlow asserts of a run of Process: without error every payload
\* of the source is marked as processed.
DeliversAll ==
  mainPc = "done" /\ ~err /\ ~expired => ~crashed /\ marked = 1..produced
=============================================================================
