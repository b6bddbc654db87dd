---------------------------- MODULE PipelineCore ----------------------------
(***************************************************************************)
(* What every pipeline of Chapter07/pipeline shares: the source and sink   *)
(* goroutines, the unbuffered channels between stages, the bounded error   *)
(* channel, and Pipeline.Process with its closer goroutine.  The stages    *)
(* themselves (FIFO and pools, dynamic pool, broadcast) are the modules    *)
(* that extend this one.                                                   *)
(*                                                                         *)
(* A channel is a number: 0..NumStages are the stageCh of Process, larger  *)
(* ones the private channels of a broadcast stage.  A payload is the rank  *)
(* at which the source produced it; 0 is "no payload".                     *)
(***************************************************************************)
EXTENDS Naturals, FiniteSets, Sequences

CONSTANTS
  NumStages,    \* len(p.stages)
  NumPayloads,  \* bound: how many payloads the source can produce
  Worker,       \* the goroutines that run the stages
  Source, Sink, \* the goroutines of sourceWorker and sinkWorker
  Chan          \* every payload channel

ASSUME StagesAssumption   == NumStages \in Nat
ASSUME PayloadsAssumption == NumPayloads \in Nat
ASSUME WorkerAssumption   == /\ Source \notin Worker
                             /\ Sink \notin Worker
                             /\ Source # Sink
ASSUME ChanAssumption     == 0..NumStages \subseteq Chan

Goroutine == Worker \cup {Source, Sink}
ErrCap    == NumStages + 2

VARIABLES
  pc,        \* where each goroutine is in its select loop
  held,      \* the payload each goroutine holds
  closed,    \* which payload channels are closed
  produced,  \* how many payloads the source has handed out
  srcErr,    \* source.Error() != nil
  sunk,      \* payloads in the order sink.Consume was called with them
  marked,    \* payloads on which MarkAsProcessed was called
  errCh,     \* errors buffered in errCh
  failed,    \* history: a processor, the sink or a checked source failed
  err,       \* the err of Process is not nil
  mainPc,    \* Process itself: ranging over errCh, cancelling, returned
  closerPc,  \* the goroutine that waits for the others
  cancelled, \* ctxCancelFn was called
  expired    \* the caller's context was cancelled or timed out

goVars    == <<pc, held>>
sourceVars == <<produced, srcErr>>
sinkVars  == <<sunk, marked>>
errVars   == <<errCh, failed>>
mainVars  == <<err, mainPc>>
ctxVars   == <<cancelled, expired>>
vars == <<goVars, closed, sourceVars, sinkVars, errVars, mainVars, closerPc,
          ctxVars>>

CoreInit ==
  /\ held = [g \in Goroutine |-> 0]
  /\ closed = [c \in Chan |-> FALSE]
  /\ produced = 0
  /\ srcErr = FALSE
  /\ sunk = <<>>
  /\ marked = {}
  /\ errCh = 0
  /\ failed = FALSE
  /\ err = FALSE
  /\ mainPc = "range"
  /\ closerPc = "wait"
  /\ cancelled = FALSE
  /\ expired = FALSE

\* pCtx.Done() is ready: Process cancelled it or the caller's context ended.
CtxIsDone == cancelled \/ expired
ErrClosed == closerPc # "wait"

-----------------------------------------------------------------------------
(* Steps shared by the goroutines.                                         *)

\* An error is put in errCh unless the buffer is full.
Emit == errCh' = IF errCh < ErrCap THEN errCh + 1 ELSE errCh

\* The goroutine returns; what it held is dropped.
Leave(g) ==
  /\ pc'   = [pc EXCEPT ![g] = "done"]
  /\ held' = [held EXCEPT ![g] = 0]

\* A rendezvous on unbuffered channel c: the send of s meets the receive of r.
Transfer(s, r, c, sNext, rNext) ==
  /\ pc[s] = "send" /\ pc[r] = "recv" /\ s # r
  /\ ~closed[c]
  /\ pc'   = [pc EXCEPT ![s] = sNext, ![r] = rNext]
  /\ held' = [held EXCEPT ![r] = held[s], ![s] = 0]
  /\ UNCHANGED <<closed, sourceVars, sinkVars, errVars, mainVars, closerPc,
                 ctxVars>>

\* The receiving select of g sees that its input channel is closed.
\* (Mutated: and goes on.)
InputClosedGoesOn(g, c) ==
  /\ pc[g] = "recv" /\ closed[c]
  /\ UNCHANGED vars

InputClosed(g, c) ==
  /\ pc[g] = "recv" /\ closed[c]
  /\ Leave(g)
  /\ UNCHANGED <<closed, sourceVars, sinkVars, errVars, mainVars, closerPc,
                 ctxVars>>

\* A select of g, receiving or sending, takes its <-ctx.Done() case.
CtxDone(g) ==
  /\ pc[g] \in {"recv", "send"} /\ CtxIsDone
  /\ Leave(g)
  /\ UNCHANGED <<closed, sourceVars, sinkVars, errVars, mainVars, closerPc,
                 ctxVars>>

-----------------------------------------------------------------------------
(* sourceWorker.                                                           *)

\* source.Next returns true; the source may meanwhile have recorded an error.
SourceYields ==
  /\ pc[Source] = "next"
  /\ produced < NumPayloads
  /\ produced' = produced + 1
  /\ srcErr' \in {srcErr, TRUE}
  /\ pc'   = [pc EXCEPT ![Source] = "send"]
  /\ held' = [held EXCEPT ![Source] = produced + 1]
  /\ UNCHANGED <<closed, sinkVars, errVars, mainVars, closerPc, ctxVars>>

\* source.Next returns false, at its end or because of an error: the loop
\* ends without asking source.Error().
SourceEnds ==
  /\ pc[Source] = "next"
  /\ srcErr' \in {srcErr, TRUE}
  /\ Leave(Source)
  /\ UNCHANGED <<closed, produced, sinkVars, errVars, mainVars, closerPc,
                 ctxVars>>

\* source.Error() is asked after a payload was sent.
SourceCheck ==
  /\ pc[Source] = "check"
  /\ pc' = [pc EXCEPT ![Source] = "next"]
  /\ IF srcErr THEN Emit /\ failed' = TRUE ELSE UNCHANGED errVars
  /\ UNCHANGED <<held, closed, sourceVars, sinkVars, mainVars, closerPc,
                 ctxVars>>

(* sinkWorker.                                                             *)

\* Mutated: the sink keeps the payload after marking it.
SinkConsumesKeeping ==
  /\ pc[Sink] = "process"
  /\ sunk'   = Append(sunk, held[Sink])
  /\ marked' = marked \cup {held[Sink]}
  /\ pc'   = [pc EXCEPT ![Sink] = "recv"]
  /\ UNCHANGED <<held, closed, sourceVars, errVars, mainVars, closerPc,
                 ctxVars>>

\* sink.Consume succeeds and the payload is marked as processed.
SinkConsumes ==
  /\ pc[Sink] = "process"
  /\ sunk'   = Append(sunk, held[Sink])
  /\ marked' = marked \cup {held[Sink]}
  /\ pc'   = [pc EXCEPT ![Sink] = "recv"]
  /\ held' = [held EXCEPT ![Sink] = 0]
  /\ UNCHANGED <<closed, sourceVars, errVars, mainVars, closerPc, ctxVars>>

\* Mutated: the sink reports the error but tries the same payload again.
SinkRetries ==
  /\ pc[Sink] = "process"
  /\ sunk' = Append(sunk, held[Sink])
  /\ Emit
  /\ failed' = TRUE
  /\ UNCHANGED <<goVars, closed, sourceVars, marked, mainVars, closerPc,
                 ctxVars>>

\* sink.Consume fails: report it and return.
SinkFails ==
  /\ pc[Sink] = "process"
  /\ sunk' = Append(sunk, held[Sink])
  /\ Emit
  /\ failed' = TRUE
  /\ Leave(Sink)
  /\ UNCHANGED <<closed, sourceVars, marked, mainVars, closerPc, ctxVars>>

-----------------------------------------------------------------------------
(* A processor's return, as the loop of fifo.Run handles it.               *)

\* err != nil: report it and return.
FifoFails(w) ==
  /\ pc[w] = "process"
  /\ Emit
  /\ failed' = TRUE
  /\ Leave(w)
  /\ UNCHANGED <<closed, sourceVars, sinkVars, mainVars, closerPc, ctxVars>>

\* payloadOut == nil: the payload is finished here.
\* (Mutated: without MarkAsProcessed.)
FifoDropsUnmarked(w) ==
  /\ pc[w] = "process"
  /\ pc'   = [pc EXCEPT ![w] = "recv"]
  /\ held' = [held EXCEPT ![w] = 0]
  /\ UNCHANGED <<closed, sourceVars, sinkVars, errVars, mainVars, closerPc,
                 ctxVars>>

FifoDrops(w) ==
  /\ pc[w] = "process"
  /\ marked' = marked \cup {held[w]}
  /\ pc'   = [pc EXCEPT ![w] = "recv"]
  /\ held' = [held EXCEPT ![w] = 0]
  /\ UNCHANGED <<closed, sourceVars, sunk, errVars, mainVars, closerPc,
                 ctxVars>>

\* The payload goes on to the output channel.
FifoForwards(w) ==
  /\ pc[w] = "process"
  /\ pc' = [pc EXCEPT ![w] = "send"]
  /\ UNCHANGED <<held, closed, sourceVars, sinkVars, errVars, mainVars,
                 closerPc, ctxVars>>

-----------------------------------------------------------------------------
(* Pipeline.Process.                                                       *)

\* The goroutine that feeds c has returned (finished): close(c); wg.Done().
CloseOutput(c, finished) ==
  /\ finished /\ ~closed[c]
  /\ closed' = [closed EXCEPT ![c] = TRUE]
  /\ UNCHANGED <<goVars, sourceVars, sinkVars, errVars, mainVars, closerPc,
                 ctxVars>>

\* wg.Wait() returned: every stageCh is closed and the sink is done.
\* (Mutated: wg.Add(2) counts one too few and the sink is not waited for.)
CloseErrsEarly ==
  /\ closerPc = "wait"
  /\ \A c \in 0..NumStages : closed[c]
  /\ closerPc' = "cancel"
  /\ UNCHANGED <<goVars, closed, sourceVars, sinkVars, errVars, mainVars,
                 ctxVars>>

CloseErrs ==
  /\ closerPc = "wait"
  /\ pc[Sink] = "done"
  /\ \A c \in 0..NumStages : closed[c]
  /\ closerPc' = "cancel"
  /\ UNCHANGED <<goVars, closed, sourceVars, sinkVars, errVars, mainVars,
                 ctxVars>>

\* The closer cancels the context last of all.  (Mutated: at any time, as if
\* ctxCancelFn came before wg.Wait.)
CloserCancelsAnyTime ==
  /\ ~cancelled
  /\ closerPc'  = IF closerPc = "cancel" THEN "done" ELSE closerPc
  /\ cancelled' = TRUE
  /\ UNCHANGED <<goVars, closed, sourceVars, sinkVars, errVars, mainVars,
                 expired>>

CloserCancels ==
  /\ closerPc = "cancel"
  /\ closerPc'  = "done"
  /\ cancelled' = TRUE
  /\ UNCHANGED <<goVars, closed, sourceVars, sinkVars, errVars, mainVars,
                 expired>>

\* One turn of the loop that ranges over errCh: append the error, cancel.
\* (Mutated: a receive that takes the end of errCh for an error.)
CollectClosed ==
  /\ mainPc = "range" /\ (errCh > 0 \/ ErrClosed)
  /\ errCh'  = errCh - 1
  /\ err'    = TRUE
  /\ mainPc' = "cancel"
  /\ UNCHANGED <<goVars, closed, sourceVars, sinkVars, failed, closerPc,
                 ctxVars>>

CollectError ==
  /\ mainPc = "range" /\ errCh > 0
  /\ errCh'  = errCh - 1
  /\ err'    = TRUE
  /\ mainPc' = "cancel"
  /\ UNCHANGED <<goVars, closed, sourceVars, sinkVars, failed, closerPc,
                 ctxVars>>

\* ctxCancelFn() after an error.  (Mutated: the call is missing.)
ForgetToCancel ==
  /\ mainPc = "cancel"
  /\ mainPc' = "range"
  /\ UNCHANGED <<goVars, closed, sourceVars, sinkVars, errVars, err, closerPc,
                 ctxVars>>

CancelOnError ==
  /\ mainPc = "cancel"
  /\ mainPc'    = "range"
  /\ cancelled' = TRUE
  /\ UNCHANGED <<goVars, closed, sourceVars, sinkVars, errVars, err, closerPc,
                 expired>>

\* errCh is closed and drained: Process returns err.
\* (Mutated: returned as soon as errCh is closed.)
ReturnUndrained ==
  /\ mainPc = "range" /\ ErrClosed
  /\ mainPc' = "done"
  /\ UNCHANGED <<goVars, closed, sourceVars, sinkVars, errVars, err, closerPc,
                 ctxVars>>

Return ==
  /\ mainPc = "range" /\ errCh = 0 /\ ErrClosed
  /\ mainPc' = "done"
  /\ UNCHANGED <<goVars, closed, sourceVars, sinkVars, errVars, err, closerPc,
                 ctxVars>>

\* The caller cancels the context it passed, or its deadline passes.
Expire ==
  /\ ~expired
  /\ expired' = TRUE
  /\ UNCHANGED <<goVars, closed, sourceVars, sinkVars, errVars, mainVars,
                 closerPc, cancelled>>

SourceStep  == SourceYields \/ SourceEnds \/ SourceCheck \/ CtxDone(Source)
SinkStep    == \/ SinkConsumes \/ SinkFails \/ CtxDone(Sink)
               \/ InputClosed(Sink, NumStages)
CloserStep  == CloseErrs \/ CloserCancels
MainStep    == CollectError \/ CancelOnError \/ Return
=============================================================================
