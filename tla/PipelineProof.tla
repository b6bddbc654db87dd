--------------------------- MODULE PipelineProof ---------------------------
(***************************************************************************)
(* Proofs about Pipeline, for any number of stages, workers per stage and  *)
(* payloads.                                                               *)
(***************************************************************************)
EXTENDS Pipeline, TLAPS

(***************************************************************************)
(* The inductive invariant.                                                *)
(***************************************************************************)

\* A goroutine holds a payload exactly while it processes or sends one, and
\* only one the source has produced.
HoldsWhileBusy ==
  \A g \in Goroutine :
    /\ held[g] # 0 <=> pc[g] \in {"process", "send"}
    /\ held[g] <= produced

MarkedWereProduced == marked \subseteq 1..produced

\* A stage channel is closed only after all its senders returned.
ClosedAfterFeeders ==
  \A c \in 0..NumStages :
    closed[c] => \A g \in Sender : OutCh(g) = c => pc[g] = "done"

\* errCh is closed only after every goroutine that could use it returned.
ErrClosedLast ==
  ErrClosed => pc[Sink] = "done" /\ \A c \in 0..NumStages : closed[c]

ReturnedAfterDrain == mainPc = "done" => ErrClosed /\ errCh = 0

\* The context is cancelled because of an error or at the very end.
CancelledForCause ==
  /\ cancelled => err \/ closerPc = "done"
  /\ mainPc = "cancel" => err

\* A failure is either in errCh or already in err.
FailuresAccounted == failed <=> err \/ errCh > 0

\* Without failure or expiry every payload is marked or still held.
PayloadsAccounted ==
  failed \/ expired \/ \A p \in 1..produced :
    p \in marked \/ \E g \in Goroutine : held[g] = p

IInv ==
  /\ TypeOK
  /\ HoldsWhileBusy
  /\ MarkedWereProduced
  /\ Exclusive
  /\ ClosedAfterFeeders
  /\ ErrClosedLast
  /\ ReturnedAfterDrain
  /\ CancelledForCause
  /\ FailuresAccounted
  /\ PayloadsAccounted

-----------------------------------------------------------------------------

\* Initially no goroutine holds a payload and no channel is closed, so the
\* inductive invariant holds.
LEMMA InitIInv == Init => IInv
  <1> SUFFICES ASSUME Init PROVE IInv OBVIOUS
  <1> USE DEF Init, CoreInit
  <1>1. TypeOK
    <2>1. pc \in [Goroutine -> {"next", "send", "check", "recv", "process", "done"}]
      BY StagesAssumption, PayloadsAssumption DEF ErrCap
    <2>2. held \in [Goroutine -> 0..NumPayloads]
      BY StagesAssumption, PayloadsAssumption DEF ErrCap
    <2>3. closed \in [Chan -> BOOLEAN]
      BY StagesAssumption, PayloadsAssumption DEF ErrCap
    <2>4. produced \in 0..NumPayloads
      BY StagesAssumption, PayloadsAssumption DEF ErrCap
    <2>5. sunk \in Seq(1..NumPayloads)
      BY StagesAssumption, PayloadsAssumption DEF ErrCap
    <2>6. errCh \in 0..ErrCap
      BY StagesAssumption, PayloadsAssumption DEF ErrCap
    <2>7. mainPc \in {"range", "cancel", "done"}
      BY StagesAssumption, PayloadsAssumption DEF ErrCap
    <2> QED BY <2>1, <2>2, <2>3, <2>4, <2>5, <2>6, <2>7 DEF TypeOK
  <1>2. /\ HoldsWhileBusy /\ MarkedWereProduced /\ Exclusive
    BY WorkerAssumption DEF HoldsWhileBusy, MarkedWereProduced, Exclusive, Goroutine
  <1>3. ClosedAfterFeeders /\ ErrClosedLast
    BY ChanAssumption DEF ClosedAfterFeeders, ErrClosedLast, ErrClosed
  <1>4. /\ ReturnedAfterDrain /\ CancelledForCause /\ FailuresAccounted
        /\ PayloadsAccounted
    BY DEF ReturnedAfterDrain, CancelledForCause, FailuresAccounted,
           PayloadsAccounted
  <1> QED BY <1>1, <1>2, <1>3, <1>4 DEF IInv

\* With errCh closed every goroutine has returned.
LEMMA AllDone ==
  ASSUME IInv, ErrClosed
  PROVE  \A g \in Goroutine : pc[g] = "done"
  <1> TAKE g \in Goroutine
  <1>1. CASE g = Sink
    BY <1>1 DEF IInv, ErrClosedLast
  <1>2. CASE g = Source
    <2>1. OutCh(g) \in 0..NumStages
      BY <1>2, StagesAssumption DEF OutCh
    <2> QED BY <1>2, <2>1 DEF IInv, ErrClosedLast, ClosedAfterFeeders, Sender
  <1>3. CASE g \in Worker
    <2>1. OutCh(g) \in 0..NumStages
      BY <1>3, StagesAssumption, StageOfAssumption, WorkerAssumption DEF OutCh
    <2> QED BY <1>3, <2>1 DEF IInv, ErrClosedLast, ClosedAfterFeeders, Sender
  <1> QED BY <1>1, <1>2, <1>3 DEF Goroutine

\* While it processes or sends, a goroutine holds a payload the source
\* produced.
LEMMA BusyHolds ==
  ASSUME IInv, NEW g \in Goroutine, pc[g] \in {"process", "send"}
  PROVE  /\ held[g] \in 1..produced
         /\ held[g] \in 1..NumPayloads
  BY PayloadsAssumption DEF IInv, TypeOK, HoldsWhileBusy

\* A goroutine's select can give up a payload only after a failure or after
\* the caller's context ended.
LEMMA CtxDoneForCause ==
  ASSUME IInv, NEW g \in Goroutine, CtxDone(g)
  PROVE  failed \/ expired
  <1>1. closerPc # "done"
    BY AllDone DEF CtxDone, ErrClosed
  <1> QED
    BY <1>1 DEF CtxDone, CtxIsDone, IInv, CancelledForCause, FailuresAccounted

\* Emit keeps errCh within its capacity and never leaves it empty.
LEMMA EmitFills ==
  ASSUME TypeOK, Emit
  PROVE  errCh' \in 1..ErrCap
  BY StagesAssumption DEF TypeOK, Emit, ErrCap

\* A step that only moves the goroutine g from a place where it holds nothing
\* to another such place, or that makes it return, keeps the parts of the
\* invariant that speak of payloads, but for their accounting.
LEMMA LeaveKeepsPayloads ==
  ASSUME IInv, NEW g \in Goroutine, Leave(g),
         UNCHANGED <<closed, produced, marked>>
  PROVE  /\ pc' \in [Goroutine -> {"next", "send", "check", "recv", "process", "done"}]
         /\ held' \in [Goroutine -> 0..NumPayloads]
         /\ HoldsWhileBusy'
         /\ MarkedWereProduced'
         /\ Exclusive'
         /\ ClosedAfterFeeders'
  <1> USE DEF IInv, TypeOK, Leave
  <1>1. /\ pc' \in [Goroutine -> {"next", "send", "check", "recv", "process", "done"}]
        /\ held' \in [Goroutine -> 0..NumPayloads]
    BY PayloadsAssumption
  <1>2. HoldsWhileBusy'
    <2> SUFFICES ASSUME NEW h \in Goroutine
                 PROVE  /\ held'[h] # 0 <=> pc'[h] \in {"process", "send"}
                        /\ held'[h] <= produced
      BY DEF HoldsWhileBusy
    <2>1. CASE h = g BY <2>1
    <2>2. CASE h # g BY <2>2 DEF HoldsWhileBusy
    <2> QED BY <2>1, <2>2
  <1>3. MarkedWereProduced' /\ Exclusive'
    BY DEF MarkedWereProduced, Exclusive
  <1>4. ClosedAfterFeeders'
    BY DEF ClosedAfterFeeders, Sender, Goroutine
  <1> QED BY <1>1, <1>2, <1>3, <1>4

\* A goroutine that returns keeps the invariant, if it held nothing or if
\* there is a cause for dropping what it held.
LEMMA LeaveKeepsIInv ==
  ASSUME IInv, NEW g \in Goroutine, Leave(g),
         held[g] = 0 \/ failed \/ expired,
         srcErr' \in BOOLEAN,
         UNCHANGED <<closed, produced, sinkVars, errVars, mainVars, closerPc,
                     ctxVars>>
  PROVE  IInv'
  <1> USE DEF sinkVars, errVars, mainVars, ctxVars, IInv
  <1>1. TypeOK'
    BY LeaveKeepsPayloads DEF TypeOK
  <1>2. HoldsWhileBusy' /\ MarkedWereProduced' /\ Exclusive' /\ ClosedAfterFeeders'
    BY LeaveKeepsPayloads
  <1>3. ErrClosedLast'
    BY WorkerAssumption DEF ErrClosedLast, ErrClosed, Leave, TypeOK, Goroutine
  <1>4. ReturnedAfterDrain' /\ CancelledForCause' /\ FailuresAccounted'
    BY DEF ReturnedAfterDrain, CancelledForCause, FailuresAccounted, ErrClosed
  <1>5. PayloadsAccounted'
    <2>1. CASE held[g] = 0
      <3>1. held' = held
        BY <2>1 DEF Leave, TypeOK
      <3> QED BY <3>1 DEF PayloadsAccounted
    <2>2. CASE failed \/ expired
      BY <2>2 DEF PayloadsAccounted
    <2> QED BY <2>1, <2>2
  <1> QED BY <1>1, <1>2, <1>3, <1>4, <1>5

\* A goroutine whose callback fails, and that reports it and returns, keeps
\* the invariant.
LEMMA FailureKeepsIInv ==
  ASSUME IInv, NEW g \in Goroutine, pc[g] = "process", Leave(g),
         Emit, failed' = TRUE,
         sunk' \in Seq(1..NumPayloads),
         UNCHANGED <<closed, sourceVars, marked, mainVars, closerPc, ctxVars>>
  PROVE  IInv'
  <1> USE DEF sourceVars, mainVars, ctxVars, IInv
  <1>1. errCh' \in 1..ErrCap /\ ErrCap \in Nat
    BY EmitFills, StagesAssumption DEF ErrCap
  <1>2. TypeOK'
    BY <1>1, LeaveKeepsPayloads DEF TypeOK
  <1>3. HoldsWhileBusy' /\ MarkedWereProduced' /\ Exclusive' /\ ClosedAfterFeeders'
    BY LeaveKeepsPayloads
  <1>4. ~ErrClosed
    BY AllDone
  <1>5. ErrClosedLast' /\ ReturnedAfterDrain' /\ CancelledForCause'
    BY <1>4 DEF ErrClosedLast, ReturnedAfterDrain, CancelledForCause, ErrClosed
  <1>6. FailuresAccounted' /\ PayloadsAccounted'
    BY <1>1 DEF FailuresAccounted, PayloadsAccounted
  <1> QED BY <1>2, <1>3, <1>5, <1>6

\* A goroutine that marks its payload as processed and receives again keeps
\* the invariant.
LEMMA FinishKeepsIInv ==
  ASSUME IInv, NEW g \in Goroutine, pc[g] = "process",
         pc'   = [pc EXCEPT ![g] = "recv"],
         held' = [held EXCEPT ![g] = 0],
         marked' = marked \cup {held[g]},
         sunk' \in Seq(1..NumPayloads),
         UNCHANGED <<closed, sourceVars, errVars, mainVars, closerPc, ctxVars>>
  PROVE  IInv'
  <1> USE DEF sourceVars, errVars, mainVars, ctxVars, IInv
  <1>1. held[g] \in 1..produced /\ held[g] \in 1..NumPayloads
    BY BusyHolds
  <1>2. TypeOK'
    <2>1. marked' \subseteq 1..NumPayloads
      BY <1>1 DEF TypeOK
    <2>2. held' \in [Goroutine -> 0..NumPayloads]
      BY PayloadsAssumption DEF TypeOK
    <2>3. pc' \in [Goroutine -> {"next", "send", "check", "recv", "process", "done"}]
      BY DEF TypeOK
    <2> QED BY <2>1, <2>2, <2>3 DEF TypeOK
  <1>3. HoldsWhileBusy'
    <2> SUFFICES ASSUME NEW h \in Goroutine
                 PROVE  /\ held'[h] # 0 <=> pc'[h] \in {"process", "send"}
                        /\ held'[h] <= produced
      BY DEF HoldsWhileBusy
    <2>1. CASE h = g BY <2>1 DEF TypeOK
    <2>2. CASE h # g BY <2>2 DEF HoldsWhileBusy, TypeOK
    <2> QED BY <2>1, <2>2
  <1>4. MarkedWereProduced'
    BY <1>1 DEF MarkedWereProduced
  <1>5. Exclusive'
    <2> SUFFICES ASSUME NEW h \in Goroutine, held'[h] # 0
                 PROVE  /\ held'[h] \notin marked \cup {held[g]}
                        /\ \A k \in Goroutine : held'[k] = held'[h] => k = h
      BY DEF Exclusive
    <2>1. h # g /\ held'[h] = held[h]
      BY DEF TypeOK
    <2> QED BY <2>1, <1>1 DEF Exclusive, TypeOK
  <1>6. ClosedAfterFeeders' /\ ErrClosedLast'
    BY DEF ClosedAfterFeeders, ErrClosedLast, ErrClosed, TypeOK, Sender, Goroutine
  <1>7. ReturnedAfterDrain' /\ CancelledForCause' /\ FailuresAccounted'
    BY DEF ReturnedAfterDrain, CancelledForCause, FailuresAccounted, ErrClosed
  <1>8. PayloadsAccounted'
    BY DEF PayloadsAccounted, TypeOK
  <1> QED BY <1>2, <1>3, <1>4, <1>5, <1>6, <1>7, <1>8

-----------------------------------------------------------------------------
\* Every step keeps the inductive invariant.
LEMMA NextIInv == ASSUME IInv, [Next]_vars PROVE IInv'
  <1> USE StagesAssumption, PayloadsAssumption, WorkerAssumption
      DEF goVars, sourceVars, sinkVars, errVars, mainVars, ctxVars
  <1>t. TypeOK
    BY DEF IInv
  <1>1. ASSUME SourceYields PROVE IInv'
    <2> USE <1>1 DEF SourceYields, IInv
    <2>1. /\ produced \in Nat /\ produced + 1 \in 1..NumPayloads
          /\ produced + 1 \in 0..NumPayloads
      BY DEF TypeOK
    <2>2. TypeOK'
      <3>1. pc' \in [Goroutine -> {"next", "send", "check", "recv", "process", "done"}]
        BY DEF TypeOK
      <3>2. held' \in [Goroutine -> 0..NumPayloads]
        BY <2>1 DEF TypeOK
      <3>3. produced' \in 0..NumPayloads
        BY <2>1
      <3>4. srcErr' \in BOOLEAN
        BY DEF TypeOK
      <3> QED BY <3>1, <3>2, <3>3, <3>4 DEF TypeOK
    <2>3. HoldsWhileBusy'
      <3> SUFFICES ASSUME NEW h \in Goroutine
                   PROVE  /\ held'[h] # 0 <=> pc'[h] \in {"process", "send"}
                          /\ held'[h] <= produced + 1
        BY DEF HoldsWhileBusy
      <3>1. held[h] \in Nat /\ held[h] <= produced
        BY DEF TypeOK, HoldsWhileBusy
      <3>2. CASE h = Source BY <3>2, <2>1 DEF TypeOK, Goroutine
      <3>3. CASE h # Source BY <3>1, <3>3, <2>1 DEF HoldsWhileBusy, TypeOK
      <3> QED BY <3>2, <3>3
    <2>4. MarkedWereProduced' /\ produced + 1 \notin marked
      BY <2>1 DEF MarkedWereProduced
    <2>5. Exclusive'
      <3>1. \A h \in Goroutine : held[h] \in Nat /\ held[h] # produced + 1
        BY <2>1 DEF HoldsWhileBusy, TypeOK
      <3> QED BY <3>1, <2>4 DEF Exclusive, TypeOK, Goroutine
    <2>6. ClosedAfterFeeders' /\ ErrClosedLast'
      BY DEF ClosedAfterFeeders, ErrClosedLast, ErrClosed, TypeOK, Sender, Goroutine
    <2>7. ReturnedAfterDrain' /\ CancelledForCause' /\ FailuresAccounted'
      BY DEF ReturnedAfterDrain, CancelledForCause, FailuresAccounted, ErrClosed
    <2>8. PayloadsAccounted'
      <3> SUFFICES ASSUME ~failed, ~expired, NEW p \in 1..(produced + 1)
                   PROVE  p \in marked \/ \E g \in Goroutine : held'[g] = p
        BY DEF PayloadsAccounted
      <3>1. CASE p = produced + 1
        BY <3>1 DEF TypeOK, Goroutine
      <3>2. CASE p # produced + 1
        <4>1. p \in 1..produced
          BY <3>2, <2>1
        <4>2. held[Source] = 0
          BY DEF HoldsWhileBusy, Goroutine
        <4> QED BY <4>1, <4>2 DEF PayloadsAccounted, TypeOK
      <3> QED BY <3>1, <3>2
    <2> QED BY <2>2, <2>3, <2>4, <2>5, <2>6, <2>7, <2>8
  <1>2. ASSUME SourceEnds PROVE IInv'
    <2> USE <1>2 DEF SourceEnds
    <2>1. Source \in Goroutine /\ held[Source] = 0
      BY DEF IInv, HoldsWhileBusy, Goroutine
    <2> QED BY <2>1, LeaveKeepsIInv DEF IInv, TypeOK
  <1>3. ASSUME SourceCheck PROVE IInv'
    <2> USE <1>3 DEF SourceCheck, IInv
    <2>1. srcErr => errCh' \in 1..ErrCap
      BY EmitFills
    <2>2. TypeOK'
      <3>1. pc' \in [Goroutine -> {"next", "send", "check", "recv", "process", "done"}]
        BY DEF TypeOK
      <3>2. CASE srcErr BY <2>1, <3>1, <3>2 DEF TypeOK, ErrCap
      <3>3. CASE ~srcErr BY <3>1, <3>3 DEF TypeOK
      <3> QED BY <3>2, <3>3
    <2>3. HoldsWhileBusy'
      BY DEF HoldsWhileBusy, TypeOK
    <2>4. MarkedWereProduced' /\ Exclusive'
      BY DEF MarkedWereProduced, Exclusive
    <2>5. ClosedAfterFeeders' /\ ErrClosedLast'
      BY DEF ClosedAfterFeeders, ErrClosedLast, ErrClosed, TypeOK, Sender, Goroutine
    <2>6. mainPc # "done"
      BY AllDone DEF ReturnedAfterDrain, Goroutine
    <2>7. ReturnedAfterDrain' /\ CancelledForCause' /\ FailuresAccounted'
      BY <2>1, <2>6 DEF ReturnedAfterDrain, CancelledForCause, FailuresAccounted, ErrClosed
    <2>8. PayloadsAccounted'
      BY DEF PayloadsAccounted
    <2> QED BY <2>2, <2>3, <2>4, <2>5, <2>7, <2>8
  <1>4. ASSUME SinkConsumes PROVE IInv'
    <2> USE <1>4 DEF SinkConsumes
    <2>1. held[Sink] \in 1..NumPayloads /\ Sink \in Goroutine
      BY BusyHolds DEF Goroutine
    <2>2. sunk' \in Seq(1..NumPayloads)
      BY <2>1 DEF IInv, TypeOK
    <2> QED BY <2>1, <2>2, FinishKeepsIInv
  <1>5. ASSUME SinkFails PROVE IInv'
    <2> USE <1>5 DEF SinkFails
    <2>1. held[Sink] \in 1..NumPayloads /\ Sink \in Goroutine
      BY BusyHolds DEF Goroutine
    <2>2. sunk' \in Seq(1..NumPayloads)
      BY <2>1 DEF IInv, TypeOK
    <2> QED BY <2>1, <2>2, FailureKeepsIInv
  <1>6. ASSUME NEW g \in Goroutine, CtxDone(g) PROVE IInv'
    <2>1. failed \/ expired
      BY <1>6, CtxDoneForCause
    <2> QED BY <1>6, <2>1, LeaveKeepsIInv DEF CtxDone, IInv, TypeOK
  <1>7. ASSUME NEW g \in Goroutine, NEW c, InputClosed(g, c) PROVE IInv'
    <2>1. held[g] = 0
      BY <1>7 DEF InputClosed, IInv, HoldsWhileBusy
    <2> QED BY <1>7, <2>1, LeaveKeepsIInv DEF InputClosed, IInv, TypeOK
  <1>8. ASSUME NEW w \in Worker, FifoFails(w) PROVE IInv'
    BY <1>8, FailureKeepsIInv DEF FifoFails, IInv, TypeOK, Goroutine
  <1>9. ASSUME NEW w \in Worker, FifoDrops(w) PROVE IInv'
    BY <1>9, FinishKeepsIInv DEF FifoDrops, IInv, TypeOK, Goroutine
  <1>10. ASSUME NEW w \in Worker, FifoForwards(w) PROVE IInv'
    <2> USE <1>10 DEF FifoForwards, IInv
    <2>1. TypeOK'
      BY DEF TypeOK
    <2>2. HoldsWhileBusy'
      BY DEF HoldsWhileBusy, TypeOK
    <2>3. MarkedWereProduced' /\ Exclusive' /\ PayloadsAccounted'
      BY DEF MarkedWereProduced, Exclusive, PayloadsAccounted
    <2>4. ClosedAfterFeeders' /\ ErrClosedLast'
      BY DEF ClosedAfterFeeders, ErrClosedLast, ErrClosed, TypeOK, Sender, Goroutine
    <2>5. ReturnedAfterDrain' /\ CancelledForCause' /\ FailuresAccounted'
      BY DEF ReturnedAfterDrain, CancelledForCause, FailuresAccounted, ErrClosed
    <2> QED BY <2>1, <2>2, <2>3, <2>4, <2>5
  <1>11. ASSUME NEW s \in Sender, NEW r \in Receiver, Handoff(s, r) PROVE IInv'
    <2> USE <1>11 DEF Handoff, Transfer, IInv
    <2>1. /\ s \in Goroutine /\ r \in Goroutine /\ r # s
          /\ held[s] \in 1..NumPayloads /\ held[s] \in 1..produced
          /\ held[r] = 0
      BY BusyHolds DEF Sender, Receiver, Goroutine, HoldsWhileBusy
    <2>2. TypeOK'
      <3>1. held' \in [Goroutine -> 0..NumPayloads]
        BY <2>1 DEF TypeOK
      <3>2. pc' \in [Goroutine -> {"next", "send", "check", "recv", "process", "done"}]
        BY DEF TypeOK
      <3> QED BY <3>1, <3>2 DEF TypeOK
    <2>3. HoldsWhileBusy'
      <3> SUFFICES ASSUME NEW h \in Goroutine
                   PROVE  /\ held'[h] # 0 <=> pc'[h] \in {"process", "send"}
                          /\ held'[h] <= produced
        BY DEF HoldsWhileBusy
      <3>1. CASE h = s BY <3>1, <2>1 DEF TypeOK
      <3>2. CASE h = r BY <3>2, <2>1 DEF TypeOK
      <3>3. CASE h # s /\ h # r BY <3>3 DEF HoldsWhileBusy, TypeOK
      <3> QED BY <3>1, <3>2, <3>3
    <2>4. /\ \A h \in Goroutine : h # s /\ h # r => held'[h] = held[h]
          /\ held'[s] = 0 /\ held'[r] = held[s]
      BY <2>1 DEF TypeOK
    <2>5. Exclusive'
      <3> SUFFICES ASSUME NEW h \in Goroutine, held'[h] # 0
                   PROVE  /\ held'[h] \notin marked
                          /\ \A k \in Goroutine : held'[k] = held'[h] => k = h
        BY DEF Exclusive
      <3>1. CASE h = r BY <3>1, <2>1, <2>4 DEF Exclusive
      <3>2. CASE h # r BY <3>2, <2>1, <2>4 DEF Exclusive
      <3> QED BY <3>1, <3>2
    <2>6. ClosedAfterFeeders' /\ ErrClosedLast'
      <3>1. \A g \in Goroutine : pc[g] = "done" => pc'[g] = "done"
        BY DEF TypeOK
      <3> QED BY <3>1 DEF ClosedAfterFeeders, ErrClosedLast, ErrClosed, Sender, Goroutine
    <2>7. ReturnedAfterDrain' /\ CancelledForCause' /\ FailuresAccounted'
      BY DEF ReturnedAfterDrain, CancelledForCause, FailuresAccounted, ErrClosed
    <2>8. PayloadsAccounted'
      <3> SUFFICES ASSUME ~failed, ~expired, NEW p \in 1..produced, p \notin marked
                   PROVE  \E g \in Goroutine : held'[g] = p
        BY DEF PayloadsAccounted
      <3>1. PICK g \in Goroutine : held[g] = p
        BY DEF PayloadsAccounted
      <3>2. CASE g = s BY <3>1, <3>2, <2>1, <2>4
      <3>3. CASE g # s BY <3>1, <3>3, <2>1, <2>4
      <3> QED BY <3>2, <3>3
    <2>9. MarkedWereProduced'
      BY DEF MarkedWereProduced
    <2> QED BY <2>2, <2>3, <2>5, <2>6, <2>7, <2>8, <2>9
  <1>12. ASSUME NEW c \in 0..NumStages, CloseOutput(c, Finished(c)) PROVE IInv'
    <2> USE <1>12, ChanAssumption DEF CloseOutput, IInv
    <2>1. TypeOK'
      BY DEF TypeOK
    <2>2. ClosedAfterFeeders' /\ ErrClosedLast'
      BY DEF ClosedAfterFeeders, ErrClosedLast, ErrClosed, TypeOK, Finished, Feeders
    <2>3. HoldsWhileBusy' /\ MarkedWereProduced' /\ Exclusive' /\ PayloadsAccounted'
      BY DEF HoldsWhileBusy, MarkedWereProduced, Exclusive, PayloadsAccounted
    <2>4. ReturnedAfterDrain' /\ CancelledForCause' /\ FailuresAccounted'
      BY DEF ReturnedAfterDrain, CancelledForCause, FailuresAccounted, ErrClosed
    <2> QED BY <2>1, <2>2, <2>3, <2>4
  <1>13. ASSUME CloserStep \/ MainStep \/ Expire PROVE IInv'
    <2> USE <1>13 DEF CloserStep, CloseErrs, CloserCancels, MainStep, CollectError,
                     CancelOnError, Return, Expire, IInv
    <2>1. TypeOK'
      <3>1. errCh' \in 0..ErrCap
        BY DEF TypeOK, ErrCap
      <3> QED BY <3>1 DEF TypeOK
    <2>2. HoldsWhileBusy' /\ MarkedWereProduced' /\ Exclusive'
      BY DEF HoldsWhileBusy, MarkedWereProduced, Exclusive
    <2>3. ClosedAfterFeeders' /\ ErrClosedLast'
      BY DEF ClosedAfterFeeders, ErrClosedLast, ErrClosed
    <2>4. ReturnedAfterDrain' /\ CancelledForCause'
      BY DEF ReturnedAfterDrain, CancelledForCause, ErrClosed
    <2>5. FailuresAccounted'
      BY DEF FailuresAccounted, TypeOK, ErrCap
    <2>6. PayloadsAccounted'
      BY DEF PayloadsAccounted
    <2> QED BY <2>1, <2>2, <2>3, <2>4, <2>5, <2>6
  <1>14. ASSUME UNCHANGED vars PROVE IInv'
    BY <1>14 DEF vars, IInv, TypeOK, HoldsWhileBusy, MarkedWereProduced, Exclusive,
      ClosedAfterFeeders, ErrClosedLast, ErrClosed, ReturnedAfterDrain,
      CancelledForCause, FailuresAccounted, PayloadsAccounted
  <1> QED
    BY <1>1, <1>2, <1>3, <1>4, <1>5, <1>6, <1>7, <1>8, <1>9, <1>10, <1>11, <1>12,
       <1>13, <1>14
    DEF Next, SourceStep, SinkStep, FifoStep, Process, Terminated, Goroutine

\* The inductive invariant holds in every reachable state of a pipeline of
\* any shape.
THEOREM Invariance == Spec => []IInv
  BY InitIInv, NextIInv, PTL DEF Spec

-----------------------------------------------------------------------------
(***************************************************************************)
(* The safety properties that TLC checks, for every instance.              *)
(***************************************************************************)

\* Every variable keeps its type.
THEOREM TypeCorrect == Spec => []TypeOK
  <1>1. IInv => TypeOK
    BY DEF IInv
  <1> QED BY Invariance, <1>1, PTL

\* No payload is ever in two hands, nor in any hand once marked as processed.
THEOREM PayloadsAreExclusive == Spec => []Exclusive
  <1>1. IInv => Exclusive
    BY DEF IInv
  <1> QED BY Invariance, <1>1, PTL

\* No goroutine ever sends on a closed channel (which would panic).
THEOREM ChannelsAreDisciplined == Spec => []ChannelDiscipline
  <1>1. ASSUME IInv PROVE ChannelDiscipline
    <2>1. \A g \in Sender : OutCh(g) \in 0..NumStages
      BY StagesAssumption, StageOfAssumption, WorkerAssumption DEF Sender, OutCh
    <2>2. ASSUME NEW g \in Sender, pc[g] = "send" PROVE ~closed[OutCh(g)]
      BY <1>1, <2>1, <2>2 DEF IInv, ClosedAfterFeeders
    <2>3. ErrClosed => \A g \in Goroutine : pc[g] \notin {"process", "check"}
      BY <1>1, AllDone
    <2> QED BY <2>2, <2>3 DEF ChannelDiscipline
  <1> QED BY Invariance, <1>1, PTL

\* When Process returns no goroutine it started is left behind.
THEOREM NothingLeaks == Spec => []NoGoroutineLeaks
  <1>1. IInv => NoGoroutineLeaks
    BY AllDone DEF IInv, ReturnedAfterDrain, NoGoroutineLeaks
  <1> QED BY Invariance, <1>1, PTL

\* Process reports an error exactly if something failed.
THEOREM ErrorsAreReported == Spec => []ErrorsReported
  <1>1. IInv => ErrorsReported
    BY DEF IInv, TypeOK, ReturnedAfterDrain, FailuresAccounted, ErrorsReported
  <1> QED BY Invariance, <1>1, PTL

\* A run of Process that reports no error, and whose context did not end, has
\* marked every payload the source produced as processed.
THEOREM NoPayloadIsLost == Spec => []NothingLost
  <1>1. ASSUME IInv PROVE NothingLost
    <2> SUFFICES ASSUME mainPc = "done", ~err, ~expired PROVE marked = 1..produced
      BY DEF NothingLost
    <2>1. ~failed
      BY <1>1 DEF IInv, TypeOK, ReturnedAfterDrain, FailuresAccounted
    <2>2. \A g \in Goroutine : held[g] = 0
      BY <1>1, AllDone DEF IInv, ReturnedAfterDrain, HoldsWhileBusy
    <2>3. \A p \in 1..produced : p \in marked
      BY <1>1, <2>1, <2>2 DEF IInv, TypeOK, PayloadsAccounted
    <2> QED BY <1>1, <2>3 DEF IInv, MarkedWereProduced
  <1> QED BY Invariance, <1>1, PTL

-----------------------------------------------------------------------------
(***************************************************************************)
(* Process implements its contract.                                        *)
(***************************************************************************)

\* A goroutine that lets go of its payload takes it, and no other, out of
\* flight.
LEMMA DropFromFlight ==
  ASSUME IInv, NEW g \in Goroutine, held[g] # 0,
         held' = [held EXCEPT ![g] = 0]
  PROVE  held[g] \in InFlight /\ InFlight' = InFlight \ {held[g]}
  <1>1. \A h \in Goroutine : held'[h] = IF h = g THEN 0 ELSE held[h]
    BY DEF IInv, TypeOK
  <1>2. \A h \in Goroutine : held[h] = held[g] => h = g
    BY DEF IInv, Exclusive
  <1> QED BY <1>1, <1>2 DEF InFlight

\* The initial states are those of the contract.
LEMMA InitMaps == Init => Contract!Init
  BY DEF Init, CoreInit, Contract!Init, InFlight, Status, Goroutine

\* Every step is a step of the contract or leaves what it shows unchanged.
LEMMA NextMaps ==
  ASSUME IInv, IInv', [Next]_vars
  PROVE  [Contract!Next]_(Contract!vars)
  <1> USE DEF Contract!vars, goVars, sourceVars, sinkVars, errVars, mainVars, ctxVars
  <1>s. Status = "running" <=> mainPc # "done"
    BY DEF Status
  <1>l. ASSUME NEW g \in Goroutine, Leave(g), failed \/ expired \/ held[g] = 0,
               UNCHANGED <<produced, marked, failed, expired, mainPc, err>>
        PROVE  [Contract!Next]_(Contract!vars)
    <2>1. CASE held[g] = 0
      <3>1. held' = held
        BY <1>l, <2>1 DEF Leave, IInv, TypeOK
      <3> QED BY <1>l, <3>1 DEF InFlight, Status
    <2>2. CASE held[g] # 0
      <3>1. held[g] \in InFlight /\ InFlight' = InFlight \ {held[g]}
        BY <1>l, <2>2, DropFromFlight DEF Leave
      <3>2. Contract!GiveUp(held[g])
        BY <1>l, <2>2, <3>1 DEF Contract!GiveUp, Status
      <3> QED BY <3>1, <3>2 DEF Contract!Next
    <2> QED BY <2>1, <2>2
  <1>f. ASSUME NEW g \in Goroutine, pc[g] = "process", Leave(g), failed' = TRUE,
               UNCHANGED <<produced, marked, expired, mainPc, err>>
        PROVE  [Contract!Next]_(Contract!vars)
    <2>1. held[g] # 0
      BY <1>f DEF IInv, HoldsWhileBusy
    <2>2. held[g] \in InFlight /\ InFlight' = InFlight \ {held[g]}
      BY <1>f, <2>1, DropFromFlight DEF Leave
    <2>3. Contract!FailOn(held[g])
      BY <1>f, <2>2 DEF Contract!FailOn, Status
    <2> QED BY <2>2, <2>3 DEF Contract!Next
  <1>c. ASSUME NEW g \in Goroutine, pc[g] = "process",
               held' = [held EXCEPT ![g] = 0], marked' = marked \cup {held[g]},
               UNCHANGED <<produced, failed, expired, mainPc, err>>
        PROVE  [Contract!Next]_(Contract!vars)
    <2>1. held[g] # 0
      BY <1>c DEF IInv, HoldsWhileBusy
    <2>2. held[g] \in InFlight /\ InFlight' = InFlight \ {held[g]}
      BY <1>c, <2>1, DropFromFlight
    <2>3. Contract!Complete(held[g])
      BY <1>c, <2>2 DEF Contract!Complete, Status
    <2> QED BY <2>2, <2>3 DEF Contract!Next
  <1>1. ASSUME SourceYields PROVE [Contract!Next]_(Contract!vars)
    <2>1. mainPc # "done"
      BY <1>1, AllDone DEF SourceYields, IInv, ReturnedAfterDrain, Goroutine
    <2>2. InFlight' = InFlight \cup {produced + 1}
      <3>1. Source \in Goroutine /\ held[Source] = 0
        BY <1>1 DEF SourceYields, IInv, HoldsWhileBusy, Goroutine
      <3>2. \A h \in Goroutine :
              held'[h] = IF h = Source THEN produced + 1 ELSE held[h]
        BY <1>1 DEF SourceYields, IInv, TypeOK
      <3>3. produced + 1 # 0
        BY PayloadsAssumption DEF IInv, TypeOK
      <3> QED BY <3>1, <3>2, <3>3 DEF InFlight
    <2>3. Contract!Accept
      BY <1>1, <2>1, <2>2, <1>s DEF SourceYields, Contract!Accept, Status
    <2> QED BY <2>3 DEF Contract!Next
  <1>2. ASSUME SourceEnds PROVE [Contract!Next]_(Contract!vars)
    <2>1. Source \in Goroutine /\ held[Source] = 0
      BY <1>2 DEF SourceEnds, IInv, HoldsWhileBusy, Goroutine
    <2> QED BY <1>2, <2>1, <1>l DEF SourceEnds
  <1>3. ASSUME SourceCheck PROVE [Contract!Next]_(Contract!vars)
    <2>1. mainPc # "done"
      BY <1>3, AllDone DEF SourceCheck, IInv, ReturnedAfterDrain, Goroutine
    <2>2. CASE srcErr
      <3>1. Contract!FailSource
        BY <1>3, <2>1, <2>2 DEF SourceCheck, Contract!FailSource, Status, InFlight
      <3> QED BY <3>1 DEF Contract!Next
    <2>3. CASE ~srcErr
      BY <1>3, <2>3 DEF SourceCheck, Status, InFlight
    <2> QED BY <2>2, <2>3
  <1>4. ASSUME NEW g \in Goroutine, CtxDone(g) PROVE [Contract!Next]_(Contract!vars)
    <2>1. failed \/ expired
      BY <1>4, CtxDoneForCause
    <2> QED BY <1>4, <2>1, <1>l DEF CtxDone
  <1>5. ASSUME NEW g \in Goroutine, NEW c, InputClosed(g, c)
        PROVE  [Contract!Next]_(Contract!vars)
    <2>1. held[g] = 0
      BY <1>5 DEF InputClosed, IInv, HoldsWhileBusy
    <2> QED BY <1>5, <2>1, <1>l DEF InputClosed
  <1>6. ASSUME SinkConsumes PROVE [Contract!Next]_(Contract!vars)
    BY <1>6, <1>c DEF SinkConsumes, Goroutine
  <1>7. ASSUME SinkFails PROVE [Contract!Next]_(Contract!vars)
    BY <1>7, <1>f DEF SinkFails, Goroutine
  <1>8. ASSUME NEW w \in Worker, Process(w) PROVE [Contract!Next]_(Contract!vars)
    <2>1. w \in Goroutine
      BY DEF Goroutine
    <2>2. CASE FifoFails(w) BY <2>1, <2>2, <1>f DEF FifoFails
    <2>3. CASE FifoDrops(w) BY <2>1, <2>3, <1>c DEF FifoDrops
    <2>4. CASE FifoForwards(w) BY <2>4 DEF FifoForwards, InFlight, Status
    <2> QED BY <1>8, <2>2, <2>3, <2>4 DEF Process
  <1>9. ASSUME NEW s \in Sender, NEW r \in Receiver, Handoff(s, r)
        PROVE  [Contract!Next]_(Contract!vars)
    <2>1. s \in Goroutine /\ r \in Goroutine /\ r # s /\ held[r] = 0
      BY <1>9 DEF Sender, Receiver, Goroutine, Handoff, Transfer, IInv, HoldsWhileBusy
    <2>2. \A h \in Goroutine : held'[h] = IF h = s THEN 0
                                          ELSE IF h = r THEN held[s] ELSE held[h]
      BY <1>9, <2>1 DEF Handoff, Transfer, IInv, TypeOK
    <2>3. InFlight' = InFlight
      <3>1. InFlight' \subseteq InFlight
        BY <2>1, <2>2 DEF InFlight
      <3>2. InFlight \subseteq InFlight'
        <4> SUFFICES ASSUME NEW h \in Goroutine, held[h] # 0 PROVE held[h] \in InFlight'
          BY DEF InFlight
        <4>1. CASE h = s BY <4>1, <2>1, <2>2 DEF InFlight
        <4>2. CASE h # s BY <4>2, <2>1, <2>2 DEF InFlight
        <4> QED BY <4>1, <4>2
      <3> QED BY <3>1, <3>2
    <2> QED BY <1>9, <2>3 DEF Handoff, Transfer, Status
  <1>10. ASSUME NEW c \in 0..NumStages, CloseOutput(c, Finished(c))
         PROVE  [Contract!Next]_(Contract!vars)
    BY <1>10 DEF CloseOutput, InFlight, Status
  <1>11. ASSUME CloserStep PROVE [Contract!Next]_(Contract!vars)
    BY <1>11 DEF CloserStep, CloseErrs, CloserCancels, InFlight, Status
  <1>12. ASSUME CollectError \/ CancelOnError PROVE [Contract!Next]_(Contract!vars)
    BY <1>12 DEF CollectError, CancelOnError, InFlight, Status
  <1>13. ASSUME Return PROVE [Contract!Next]_(Contract!vars)
    <2>1. \A g \in Goroutine : held[g] = 0
      BY <1>13, AllDone DEF Return, IInv, HoldsWhileBusy
    <2>2. err <=> failed
      BY <1>13 DEF Return, IInv, TypeOK, FailuresAccounted
    <2>3. Contract!Return
      BY <1>13, <2>1, <2>2 DEF Return, Contract!Return, InFlight, Status
    <2> QED BY <2>3 DEF Contract!Next
  <1>14. ASSUME Expire PROVE [Contract!Next]_(Contract!vars)
    <2>1. Contract!TimeOut
      BY <1>14 DEF Expire, Contract!TimeOut, InFlight, Status
    <2> QED BY <2>1 DEF Contract!Next
  <1>15. ASSUME UNCHANGED vars PROVE [Contract!Next]_(Contract!vars)
    BY <1>15 DEF vars, InFlight, Status
  <1> QED
    BY <1>1, <1>2, <1>3, <1>4, <1>5, <1>6, <1>7, <1>8, <1>9, <1>10, <1>11, <1>12,
       <1>13, <1>14, <1>15
    DEF Next, SourceStep, SinkStep, FifoStep, MainStep, Terminated, Goroutine

\* Pipelines of every shape implement the contract of Process.
THEOREM Refinement == Spec => ImplementsContract
  BY InitMaps, NextMaps, Invariance, PTL DEF Spec, ImplementsContract, Contract!Spec
=============================================================================
