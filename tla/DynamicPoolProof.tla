-------------------------- MODULE DynamicPoolProof --------------------------
(***************************************************************************)
(* Proofs about DynamicPool, for any number of tokens and payloads.        *)
(***************************************************************************)
EXTENDS DynamicPool, TLAPS

(***************************************************************************)
(* The inductive invariant.                                                *)
(***************************************************************************)

\* Where each kind of goroutine can be.
Places ==
  /\ pc[Source] \in {"next", "send", "check", "done"}
  /\ pc[Sink] \in {"recv", "process", "done"}
  /\ pc[Lead] \in {"recv", "token", "done"}
  /\ \A w \in Slot : pc[w] \in {"idle", "process", "send"}
  /\ mainPc \in {"range", "cancel", "done"}
  /\ closerPc \in {"wait", "cancel", "done"}

Carrying == {"process", "send", "token"}

\* A goroutine holds a payload exactly while it processes or sends one or
\* waits for a token for it, and only one the source has produced.
HoldsWhileBusy ==
  \A g \in Goroutine :
    /\ held[g] # 0 <=> pc[g] \in Carrying
    /\ held[g] <= produced

MarkedWereProduced == marked \subseteq 1..produced

\* A channel is closed only after the goroutine Process waits for returned;
\* the goroutines that write stageCh[1] are not among those.
ClosedAfterReturn ==
  /\ closed[0] => pc[Source] = "done"
  /\ closed[1] => pc[Lead] = "done"

\* errCh is closed only after the source, Run and the sink returned.
ErrClosedLast ==
  ErrClosed => pc[Sink] = "done" /\ closed[0] /\ closed[1]

ReturnedAfterDrain == mainPc = "done" => ErrClosed /\ errCh = 0

\* The context is cancelled because of an error or at the very end.
CancelledForCause ==
  /\ cancelled => err \/ closerPc = "done"
  /\ mainPc = "cancel" => err

\* A failure is either in errCh or already in err.
FailuresAccounted == failed <=> err \/ errCh > 0

Accounts == ReturnedAfterDrain /\ CancelledForCause /\ FailuresAccounted

IInv ==
  /\ TypeOK
  /\ Places
  /\ HoldsWhileBusy
  /\ MarkedWereProduced
  /\ Exclusive
  /\ ClosedAfterReturn
  /\ ErrClosedLast
  /\ Accounts
  /\ LostOnlyAtShutdown

-----------------------------------------------------------------------------
(* Lemmas about the steps the actions are made of.                         *)

\* The goroutines are different ones.
LEMMA Roles ==
  /\ Source \in Goroutine /\ Sink \in Goroutine /\ Lead \in Goroutine
  /\ Slot \subseteq Goroutine /\ Lead \notin Slot
  /\ \A w \in Slot : w # Source /\ w # Sink /\ w # Lead
  /\ Source # Sink /\ Source # Lead /\ Sink # Lead
  /\ 0 \in Chan /\ 1 \in Chan /\ 0..NumStages = {0, 1}
  <1>1. 0..1 = {0, 1}
    OBVIOUS
  <1> QED
    BY <1>1, WorkerAssumption, LeadAssumption, ChanAssumption DEF Goroutine, Slot

\* Emit keeps errCh within its capacity and never leaves it empty.
LEMMA EmitFills ==
  ASSUME TypeOK, Emit
  PROVE  errCh' \in 0..ErrCap /\ errCh' > 0
  BY StagesAssumption DEF TypeOK, Emit, ErrCap

\* A payload that passes from one goroutine to another stays in one hand.
LEMMA HandOver ==
  ASSUME IInv, NEW s \in Goroutine, NEW r \in Goroutine, s # r,
         pc[s] \in Carrying, pc[r] \notin Carrying,
         pc'[s] \notin Carrying, pc'[r] \in Carrying,
         \A g \in Goroutine \ {s, r} : pc'[g] = pc[g] /\ held'[g] = held[g],
         held'[s] = 0, held'[r] = held[s],
         UNCHANGED <<produced, marked>>
  PROVE  /\ HoldsWhileBusy' /\ MarkedWereProduced'
         /\ \A g \in Goroutine : held'[g] # 0 =>
              /\ held'[g] \notin marked'
              /\ \A h \in Goroutine : held'[h] = held'[g] => h = g
         /\ \A p : (\E g \in Goroutine : held[g] = p) /\ p # 0 =>
                     \E g \in Goroutine : held'[g] = p
  <1> USE DEF IInv
  <1>1. HoldsWhileBusy' /\ MarkedWereProduced'
    BY DEF HoldsWhileBusy, MarkedWereProduced
  <1>2. held[s] # 0 /\ held[r] = 0
    BY DEF HoldsWhileBusy
  <1>3. ASSUME NEW g \in Goroutine, held'[g] # 0
        PROVE  /\ held'[g] \notin marked'
               /\ \A h \in Goroutine : held'[h] = held'[g] => h = g
    BY <1>2, <1>3 DEF Exclusive
  <1>4. \A p : (\E g \in Goroutine : held[g] = p) /\ p # 0 =>
                 \E g \in Goroutine : held'[g] = p
    BY <1>2
  <1> QED BY <1>1, <1>3, <1>4

\* A payload that a goroutine lets go of, marked or not, is in no hand.
LEMMA PutDown ==
  ASSUME IInv, NEW g \in Goroutine, pc'[g] \notin Carrying,
         \A h \in Goroutine \ {g} : pc'[h] = pc[h] /\ held'[h] = held[h],
         held'[g] = 0,
         \/ marked' = marked
         \/ marked' = marked \cup {held[g]} /\ pc[g] \in Carrying,
         UNCHANGED produced
  PROVE  /\ HoldsWhileBusy' /\ MarkedWereProduced'
         /\ marked' \subseteq 1..NumPayloads
         /\ \A h \in Goroutine : held'[h] # 0 =>
              /\ held'[h] \notin marked'
              /\ \A k \in Goroutine : held'[k] = held'[h] => k = h
         /\ marked' = marked \cup {held[g]} \/ held[g] = 0 =>
              \A p : p # 0 /\ (p \in marked \/ \E h \in Goroutine : held[h] = p) =>
                       p \in marked' \/ \E h \in Goroutine : held'[h] = p
  <1> USE DEF IInv
  <1>1. pc[g] \in Carrying => held[g] \in 1..produced /\ held[g] \in 1..NumPayloads
    BY PayloadsAssumption DEF TypeOK, HoldsWhileBusy
  <1>2. produced \in Nat
    BY PayloadsAssumption DEF TypeOK
  <1>3. HoldsWhileBusy'
    BY <1>2 DEF HoldsWhileBusy
  <1>4. MarkedWereProduced' /\ marked' \subseteq 1..NumPayloads
    BY <1>1 DEF MarkedWereProduced, TypeOK
  <1>5. ASSUME NEW h \in Goroutine, held'[h] # 0
        PROVE  /\ held'[h] \notin marked'
               /\ \A k \in Goroutine : held'[k] = held'[h] => k = h
    <2>1. h # g /\ held'[h] = held[h] /\ held[h] \notin marked /\ held[h] # held[g]
      BY <1>5 DEF Exclusive
    <2>2. held'[h] \notin marked'
      BY <2>1
    <2>3. ASSUME NEW k \in Goroutine, held'[k] = held'[h] PROVE k = h
      BY <1>5, <2>1, <2>3 DEF Exclusive
    <2> QED BY <2>2, <2>3
  <1>6. ASSUME marked' = marked \cup {held[g]} \/ held[g] = 0, NEW p, p # 0,
               p \in marked \/ \E h \in Goroutine : held[h] = p
        PROVE  p \in marked' \/ \E h \in Goroutine : held'[h] = p
    BY <1>6
  <1> QED BY <1>3, <1>4, <1>5, <1>6

\* Once errCh is closed, everything but the goroutines of the pool returned.
LEMMA AllButSlotsDone ==
  ASSUME IInv, ErrClosed
  PROVE  pc[Source] = "done" /\ pc[Sink] = "done" /\ pc[Lead] = "done"
  BY DEF IInv, ErrClosedLast, ClosedAfterReturn

\* Until the closer cancels it, the context is done only after a failure or
\* when the caller's context ended.
LEMMA CtxDoneForCause ==
  ASSUME IInv, CtxIsDone
  PROVE  failed \/ expired \/ closerPc = "done"
  BY DEF IInv, CtxIsDone, Accounts, CancelledForCause, FailuresAccounted

-----------------------------------------------------------------------------
(* The invariant holds initially, and every action keeps it.               *)

\* At the start every token is in the pool and nothing was produced.
LEMMA InitIInv == Init => IInv
  <1> SUFFICES ASSUME Init PROVE IInv OBVIOUS
  <1> USE DEF Init, CoreInit
  <1>1. TypeOK
    <2>1. /\ pc \in [Goroutine -> {"next", "send", "check", "recv", "token", "idle",
                                  "process", "done"}]
          /\ closed \in [Chan -> BOOLEAN] /\ crashed \in BOOLEAN
      OBVIOUS
    <2>2. held \in [Goroutine -> 0..NumPayloads] /\ produced \in 0..NumPayloads
      BY PayloadsAssumption
    <2>3. marked \subseteq 1..NumPayloads /\ errCh \in 0..ErrCap
      BY StagesAssumption DEF ErrCap
    <2> QED BY <2>1, <2>2, <2>3 DEF TypeOK
  <1>2. Places /\ HoldsWhileBusy /\ MarkedWereProduced
    BY Roles DEF Places, HoldsWhileBusy, MarkedWereProduced, Carrying, Goroutine
  <1>3. Exclusive /\ ClosedAfterReturn /\ ErrClosedLast
    BY <1>1, Roles DEF Exclusive, ClosedAfterReturn, ErrClosedLast, ErrClosed
  <1>4. Accounts /\ LostOnlyAtShutdown
    BY DEF Accounts, ReturnedAfterDrain, CancelledForCause, FailuresAccounted,
           LostOnlyAtShutdown
  <1> QED BY <1>1, <1>2, <1>3, <1>4 DEF IInv

\* The source hands out a payload nobody has seen.
LEMMA SourceYieldsKeepsIInv ==
  ASSUME IInv, SourceYields, UNCHANGED crashed
  PROVE  IInv'
  <1> USE DEF IInv, SourceYields, sinkVars, errVars, mainVars, ctxVars
  <1>1. TypeOK' /\ produced' = produced + 1 /\ produced \in Nat
    <2>1. produced \in Nat /\ produced + 1 \in 0..NumPayloads
      BY PayloadsAssumption DEF TypeOK
    <2>2. held' \in [Goroutine -> 0..NumPayloads]
      BY <2>1 DEF TypeOK
    <2>3. pc' \in [Goroutine -> {"next", "send", "check", "recv", "token", "idle",
                                "process", "done"}]
      BY DEF TypeOK
    <2> QED BY <2>1, <2>2, <2>3 DEF TypeOK
  <1>2. /\ pc'[Source] = "send" /\ held'[Source] = produced + 1
        /\ pc[Source] = "next" /\ held[Source] = 0
        /\ \A g \in Goroutine \ {Source} : pc'[g] = pc[g] /\ held'[g] = held[g]
    BY Roles DEF TypeOK, HoldsWhileBusy, Carrying
  <1>3. \A g \in Goroutine : held[g] \in Nat /\ held[g] <= produced
    BY PayloadsAssumption DEF TypeOK, HoldsWhileBusy
  <1>4. Places'
    BY <1>2, Roles DEF Places
  <1>5. HoldsWhileBusy' /\ MarkedWereProduced'
    BY <1>1, <1>2, <1>3 DEF HoldsWhileBusy, MarkedWereProduced, Carrying
  <1>6. Exclusive'
    BY <1>1, <1>2, <1>3 DEF Exclusive, MarkedWereProduced
  <1>7. ClosedAfterReturn' /\ ErrClosedLast' /\ Accounts'
    BY <1>2, Roles
    DEF ClosedAfterReturn, ErrClosedLast, ErrClosed, Accounts, ReturnedAfterDrain,
        CancelledForCause, FailuresAccounted
  <1>8. LostOnlyAtShutdown'
    BY <1>1, <1>2, Roles DEF LostOnlyAtShutdown
  <1> QED BY <1>1, <1>4, <1>5, <1>6, <1>7, <1>8

\* A payload passes on: from the source to Run, from Run to a goroutine of the
\* pool, or from there to the sink.
LEMMA HandOverKeepsIInv ==
  ASSUME IInv, UNCHANGED crashed,
         LeadReceives \/ (\E w \in Slot : TakeToken(w) \/ SlotDelivers(w))
  PROVE  IInv'
  <1> USE DEF IInv
  <1>1. PICK s \in Goroutine, r \in Goroutine :
          /\ s # r /\ pc[s] \in Carrying /\ pc[r] \notin Carrying
          /\ pc'[s] \notin Carrying /\ pc'[r] \in Carrying
          /\ \A g \in Goroutine \ {s, r} : pc'[g] = pc[g] /\ held'[g] = held[g]
          /\ held'[s] = 0 /\ held'[r] = held[s]
          /\ pc[s] # "done" /\ pc[r] # "done"
    BY Roles DEF LeadReceives, TakeToken, SlotDelivers, Transfer, Carrying, TypeOK
  <1>2. /\ UNCHANGED <<closed, produced, marked, errCh, failed, err, mainPc,
                       closerPc, cancelled, expired>>
        /\ held' \in [Goroutine -> 0..NumPayloads]
        /\ pc' \in [Goroutine -> {"next", "send", "check", "recv", "token", "idle",
                                  "process", "done"}]
    <2>1. UNCHANGED <<closed, produced, marked, errCh, failed, err, mainPc,
                      closerPc, cancelled, expired>>
      BY DEF LeadReceives, TakeToken, SlotDelivers, Transfer, sourceVars, sinkVars,
             errVars, mainVars, ctxVars
    <2>2. held' \in [Goroutine -> 0..NumPayloads]
      <3>1. \A g \in Goroutine : held[g] \in 0..NumPayloads /\ 0 \in 0..NumPayloads
        BY PayloadsAssumption DEF TypeOK
      <3> QED BY <3>1, Roles DEF LeadReceives, TakeToken, SlotDelivers, Transfer, TypeOK
    <2>3. pc' \in [Goroutine -> {"next", "send", "check", "recv", "token", "idle",
                                "process", "done"}]
      BY Roles DEF LeadReceives, TakeToken, SlotDelivers, Transfer, TypeOK
    <2> QED BY <2>1, <2>2, <2>3
  <1>3. TypeOK'
    BY <1>2 DEF TypeOK
  <1>4. Places'
    BY <1>2, Roles DEF Places, LeadReceives, TakeToken, SlotDelivers, Transfer, TypeOK
  <1>5. /\ HoldsWhileBusy' /\ MarkedWereProduced' /\ Exclusive'
        /\ \A p : (\E g \in Goroutine : held[g] = p) /\ p # 0 =>
                    \E g \in Goroutine : held'[g] = p
    BY <1>1, <1>2, <1>3, HandOver DEF Exclusive
  <1>6. ClosedAfterReturn' /\ ErrClosedLast' /\ Accounts'
    <2>1. \A g \in Goroutine : pc[g] = "done" => pc'[g] = "done"
      BY <1>1
    <2> QED
      BY <1>2, <2>1, Roles
      DEF ClosedAfterReturn, ErrClosedLast, ErrClosed, Accounts, ReturnedAfterDrain,
          CancelledForCause, FailuresAccounted
  <1>7. LostOnlyAtShutdown'
    BY <1>2, <1>5 DEF LostOnlyAtShutdown
  <1> QED BY <1>3, <1>4, <1>5, <1>6, <1>7

\* A goroutine lets go of what it holds, if anything: marked, or after a failure
\* or the end of the context.
LEMMA PutDownKeepsIInv ==
  ASSUME IInv, NEW g \in Goroutine,
         pc[g] # "done", NEW l \in {"recv", "idle", "done"},
         pc' = [pc EXCEPT ![g] = l], held' = [held EXCEPT ![g] = 0],
         \/ marked' = marked
         \/ marked' = marked \cup {held[g]} /\ pc[g] \in Carrying,
         \/ marked' = marked \cup {held[g]} \/ held[g] = 0
         \/ failed' \/ expired \/ closerPc = "done",
         Places', errCh' \in 0..ErrCap, Accounts', failed => failed',
         UNCHANGED <<closed, produced, mainVars, closerPc, ctxVars, crashed>>
  PROVE  IInv'
  <1> USE DEF IInv, mainVars, ctxVars
  <1>1. /\ \A h \in Goroutine \ {g} : pc'[h] = pc[h] /\ held'[h] = held[h]
        /\ pc'[g] = l /\ held'[g] = 0
    BY DEF TypeOK
  <1>2. /\ HoldsWhileBusy' /\ MarkedWereProduced' /\ marked' \subseteq 1..NumPayloads
        /\ \A h \in Goroutine : held'[h] # 0 =>
              /\ held'[h] \notin marked'
              /\ \A k \in Goroutine : held'[k] = held'[h] => k = h
        /\ marked' = marked \cup {held[g]} \/ held[g] = 0 =>
             \A p : p # 0 /\ (p \in marked \/ \E h \in Goroutine : held[h] = p) =>
                      p \in marked' \/ \E h \in Goroutine : held'[h] = p
    BY <1>1, PutDown DEF Carrying
  <1>3. TypeOK'
    BY <1>2, PayloadsAssumption DEF TypeOK
  <1>4. Exclusive'
    BY <1>2, <1>3 DEF Exclusive
  <1>5. ClosedAfterReturn' /\ ErrClosedLast'
    BY <1>1, Roles DEF ClosedAfterReturn, ErrClosedLast, ErrClosed
  <1>6. LostOnlyAtShutdown'
    BY <1>2 DEF LostOnlyAtShutdown
  <1> QED BY <1>2, <1>3, <1>4, <1>5, <1>6

\* The source or the sink or Run returns without holding a payload, or because
\* the context is done.
LEMMA LeavingKeepsIInv ==
  ASSUME IInv, UNCHANGED crashed,
         \/ SourceEnds \/ CtxDone(Source) \/ CtxDone(Sink)
         \/ InputClosed(Sink, NumStages) \/ LeadStep
  PROVE  IInv'
  <1> USE DEF IInv
  <1>1. PICK g \in {Source, Sink, Lead} :
          /\ pc[g] # "done" /\ Leave(g)
          /\ held[g] = 0 \/ CtxIsDone
    BY Roles
    DEF SourceEnds, CtxDone, InputClosed, LeadStep, LeadCtxDone, HoldsWhileBusy,
        Carrying
  <1>2. UNCHANGED <<closed, produced, marked, errCh, failed, err, mainPc,
                    closerPc, cancelled, expired>>
    BY DEF SourceEnds, CtxDone, InputClosed, LeadStep, LeadCtxDone, sourceVars,
           sinkVars, errVars, mainVars, ctxVars
  <1>3. Places'
    BY <1>1, <1>2, Roles DEF Places, Leave, TypeOK
  <1>4. Accounts'
    BY <1>2 DEF Accounts, ReturnedAfterDrain, CancelledForCause, FailuresAccounted,
       ErrClosed
  <1>5. g \in Goroutine
    BY Roles
  <1> QED
    BY <1>1, <1>2, <1>3, <1>4, <1>5, PutDownKeepsIInv, CtxDoneForCause
    DEF Leave, mainVars, ctxVars, TypeOK

\* The sink, or a goroutine of the pool, ends its work on a payload.
LEMMA ProcessedKeepsIInv ==
  ASSUME IInv, UNCHANGED crashed,
         \/ SinkConsumes \/ SinkFails
         \/ \E w \in Slot : SlotFails(w) \/ SlotDrops(w) \/ SlotCtxDone(w)
  PROVE  IInv'
  <1> USE DEF IInv
  <1>1. ASSUME SinkConsumes PROVE IInv'
    <2> USE <1>1 DEF SinkConsumes, sourceVars, errVars, mainVars, ctxVars
    <2>1. Places' /\ Accounts'
      BY Roles DEF Places, TypeOK, Accounts, ReturnedAfterDrain, CancelledForCause,
         FailuresAccounted, ErrClosed
    <2> QED BY <2>1, PutDownKeepsIInv, Roles DEF Carrying, TypeOK
  <1>2. ASSUME SinkFails PROVE IInv'
    <2> USE <1>2 DEF SinkFails, Leave, sourceVars, errVars, mainVars, ctxVars
    <2>1. errCh' \in 0..ErrCap /\ errCh' > 0
      BY EmitFills
    <2>2. ~ErrClosed
      BY AllButSlotsDone
    <2>3. Places' /\ Accounts'
      BY <2>1, <2>2, Roles DEF Places, TypeOK, Accounts, ReturnedAfterDrain,
         CancelledForCause, FailuresAccounted, ErrClosed
    <2> QED BY <2>1, <2>3, PutDownKeepsIInv, Roles DEF Carrying, TypeOK
  <1>3. ASSUME NEW w \in Slot, SlotFails(w) PROVE IInv'
    <2> USE <1>3 DEF SlotFails, GiveBack, sourceVars, sinkVars, mainVars, ctxVars
    <2>1. errCh' \in 0..ErrCap /\ errCh' > 0
      BY EmitFills
    <2>2. Places' /\ Accounts'
      BY <2>1, Roles DEF Places, TypeOK, Accounts, ReturnedAfterDrain,
         CancelledForCause, FailuresAccounted, ErrClosed
    <2> QED BY <2>1, <2>2, PutDownKeepsIInv, Roles DEF Carrying, TypeOK
  <1>4. ASSUME NEW w \in Slot, SlotDrops(w) PROVE IInv'
    <2> USE <1>4 DEF SlotDrops, GiveBack, sourceVars, errVars, mainVars, ctxVars
    <2>1. Places' /\ Accounts'
      BY Roles DEF Places, TypeOK, Accounts, ReturnedAfterDrain, CancelledForCause,
         FailuresAccounted, ErrClosed
    <2> QED BY <2>1, PutDownKeepsIInv, Roles DEF Carrying, TypeOK
  <1>5. ASSUME NEW w \in Slot, SlotCtxDone(w) PROVE IInv'
    <2> USE <1>5 DEF SlotCtxDone, GiveBack, sourceVars, sinkVars, errVars, mainVars,
                     ctxVars
    <2>1. Places' /\ Accounts'
      BY Roles DEF Places, TypeOK, Accounts, ReturnedAfterDrain, CancelledForCause,
         FailuresAccounted, ErrClosed
    <2>2. failed' \/ expired \/ closerPc = "done"
      BY CtxDoneForCause
    <2> QED BY <2>1, <2>2, PutDownKeepsIInv, Roles DEF Carrying, TypeOK
  <1> QED BY <1>1, <1>2, <1>3, <1>4, <1>5

\* A goroutine moves on with what it holds: the source that asks for an error
\* holds nothing, a goroutine of the pool that forwards keeps its payload.
LEMMA MoveKeepsIInv ==
  ASSUME IInv, UNCHANGED crashed,
         SourceCheck \/ (\E w \in Slot : FifoForwards(w))
  PROVE  IInv'
  <1> USE DEF IInv
  <1>1. ASSUME SourceCheck PROVE IInv'
    <2> USE <1>1 DEF SourceCheck, sourceVars, sinkVars, mainVars, ctxVars, errVars
    <2>1. errCh' \in 0..ErrCap /\ (failed' => failed \/ errCh' > 0) /\ (failed => failed')
          /\ (errCh > 0 => errCh' > 0) /\ (errCh' > 0 => failed' \/ errCh > 0)
      BY EmitFills DEF TypeOK
    <2>2. ~ErrClosed
      BY AllButSlotsDone
    <2>3. TypeOK'
      BY <2>1 DEF TypeOK
    <2>4. Places' /\ HoldsWhileBusy' /\ MarkedWereProduced'
      BY Roles DEF Places, HoldsWhileBusy, MarkedWereProduced, Carrying, TypeOK
    <2>5. Exclusive' /\ ClosedAfterReturn' /\ ErrClosedLast' /\ LostOnlyAtShutdown'
      BY <2>1, <2>3, Roles
      DEF Exclusive, ClosedAfterReturn, ErrClosedLast, ErrClosed, LostOnlyAtShutdown,
          TypeOK
    <2>6. Accounts'
      BY <2>1, <2>2 DEF Accounts, ReturnedAfterDrain, CancelledForCause,
         FailuresAccounted, ErrClosed
    <2> QED BY <2>3, <2>4, <2>5, <2>6
  <1>2. ASSUME NEW w \in Slot, FifoForwards(w) PROVE IInv'
    <2> USE <1>2 DEF FifoForwards, sourceVars, sinkVars, mainVars, ctxVars, errVars
    <2>1. TypeOK'
      BY DEF TypeOK
    <2>2. Places' /\ HoldsWhileBusy' /\ MarkedWereProduced'
      BY Roles DEF Places, HoldsWhileBusy, MarkedWereProduced, Carrying, TypeOK
    <2>3. Exclusive' /\ ClosedAfterReturn' /\ ErrClosedLast' /\ LostOnlyAtShutdown'
      BY <2>1, Roles
      DEF Exclusive, ClosedAfterReturn, ErrClosedLast, ErrClosed, LostOnlyAtShutdown,
          TypeOK
    <2>4. Accounts'
      BY DEF Accounts, ReturnedAfterDrain, CancelledForCause, FailuresAccounted,
             ErrClosed
    <2> QED BY <2>1, <2>2, <2>3, <2>4
  <1> QED BY <1>1, <1>2

\* Process, its closer and the caller's context move no payload.
LEMMA ProcessKeepsIInv ==
  ASSUME IInv, UNCHANGED crashed, Closes \/ CloserStep \/ MainStep \/ Expire
  PROVE  IInv'
  <1> USE DEF IInv, Closes, CloseOutput, CloserStep, CloseErrs, CloserCancels,
              MainStep, CollectError, CancelOnError, Return, Expire, goVars,
              sourceVars, sinkVars, errVars, mainVars, ctxVars
  <1>1. UNCHANGED <<pc, held, produced, marked, failed>>
    OBVIOUS
  <1>2. TypeOK'
    <2>1. closed' \in [Chan -> BOOLEAN]
      BY DEF TypeOK
    <2>2. errCh' \in 0..ErrCap
      BY StagesAssumption DEF TypeOK, ErrCap
    <2> QED BY <1>1, <2>1, <2>2 DEF TypeOK
  <1>3. Places'
    BY <1>1 DEF Places
  <1>4. HoldsWhileBusy' /\ MarkedWereProduced' /\ Exclusive'
    BY <1>1, <1>2 DEF HoldsWhileBusy, MarkedWereProduced, Exclusive
  <1>5. ClosedAfterReturn' /\ ErrClosedLast'
    BY <1>1, Roles DEF ClosedAfterReturn, ErrClosedLast, ErrClosed, TypeOK
  <1>6. ReturnedAfterDrain'
    BY <1>1 DEF Accounts, ReturnedAfterDrain, ErrClosed
  <1>7. CancelledForCause' /\ FailuresAccounted'
    BY <1>1, StagesAssumption
    DEF Accounts, CancelledForCause, FailuresAccounted, TypeOK, ErrCap
  <1>8. LostOnlyAtShutdown'
    BY <1>1 DEF LostOnlyAtShutdown
  <1> QED BY <1>2, <1>3, <1>4, <1>5, <1>6, <1>7, <1>8 DEF Accounts

\* A panic changes nothing else.
LEMMA StutterKeepsIInv ==
  ASSUME IInv, UNCHANGED vars, crashed' \in BOOLEAN
  PROVE  IInv'
  BY DEF vars, goVars, sourceVars, sinkVars, errVars, mainVars, ctxVars, IInv,
     TypeOK, Places, HoldsWhileBusy, MarkedWereProduced, Exclusive,
     ClosedAfterReturn, ErrClosedLast, ErrClosed, Accounts, ReturnedAfterDrain,
     CancelledForCause, FailuresAccounted, LostOnlyAtShutdown

-----------------------------------------------------------------------------
(* The invariant, and the properties it implies.                           *)

\* Every step keeps the inductive invariant.
LEMMA NextIInv ==
  ASSUME IInv, [Next]_poolVars
  PROVE  IInv'
  <1>1. ASSUME RunStep, UNCHANGED crashed
        PROVE  IInv'
    <2>1. CASE SourceStep
      BY <1>1, <2>1, SourceYieldsKeepsIInv, LeavingKeepsIInv, MoveKeepsIInv
      DEF SourceStep
    <2>2. CASE SinkStep
      BY <1>1, <2>2, ProcessedKeepsIInv, LeavingKeepsIInv DEF SinkStep
    <2>3. CASE LeadReceives \/ \E w \in Slot : TakeToken(w)
      BY <1>1, <2>3, HandOverKeepsIInv
    <2>4. CASE LeadStep
      BY <1>1, <2>4, LeavingKeepsIInv
    <2>5. CASE Closes \/ CloserStep \/ MainStep \/ Expire
      BY <1>1, <2>5, ProcessKeepsIInv
    <2> QED BY <1>1, <2>1, <2>2, <2>3, <2>4, <2>5 DEF RunStep
  <1>2. ASSUME NEW w \in Slot, SlotStep(w)
        PROVE  IInv'
    <2>1. CASE Panic(w)
      BY <2>1, StutterKeepsIInv DEF Panic
    <2>2. CASE ~Panic(w)
      BY <1>2, <2>2, ProcessedKeepsIInv, HandOverKeepsIInv, MoveKeepsIInv
      DEF SlotStep
    <2> QED BY <2>1, <2>2
  <1>3. CASE UNCHANGED poolVars
    BY <1>3, StutterKeepsIInv DEF poolVars, IInv, TypeOK
  <1> QED BY <1>1, <1>2, <1>3 DEF Next, Alive, Terminated

\* The inductive invariant holds in every reachable state.
THEOREM Invariance == Spec => []IInv
  <1>1. Init => IInv
    BY InitIInv
  <1>2. IInv /\ [Next]_poolVars => IInv'
    BY NextIInv
  <1> QED BY <1>1, <1>2, PTL DEF Spec

\* A payload is in one hand at a time, and in none after it was marked, also
\* while goroutines of the pool outlive Run.
THEOREM HandsAreExclusive == Spec => []Exclusive
  <1>1. IInv => Exclusive
    BY DEF IInv
  <1> QED BY Invariance, <1>1, PTL

\* Process returns an error exactly if something failed, whatever the
\* goroutines it does not wait for still do.
THEOREM AllErrorsReported == Spec => []ErrorsReported
  <1>1. IInv => ErrorsReported
    BY DEF IInv, TypeOK, ErrorsReported, Accounts, ReturnedAfterDrain,
       FailuresAccounted
  <1> QED BY Invariance, <1>1, PTL

\* Without failure or expiry no payload is lost before the closer cancels the
\* context.
THEOREM NothingLostBeforeShutdown == Spec => []LostOnlyAtShutdown
  <1>1. IInv => LostOnlyAtShutdown
    BY DEF IInv
  <1> QED BY Invariance, <1>1, PTL
=============================================================================
