----------------------------- MODULE Broadcast -----------------------------
(***************************************************************************)
(* Pipeline.Process over one Broadcast stage.  The goroutine Lead runs     *)
(* broadcast.Run; branch[i] is the goroutine of its i-th FIFO, which reads *)
(* the private channel Inner(i) and writes, with the others, stageCh[1].   *)
(* The copy of payload p that branch i gets is the number Copy(p, i): the  *)
(* original for branch 0, a clone for the others.                          *)
(***************************************************************************)
EXTENDS PipelineCore

CONSTANTS Lead, NumBranches, branch

Index    == 0..(NumBranches - 1)
Inner(i) == NumStages + 1 + i

\* Broadcast panics without processors.
ASSUME BroadcastAssumption ==
  /\ NumStages = 1
  /\ NumBranches \in Nat \ {0}
  /\ branch \in [Index -> Worker \ {Lead}]
  /\ Lead \in Worker
  /\ \A i, j \in Index : branch[i] = branch[j] => i = j
  /\ \A i \in Index : Inner(i) \in Chan

VARIABLE next  \* the branch Lead sends to next

castVars == <<vars, next>>

Copy(p, i) == p + i * NumPayloads
BranchOf(q) == (q - 1) \div NumPayloads

Init ==
  /\ CoreInit
  /\ pc = [g \in Goroutine |-> IF g = Source THEN "next" ELSE "recv"]
  /\ next = 0

-----------------------------------------------------------------------------
(* The loop of broadcast.Run.                                              *)

LeadReceives ==
  /\ Transfer(Source, Lead, 0, "check", "fan")
  /\ next' = NumBranches - 1

\* When its input is closed, "break" leaves the select and not the loop: Lead
\* turns in circles.
LeadSpins ==
  /\ pc[Lead] = "recv" /\ closed[0]
  /\ UNCHANGED castVars

\* inCh[next] <- fifoPayload; the original goes out last.  (Mutated: first;
\* or: a branch that is not ready is passed over.)
FanOutUpwards(i) ==
  /\ pc[Lead] = "fan" /\ NumBranches - 1 - next = i
  /\ pc[branch[i]] = "recv"
  /\ pc'   = [pc EXCEPT ![Lead] = IF next = 0 THEN "recv" ELSE "fan",
                        ![branch[i]] = "process"]
  /\ held' = [held EXCEPT ![Lead] = IF next = 0 THEN 0 ELSE @,
                          ![branch[i]] = Copy(held[Lead], i)]
  /\ next' = IF next = 0 THEN 0 ELSE next - 1
  /\ UNCHANGED <<closed, sourceVars, sinkVars, errVars, mainVars, closerPc,
                 ctxVars>>

FanOutSkipping(i) ==
  /\ pc[Lead] = "fan" /\ next = i
  /\ LET ready == pc[branch[i]] = "recv" IN
     /\ pc'   = [pc EXCEPT ![Lead] = IF i = 0 THEN "recv" ELSE "fan",
                           ![branch[i]] = IF ready THEN "process" ELSE @]
     /\ held' = [held EXCEPT ![Lead] = IF i = 0 THEN 0 ELSE @,
                             ![branch[i]] = IF ready THEN Copy(held[Lead], i)
                                            ELSE @]
  /\ next' = IF i = 0 THEN 0 ELSE i - 1
  /\ UNCHANGED <<closed, sourceVars, sinkVars, errVars, mainVars, closerPc,
                 ctxVars>>

FanOut(i) ==
  /\ pc[Lead] = "fan" /\ next = i
  /\ pc[branch[i]] = "recv"
  /\ pc'   = [pc EXCEPT ![Lead] = IF i = 0 THEN "recv" ELSE "fan",
                        ![branch[i]] = "process"]
  /\ held' = [held EXCEPT ![Lead] = IF i = 0 THEN 0 ELSE @,
                          ![branch[i]] = Copy(held[Lead], i)]
  /\ next' = IF i = 0 THEN 0 ELSE i - 1
  /\ UNCHANGED <<closed, sourceVars, sinkVars, errVars, mainVars, closerPc,
                 ctxVars>>

\* "break done".  (Mutated: only the outer select has the case.)
LeadCtxDoneOuter ==
  /\ pc[Lead] = "recv" /\ CtxIsDone
  /\ pc'   = [pc EXCEPT ![Lead] = "close"]
  /\ UNCHANGED <<held, closed, sourceVars, sinkVars, errVars, mainVars,
                 closerPc, ctxVars, next>>

LeadCtxDone ==
  /\ pc[Lead] \in {"recv", "fan"} /\ CtxIsDone
  /\ pc'   = [pc EXCEPT ![Lead] = "close"]
  /\ held' = [held EXCEPT ![Lead] = 0]
  /\ UNCHANGED <<closed, sourceVars, sinkVars, errVars, mainVars, closerPc,
                 ctxVars, next>>

\* Every inCh is closed; what is left of Run is wg.Wait.
LeadCloses ==
  /\ pc[Lead] = "close"
  /\ pc' = [pc EXCEPT ![Lead] = "done"]
  /\ closed' = [c \in Chan |-> closed[c] \/ c > NumStages]
  /\ UNCHANGED <<held, sourceVars, sinkVars, errVars, mainVars, closerPc,
                 ctxVars, next>>

\* broadcast.Run has returned.  (Mutated: without wg.Wait.)
RunReturnedUnwaited == pc[Lead] = "done"

RunReturned ==
  /\ pc[Lead] = "done"
  /\ \A i \in Index : pc[branch[i]] = "done"

-----------------------------------------------------------------------------

LeadStep == LeadSpins \/ LeadCtxDone \/ LeadCloses
BranchStep(i) ==
  \/ FifoFails(branch[i])
  \/ FifoDrops(branch[i])
  \/ FifoForwards(branch[i])
  \/ CtxDone(branch[i])
  \/ InputClosed(branch[i], Inner(i))
BranchSends(i) == Transfer(branch[i], Sink, 1, "recv", "process")
Closes ==
  \/ CloseOutput(0, pc[Source] = "done")
  \/ CloseOutput(1, RunReturned)

CoreStep ==
  \/ SourceStep
  \/ SinkStep
  \/ \E i \in Index : BranchStep(i) \/ BranchSends(i)
  \/ Closes
  \/ CloserStep
  \/ MainStep
  \/ Expire

Terminated ==
  /\ mainPc = "done" /\ closerPc = "done" /\ expired
  /\ UNCHANGED castVars

Next ==
  \/ CoreStep /\ UNCHANGED next
  \/ LeadReceives
  \/ \E i \in Index : FanOut(i)
  \/ LeadStep
  \/ Terminated

Spec == Init /\ [][Next]_castVars

Only(A) == A /\ UNCHANGED next

\* Every goroutine that can move does; the callbacks return.
FairSpec ==
  /\ Spec
  /\ WF_castVars(Only(SourceStep))
  /\ WF_castVars(Only(SinkStep))
  /\ WF_castVars(LeadReceives)
  /\ WF_castVars(\E i \in Index : FanOut(i))
  /\ WF_castVars(LeadStep)
  /\ \A i \in Index : WF_castVars(Only(BranchStep(i)))
  /\ \A i \in Index : WF_castVars(Only(BranchSends(i)))
  /\ WF_castVars(Only(Closes))
  /\ WF_castVars(Only(CloserStep))
  /\ WF_castVars(Only(MainStep))

-----------------------------------------------------------------------------
(* Properties.                                                             *)

\* Every variable has its type.
TypeOK ==
  /\ pc \in [Goroutine -> {"next", "send", "check", "recv", "fan", "close",
                           "process", "done"}]
  /\ held \in [Goroutine -> 0..(NumPayloads * NumBranches)]
  /\ closed \in [Chan -> BOOLEAN]
  /\ marked \subseteq 1..(NumPayloads * NumBranches)
  /\ errCh \in 0..ErrCap
  /\ next \in Index

\* No two goroutines hold the same copy, none holds a marked one, and Lead has
\* no more to clone from a payload it gave away.
Exclusive ==
  /\ TypeOK
  /\ \A g \in Goroutine : held[g] # 0 =>
       /\ held[g] \notin marked
       /\ \A h \in Goroutine : held[h] = held[g] => h = g

\* No goroutine sends on a closed channel, public or private, and none can
\* report an error once errCh is closed.
ChannelDiscipline ==
  /\ pc[Source] = "send" => ~closed[0]
  /\ pc[Lead] = "fan" => \A i \in Index : ~closed[Inner(i)]
  /\ \A i \in Index : pc[branch[i]] = "send" => ~closed[1]
  /\ ErrClosed => \A g \in Goroutine : pc[g] \notin {"process", "check"}

\* While nothing failed and the context lives, every payload that Lead is done
\* with has a copy, marked or in someone's hands, for every branch, and the
\* one being sent out has them for the branches it was sent to.
EveryBranchGetsEveryPayload ==
  ~failed /\ ~expired /\ closerPc = "wait" =>
    \A p \in 1..produced, i \in Index :
      \/ held[Source] = p
      \/ held[Lead] = p /\ i <= next
      \/ Copy(p, i) \in marked
      \/ \E g \in Goroutine : held[g] = Copy(p, i)

\* The copies of one branch reach the sink in source order.
BranchOrder ==
  \A j, k \in DOMAIN sunk :
    j < k /\ BranchOf(sunk[j]) = BranchOf(sunk[k]) => sunk[j] < sunk[k]

\* A failure, or the end of the caller's context, stops Process, whatever Lead
\* and its branches are waiting for.
StopsWhenTold == failed \/ expired ~> mainPc = "done"

\* What TestDataFlow shows of Process: with a source that ends, it returns,
\* and nobody needs to cancel its context for that.
Termination == <>(mainPc = "done")
=============================================================================
