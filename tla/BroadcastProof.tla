--------------------------- MODULE BroadcastProof ---------------------------
(***************************************************************************)
(* Proofs about Broadcast, for any number of branches and payloads.        *)
(***************************************************************************)
EXTENDS Broadcast, Integers, TLAPS

(***************************************************************************)
(* The inductive invariant.                                                *)
(***************************************************************************)

\* Where each kind of goroutine can be.
Places ==
  /\ pc[Source] \in {"next", "send", "check", "done"}
  /\ pc[Sink] \in {"recv", "process", "done"}
  /\ pc[Lead] \in {"recv", "fan", "close", "done"}
  /\ \A i \in Index : pc[branch[i]] \in {"recv", "process", "send", "done"}
  /\ \A g \in Goroutine :
       \/ g \in {Source, Sink, Lead} \/ \E i \in Index : g = branch[i]
       \/ pc[g] = "recv"
  /\ mainPc \in {"range", "cancel", "done"}
  /\ closerPc \in {"wait", "cancel", "done"}

\* A goroutine holds a payload exactly while it processes or sends one.
HoldsWhileBusy ==
  \A g \in Goroutine : held[g] # 0 <=> pc[g] \in {"process", "send", "fan"}

\* The numbers of the copies for branch i are Base(i)+1..Base(i)+NumPayloads.
Base(i) == i * NumPayloads
CopyFor(q, i) == Base(i) < q /\ q <= Base(i) + NumPayloads

Sunk == {sunk[k] : k \in DOMAIN sunk}

\* What came out of the stage are copies, each branch holds one of its own,
\* and the originals are in source order.
RightCopies ==
  /\ produced \in 0..NumPayloads
  /\ sunk \in Seq(Nat)
  /\ \A q \in marked \cup Sunk : \E i \in Index : CopyFor(q, i)
  /\ held[Sink] # 0 => \E i \in Index : CopyFor(held[Sink], i)
  /\ \A i \in Index : held[branch[i]] # 0 => CopyFor(held[branch[i]], i)
  /\ pc[Source] = "send" => held[Source] = produced
  /\ held[Lead] <= IF pc[Source] = "send" THEN produced - 1 ELSE produced

\* The last payload of which branch i can have had a copy.
LastTaken ==
  IF pc[Lead] = "fan" THEN held[Lead]
  ELSE IF pc[Source] = "send" THEN produced - 1 ELSE produced

LastGiven(i) ==
  Copy(IF pc[Lead] = "fan" /\ i <= next THEN LastTaken - 1 ELSE LastTaken, i)

\* Along each branch the copies are in order: behind what is marked, sunk or at
\* the sink is what the branch holds, and behind that what it has still to get.
InOrder ==
  \A i \in Index :
    /\ held[branch[i]] <= LastGiven(i) \/ held[branch[i]] = 0
    /\ \A q \in marked \cup Sunk \cup {held[Sink]} : CopyFor(q, i) =>
         /\ q <= LastGiven(i)
         /\ held[branch[i]] # 0 => q < held[branch[i]]
    /\ CopyFor(held[Sink], i) => \A q \in Sunk : CopyFor(q, i) => q < held[Sink]

SunkInOrder ==
  \A i \in Index : \A j, k \in DOMAIN sunk :
    j < k /\ CopyFor(sunk[j], i) /\ CopyFor(sunk[k], i) => sunk[j] < sunk[k]

SinkUnmarked == held[Sink] \notin marked

\* A channel is closed only after whoever writes it returned.
ClosedAfterReturn ==
  /\ closed[0] => pc[Source] = "done"
  /\ closed[1] => RunReturned
  /\ \A i \in Index : closed[Inner(i)] => pc[Lead] = "done"

\* errCh is closed only after everybody who writes it returned.
ErrClosedLast ==
  ErrClosed => pc[Sink] = "done" /\ closed[0] /\ closed[1]

\* The context is cancelled because of an error or at the very end, and a
\* failure is either in errCh or already in err.
Accounts ==
  /\ cancelled => err \/ closerPc = "done"
  /\ mainPc = "cancel" => err
  /\ failed <=> err \/ errCh > 0

IInv ==
  /\ TypeOK
  /\ Places
  /\ HoldsWhileBusy
  /\ RightCopies
  /\ InOrder
  /\ SunkInOrder
  /\ SinkUnmarked
  /\ ClosedAfterReturn
  /\ ErrClosedLast
  /\ Accounts
  /\ EveryBranchGetsEveryPayload

-----------------------------------------------------------------------------
(* Lemmas about copies and about the steps the actions are made of.        *)

\* The numbers of the copies for the branches are disjoint intervals.
LEMMA Bases ==
  /\ Index \subseteq Nat /\ 0 \in Index /\ NumBranches - 1 \in Index
  /\ \A i \in Index :
       /\ Base(i) \in Nat /\ \A p : Copy(p, i) = p + Base(i)
       /\ Base(i) + NumPayloads <= NumPayloads * NumBranches
       /\ \A j \in Index : i < j => Base(i) + NumPayloads <= Base(j)
  /\ Base(0) = 0
  /\ NumPayloads * NumBranches \in Nat
  <1> USE PayloadsAssumption, BroadcastAssumption
  <1>1. /\ Index \subseteq Nat /\ 0 \in Index /\ NumBranches - 1 \in Index
    BY DEF Index
  <1>2. \A m, n \in Nat : m * n \in Nat
    OBVIOUS
  <1>3. \A m, n, k \in Nat : m < k => m * n + n <= k * n
    <2> SUFFICES ASSUME NEW m \in Nat, NEW n \in Nat, NEW k \in Nat, m < k
                 PROVE  m * n + n <= k * n
      OBVIOUS
    <2>1. PICK d \in Nat : k = (m + 1) + d
      <3>1. k - (m + 1) \in Nat /\ k = (m + 1) + (k - (m + 1))
        OBVIOUS
      <3> QED BY <3>1
    <2>2. k * n = (m * n + n) + d * n
      BY <2>1
    <2>3. d * n \in Nat /\ m * n \in Nat
      BY <1>2
    <2> QED BY <2>2, <2>3
  <1>4. ASSUME NEW i \in Index
        PROVE  /\ Base(i) \in Nat /\ \A p : Copy(p, i) = p + Base(i)
               /\ Base(i) + NumPayloads <= NumPayloads * NumBranches
               /\ \A j \in Index : i < j => Base(i) + NumPayloads <= Base(j)
    <2>1. i \in Nat /\ i < NumBranches /\ NumBranches \in Nat
      BY DEF Index
    <2>2. NumPayloads * NumBranches = NumBranches * NumPayloads
      OBVIOUS
    <2>3. Base(i) + NumPayloads <= NumPayloads * NumBranches
      BY <1>3, <2>1, <2>2 DEF Base
    <2>4. \A j \in Index : i < j => Base(i) + NumPayloads <= Base(j)
      BY <1>1, <1>3 DEF Base
    <2> QED BY <1>2, <2>1, <2>3, <2>4 DEF Base, Copy
  <1>5. Base(0) = 0
    BY DEF Base
  <1> QED BY <1>1, <1>2, <1>4, <1>5

\* A number is a copy for one branch only, and BranchOf says for which.
LEMMA CopyForBranch ==
  ASSUME NEW i \in Index, NEW q \in Nat, CopyFor(q, i)
  PROVE  /\ BranchOf(q) = i
         /\ \A j \in Index : CopyFor(q, j) => j = i
         /\ q \in 1..(NumPayloads * NumBranches)
  <1> USE Bases, PayloadsAssumption DEF CopyFor
  <1>1. \A j \in Index : CopyFor(q, j) => j = i
    OBVIOUS
  <1>2. q \in 1..(NumPayloads * NumBranches)
    OBVIOUS
  <1>3. BranchOf(q) = i
    <2> DEFINE r == q - 1 - Base(i)
    <2>1. i * NumPayloads = Base(i)
      BY DEF Base
    <2>2. r \in Nat /\ r < NumPayloads /\ q - 1 = Base(i) + r
      OBVIOUS
    <2>3. \A m, n, k \in Nat : k < n => (m * n + k) \div n = m
      OBVIOUS
    <2>4. NumPayloads \in Nat /\ i \in Nat
      OBVIOUS
    <2> HIDE DEF r
    <2>5. (i * NumPayloads + r) \div NumPayloads = i
      BY <2>2, <2>3, <2>4
    <2> QED BY <2>1, <2>2, <2>5 DEF BranchOf
  <1> QED BY <1>1, <1>2, <1>3

\* The goroutines and the channels are different ones.
LEMMA Roles ==
  /\ Source \in Goroutine /\ Sink \in Goroutine /\ Lead \in Goroutine
  /\ Source # Sink /\ Source # Lead /\ Sink # Lead
  /\ \A i \in Index : /\ branch[i] \in Goroutine
                      /\ branch[i] # Source /\ branch[i] # Sink /\ branch[i] # Lead
                      /\ \A j \in Index : branch[i] = branch[j] => i = j
                      /\ Inner(i) \in Chan /\ Inner(i) \in Nat /\ Inner(i) > 1
  /\ 0 \in Chan /\ 1 \in Chan /\ 0..NumStages = {0, 1} /\ NumStages = 1
  <1>1. 0..1 = {0, 1}
    OBVIOUS
  <1>2. \A i \in Index : Inner(i) \in Chan /\ Inner(i) \in Nat /\ Inner(i) > 1
    BY BroadcastAssumption, Bases DEF Inner
  <1> QED
    BY <1>1, <1>2, WorkerAssumption, BroadcastAssumption, ChanAssumption DEF Goroutine

\* Emit keeps errCh within its capacity and never leaves it empty.
LEMMA EmitFills ==
  ASSUME TypeOK, Emit
  PROVE  errCh' \in 0..ErrCap /\ errCh' > 0
  BY StagesAssumption DEF TypeOK, Emit, ErrCap

\* Once errCh is closed, every goroutine has returned.
LEMMA AllDone ==
  ASSUME IInv, ErrClosed
  PROVE  /\ pc[Source] = "done" /\ pc[Sink] = "done" /\ pc[Lead] = "done"
         /\ \A i \in Index : pc[branch[i]] = "done"
  BY DEF IInv, ErrClosedLast, ClosedAfterReturn, RunReturned

\* The numbers that go into the limits of the order.
LEMMA Limits ==
  ASSUME IInv
  PROVE  /\ produced \in Nat /\ \A g \in Goroutine : held[g] \in Nat
         /\ LastTaken \in Int /\ LastTaken <= produced
         /\ \A i \in Index : LastGiven(i) \in Int /\ LastGiven(i) <= Base(i) + LastTaken
         /\ \A q \in marked \cup Sunk : q \in Nat
         /\ pc[Source] = "send" => produced > 0
  <1> USE DEF IInv
  <1>1. produced \in Nat /\ \A g \in Goroutine : held[g] \in Nat
    BY PayloadsAssumption, Bases DEF RightCopies, TypeOK
  <1>2. \A q \in marked \cup Sunk : q \in Nat
    BY Bases DEF RightCopies, TypeOK, Sunk
  <1>3. LastTaken \in Int /\ LastTaken <= produced
    BY <1>1, Roles DEF LastTaken, RightCopies
  <1>4. \A i \in Index : LastGiven(i) \in Int /\ LastGiven(i) <= Base(i) + LastTaken
    BY <1>3, Bases DEF LastGiven
  <1>5. pc[Source] = "send" => produced > 0
    BY <1>1, Roles DEF RightCopies, HoldsWhileBusy
  <1> QED BY <1>1, <1>2, <1>3, <1>4, <1>5

\* The parts of the invariant about payloads.
Copies == RightCopies /\ InOrder /\ SunkInOrder /\ SinkUnmarked

\* Nothing is given to a branch by a step in which Lead and the source keep
\* their payloads or drop them.
LEMMA LimitsStay ==
  ASSUME IInv, UNCHANGED <<produced, next>>,
         pc'[Lead] = "fan" => pc[Lead] = "fan" /\ held'[Lead] = held[Lead],
         pc'[Source] = "send" => pc[Source] = "send"
  PROVE  \A i \in Index : LastGiven(i)' \in Int /\ LastGiven(i) <= LastGiven(i)'
  <1> USE DEF IInv
  <1>1. LastTaken' \in Int /\ LastTaken <= LastTaken'
    BY Limits, Roles DEF LastTaken, RightCopies
  <1>2. pc'[Lead] = "fan" => LastTaken' = LastTaken
    BY DEF LastTaken
  <1>3. \A i \in Index : Base(i) \in Nat /\ \A p : Copy(p, i) = p + Base(i)
    BY Bases
  <1> QED BY <1>1, <1>2, <1>3, Limits DEF LastGiven

\* A step that moves no payload.
LEMMA CopiesStay ==
  ASSUME IInv, UNCHANGED <<held, produced, sunk, marked, next>>,
         pc'[Lead] = "fan" <=> pc[Lead] = "fan",
         pc'[Source] = "send" <=> pc[Source] = "send",
         failed => failed', expired => expired',
         closerPc' = "wait" => closerPc = "wait"
  PROVE  Copies' /\ EveryBranchGetsEveryPayload'
  <1> USE DEF IInv
  <1>1. LastTaken' = LastTaken /\ Sunk' = Sunk
    BY DEF LastTaken, Sunk
  <1>2. \A i \in Index : LastGiven(i)' = LastGiven(i)
    BY <1>1 DEF LastGiven
  <1>3. RightCopies'
    BY <1>1 DEF RightCopies
  <1>4. InOrder'
    BY <1>1, <1>2 DEF InOrder
  <1>5. SunkInOrder' /\ SinkUnmarked'
    BY DEF SunkInOrder, SinkUnmarked
  <1>6. EveryBranchGetsEveryPayload'
    BY DEF EveryBranchGetsEveryPayload
  <1> QED BY <1>3, <1>4, <1>5, <1>6 DEF Copies

\* A payload appended to what was sunk.
LEMMA AppendSunk ==
  ASSUME sunk \in Seq(Nat), NEW q \in Nat, sunk' = Append(sunk, q)
  PROVE  /\ sunk' \in Seq(Nat) /\ Sunk' = Sunk \cup {q}
         /\ DOMAIN sunk = 1..Len(sunk) /\ DOMAIN sunk' = 1..(Len(sunk) + 1)
         /\ Len(sunk) \in Nat
         /\ sunk'[Len(sunk) + 1] = q
         /\ \A k \in DOMAIN sunk : sunk'[k] = sunk[k] /\ k \in DOMAIN sunk'
  <1>1. /\ sunk' \in Seq(Nat)
        /\ DOMAIN sunk = 1..Len(sunk) /\ DOMAIN sunk' = 1..(Len(sunk) + 1)
        /\ Len(sunk) \in Nat /\ sunk'[Len(sunk) + 1] = q
        /\ \A k \in DOMAIN sunk : sunk'[k] = sunk[k] /\ k \in DOMAIN sunk'
    OBVIOUS
  <1>2. \A k \in DOMAIN sunk' : k \in DOMAIN sunk \/ k = Len(sunk) + 1
    BY <1>1
  <1>3. Len(sunk) + 1 \in DOMAIN sunk'
    BY <1>1
  <1>4. Sunk' = Sunk \cup {q}
    BY <1>1, <1>2, <1>3 DEF Sunk
  <1> QED BY <1>1, <1>4

\* A goroutine lets go of its payload: the sink may have consumed it, and it or
\* a branch may have marked it.
LEMMA PutDown ==
  ASSUME IInv, NEW g \in Goroutine, UNCHANGED <<produced, next>>,
         pc'[g] \notin {"process", "send", "fan"}, held'[g] = 0,
         \A h \in Goroutine \ {g} : pc'[h] = pc[h] /\ held'[h] = held[h],
         \/ marked' = marked
         \/ /\ marked' = marked \cup {held[g]}
            /\ pc[g] = "process" /\ (g = Sink \/ \E i \in Index : g = branch[i]),
         \/ sunk' = sunk
         \/ sunk' = Append(sunk, held[g]) /\ g = Sink /\ pc[g] = "process",
         failed => failed', expired => expired',
         closerPc' = "wait" => closerPc = "wait",
         \/ held[g] = 0
         \/ marked' = marked \cup {held[g]} /\ g \notin {Source, Lead}
         \/ failed' \/ expired' \/ closerPc' # "wait"
  PROVE  HoldsWhileBusy' /\ Copies' /\ EveryBranchGetsEveryPayload'
         /\ marked' \subseteq 1..(NumPayloads * NumBranches)
  <1> USE DEF IInv
  <1>1. HoldsWhileBusy'
    BY DEF HoldsWhileBusy
  <1>2. \A i \in Index : LastGiven(i)' \in Int /\ LastGiven(i) <= LastGiven(i)'
    BY LimitsStay, Roles DEF HoldsWhileBusy
  <1>3. sunk' \in Seq(Nat) /\ Sunk' \subseteq Sunk \cup {held[g]}
        /\ (g # Sink => sunk' = sunk /\ Sunk' = Sunk)
    <2>1. CASE sunk' = sunk
      BY <2>1 DEF RightCopies, Sunk
    <2>2. CASE sunk' = Append(sunk, held[g]) /\ g = Sink
      <3>1. sunk \in Seq(Nat) /\ held[g] \in Nat
        BY Limits DEF RightCopies
      <3> QED BY <2>2, <3>1, AppendSunk
    <2> QED BY <2>1, <2>2
  <1>4. pc[g] = "process" => held[g] # 0
    BY DEF HoldsWhileBusy
  <1>5. \A q \in marked' \cup Sunk' : q \in marked \cup Sunk \/ (q = held[g] /\ q # 0
          /\ (g = Sink \/ (marked' = marked \cup {held[g]} /\ \E i \in Index : g = branch[i])))
    BY <1>3, <1>4 DEF Sunk
  <1>6. RightCopies'
    <2>1. \A q \in marked' \cup Sunk' : \E i \in Index : CopyFor(q, i)
      BY <1>5 DEF RightCopies
    <2>2. held'[Lead] <= IF pc'[Source] = "send" THEN produced' - 1 ELSE produced'
      BY Limits, Roles DEF RightCopies
    <2> QED BY <1>3, <2>1, <2>2, Roles DEF RightCopies
  <1>7. marked' \subseteq 1..(NumPayloads * NumBranches)
    <2> SUFFICES ASSUME NEW q \in marked' PROVE q \in 1..(NumPayloads * NumBranches)
      OBVIOUS
    <2>1. q \in Nat
      BY Limits
    <2>2. PICK i \in Index : CopyFor(q, i)
      BY <1>6 DEF RightCopies, CopyFor, Base
    <2> QED BY <2>1, <2>2, CopyForBranch
  <1>8. \A i \in Index : ~CopyFor(0, i)
    BY Bases DEF CopyFor
  <1>9. InOrder'
    <2> SUFFICES ASSUME NEW i \in Index
                 PROVE  /\ held'[branch[i]] <= LastGiven(i)' \/ held'[branch[i]] = 0
                        /\ \A q \in marked' \cup Sunk' \cup {held'[Sink]} : CopyFor(q, i) =>
                             /\ q <= LastGiven(i)'
                             /\ held'[branch[i]] # 0 => q < held'[branch[i]]
                        /\ CopyFor(held'[Sink], i) => \A q \in Sunk' : CopyFor(q, i) => q < held'[Sink]
      BY DEF InOrder, CopyFor, Base
    <2>1. held'[branch[i]] = held[branch[i]] \/ held'[branch[i]] = 0
      BY Roles
    <2>2. held'[branch[i]] <= LastGiven(i)' \/ held'[branch[i]] = 0
      BY <1>2, <2>1, Limits, Roles DEF InOrder
    <2>3. ASSUME NEW q \in marked' \cup Sunk' \cup {held'[Sink]}, CopyFor(q, i)
          PROVE  /\ q <= LastGiven(i)'
                 /\ held'[branch[i]] # 0 => q < held'[branch[i]]
      <3>1. q \in Nat /\ LastGiven(i) \in Int
        BY <1>5, <2>3, <1>8, Limits, Roles
      <3>2. CASE q \in marked \cup Sunk \cup {held[Sink]}
        BY <1>2, <2>1, <2>3, <3>1, <3>2 DEF InOrder
      <3>3. CASE q \notin marked \cup Sunk \cup {held[Sink]}
        <4>1. PICK j \in Index : g = branch[j] /\ q = held[branch[j]] /\ q # 0
          BY <1>5, <2>3, <3>3, <1>8, Roles
        <4>2. j = i
          BY <2>3, <3>1, <4>1, CopyForBranch DEF RightCopies
        <4> QED BY <1>2, <3>1, <4>1, <4>2, Limits DEF InOrder
      <3> QED BY <3>2, <3>3
    <2>4. CopyFor(held'[Sink], i) => \A q \in Sunk' : CopyFor(q, i) => q < held'[Sink]
      BY <1>3, <1>8, Roles DEF InOrder
    <2> QED BY <2>2, <2>3, <2>4
  <1>10. SunkInOrder'
    <2>1. CASE sunk' = sunk
      BY <2>1 DEF SunkInOrder, CopyFor, Base
    <2>2. CASE sunk' # sunk
      <3>1. sunk' = Append(sunk, held[Sink]) /\ held[Sink] \in Nat /\ sunk \in Seq(Nat)
        BY <2>2, Limits, Roles DEF RightCopies
      <3>2. \A i \in Index : \A k \in DOMAIN sunk :
              CopyFor(sunk[k], i) /\ CopyFor(held[Sink], i) => sunk[k] < held[Sink]
        BY DEF InOrder, Sunk
      <3> SUFFICES ASSUME NEW i \in Index, NEW j \in DOMAIN sunk', NEW k \in DOMAIN sunk',
                          j < k, CopyFor(sunk'[j], i), CopyFor(sunk'[k], i)
                   PROVE  sunk'[j] < sunk'[k]
        BY DEF SunkInOrder, CopyFor, Base
      <3>3. j \in DOMAIN sunk /\ (k \in DOMAIN sunk \/ k = Len(sunk) + 1)
        BY <3>1, AppendSunk
      <3> HIDE DEF IInv
      <3>4. CASE k \in DOMAIN sunk
        BY <3>1, <3>3, <3>4, AppendSunk DEF SunkInOrder, IInv
      <3>5. CASE k = Len(sunk) + 1
        BY <3>1, <3>2, <3>3, <3>5, AppendSunk
      <3> QED BY <3>3, <3>4, <3>5
    <2> QED BY <2>1, <2>2
  <1>11. SinkUnmarked'
    <2>1. CASE held'[Sink] = 0
      BY <1>7, <2>1
      DEF SinkUnmarked
    <2>2. CASE held'[Sink] # 0
      <3>1. g # Sink /\ held'[Sink] = held[Sink]
        BY <2>2, Roles
      <3>2. ASSUME NEW j \in Index, g = branch[j], held[g] # 0 PROVE held[g] # held[Sink]
        <4>1. CopyFor(held[branch[j]], j)
          BY <3>2 DEF RightCopies
        <4> QED BY <3>2, <4>1, Limits, Roles DEF InOrder
      <3> QED BY <1>4, <3>1, <3>2 DEF SinkUnmarked
    <2> QED BY <2>1, <2>2
  <1>12. EveryBranchGetsEveryPayload'
    <2> SUFFICES ASSUME ~failed', ~expired', closerPc' = "wait",
                        NEW p \in 1..produced, NEW i \in Index
                 PROVE  \/ held'[Source] = p
                        \/ held'[Lead] = p /\ i <= next
                        \/ Copy(p, i) \in marked'
                        \/ \E h \in Goroutine : held'[h] = Copy(p, i)
      BY DEF EveryBranchGetsEveryPayload, Copy
    <2>1. \/ held[Source] = p
          \/ held[Lead] = p /\ i <= next
          \/ Copy(p, i) \in marked
          \/ \E h \in Goroutine : held[h] = Copy(p, i)
      BY DEF EveryBranchGetsEveryPayload
    <2>2. held[g] = 0 \/ (marked' = marked \cup {held[g]} /\ g # Source /\ g # Lead)
      OBVIOUS
    <2>3. Copy(p, i) # 0 /\ p # 0
      BY Bases, Limits
    <2>4. \A h \in Goroutine : held[h] # 0 => held'[h] = held[h] \/ held[h] \in marked'
      BY <2>2
    <2>5. held[Source] = p => held'[Source] = p
      BY <2>2, <2>3, Roles
    <2>6. held[Lead] = p => held'[Lead] = p
      BY <2>2, <2>3, Roles
    <2> QED BY <2>1, <2>3, <2>4, <2>5, <2>6
  <1> QED BY <1>1, <1>6, <1>7, <1>9, <1>10, <1>11, <1>12 DEF Copies

-----------------------------------------------------------------------------
(* The invariant holds initially, and every action keeps it.               *)

\* At the start nothing was produced and no channel is closed.
LEMMA InitIInv == Init => IInv
  <1> SUFFICES ASSUME Init PROVE IInv OBVIOUS
  <1> USE DEF Init, CoreInit
  <1>1. TypeOK
    <2>1. /\ pc \in [Goroutine -> {"next", "send", "check", "recv", "fan", "close",
                                  "process", "done"}]
          /\ closed \in [Chan -> BOOLEAN]
      OBVIOUS
    <2>2. held \in [Goroutine -> 0..(NumPayloads * NumBranches)] /\ next \in Index
      BY Bases
    <2>3. errCh \in 0..ErrCap /\ marked \subseteq 1..(NumPayloads * NumBranches)
      BY StagesAssumption DEF ErrCap
    <2> QED BY <2>1, <2>2, <2>3 DEF TypeOK
  <1>2. Places /\ HoldsWhileBusy
    BY Roles DEF Places, HoldsWhileBusy
  <1>3. sunk \in Seq(Nat) /\ DOMAIN sunk = {} /\ Sunk = {}
    BY DEF Sunk
  <1>4. \A i \in Index : ~CopyFor(0, i)
    BY Bases DEF CopyFor
  <1>5. RightCopies
    BY <1>3, Roles, PayloadsAssumption DEF RightCopies
  <1>6. InOrder /\ SunkInOrder /\ SinkUnmarked
    BY <1>3, <1>4, Roles DEF InOrder, SunkInOrder, SinkUnmarked
  <1>7. ClosedAfterReturn /\ ErrClosedLast /\ Accounts
    BY Roles DEF ClosedAfterReturn, ErrClosedLast, ErrClosed, Accounts
  <1>8. EveryBranchGetsEveryPayload
    BY DEF EveryBranchGetsEveryPayload
  <1> QED BY <1>1, <1>2, <1>5, <1>6, <1>7, <1>8 DEF IInv

\* A new payload is behind all the others.
LEMMA SourceYieldsKeepsIInv ==
  ASSUME IInv, SourceYields, UNCHANGED next
  PROVE  IInv'
  <1> USE DEF IInv, SourceYields, sinkVars, errVars, mainVars, ctxVars
  <1>1. /\ pc'[Source] = "send" /\ held'[Source] = produced + 1
        /\ pc[Source] = "next" /\ held[Source] = 0
        /\ \A g \in Goroutine \ {Source} : pc'[g] = pc[g] /\ held'[g] = held[g]
        /\ produced' = produced + 1 /\ produced + 1 \in 1..NumPayloads
    <2>1. produced' = produced + 1 /\ produced + 1 \in 1..NumPayloads
      BY PayloadsAssumption DEF RightCopies
    <2>2. /\ pc'[Source] = "send" /\ held'[Source] = produced + 1
          /\ \A g \in Goroutine \ {Source} : pc'[g] = pc[g] /\ held'[g] = held[g]
      BY Roles DEF TypeOK
    <2>3. pc[Source] = "next" /\ held[Source] = 0
      BY Roles DEF HoldsWhileBusy
    <2> QED BY <2>1, <2>2, <2>3
  <1>2. TypeOK'
    <2>1. produced + 1 \in 0..(NumPayloads * NumBranches)
      BY <1>1, Bases, PayloadsAssumption
    <2>2. held' \in [Goroutine -> 0..(NumPayloads * NumBranches)]
      BY <2>1 DEF TypeOK
    <2>3. pc' \in [Goroutine -> {"next", "send", "check", "recv", "fan", "close",
                                "process", "done"}]
      BY DEF TypeOK
    <2> QED BY <2>2, <2>3 DEF TypeOK
  <1>3. Places' /\ HoldsWhileBusy'
    BY <1>1, Roles, Limits DEF Places, HoldsWhileBusy
  <1>4. LastTaken' = LastTaken /\ Sunk' = Sunk
    BY <1>1, Roles, Limits DEF LastTaken, Sunk
  <1>5. \A i \in Index : LastGiven(i)' = LastGiven(i)
    BY <1>4, <1>1, Roles DEF LastGiven
  <1>6. RightCopies'
    <2>1. held'[Lead] <= produced' - 1
      BY <1>1, Limits, Roles DEF RightCopies
    <2> QED BY <1>1, <1>4, <2>1, Roles, PayloadsAssumption DEF RightCopies, CopyFor, Base
  <1>7. InOrder' /\ SunkInOrder' /\ SinkUnmarked'
    BY <1>1, <1>4, <1>5, Roles DEF InOrder, SunkInOrder, SinkUnmarked, CopyFor, Base
  <1>8. ClosedAfterReturn' /\ ErrClosedLast' /\ Accounts'
    BY <1>1, Roles
    DEF ClosedAfterReturn, ErrClosedLast, ErrClosed, Accounts, RunReturned
  <1>9. EveryBranchGetsEveryPayload'
    <2>1. \A p \in 1..(produced + 1) : p \in 1..produced \/ p = produced + 1
      BY Limits
    <2>2. \A i \in Index : \A p \in 1..produced : p # 0 /\ Copy(p, i) # 0
      BY Limits, Bases
    <2> QED BY <1>1, <2>1, <2>2, Roles DEF EveryBranchGetsEveryPayload, Copy
  <1> QED BY <1>2, <1>3, <1>6, <1>7, <1>8, <1>9

\* A goroutine, or Process, moves on without touching a payload.
LEMMA MoveKeepsIInv ==
  ASSUME IInv, UNCHANGED next,
         \/ SourceCheck \/ (\E i \in Index : FifoForwards(branch[i]))
         \/ Closes \/ CloserStep \/ MainStep \/ Expire \/ LeadCloses
  PROVE  IInv'
  <1> USE DEF IInv
  <1>1. /\ UNCHANGED <<held, produced, sunk, marked>>
        /\ failed => failed'
        /\ expired => expired'
        /\ closerPc' = "wait" => closerPc = "wait"
    BY DEF SourceCheck, FifoForwards, Closes, CloseOutput, CloserStep, CloseErrs,
           CloserCancels, MainStep, CollectError, CancelOnError, Return, Expire,
           LeadCloses, goVars, sourceVars, sinkVars, errVars, mainVars, ctxVars
  <1>2. /\ \A g \in Goroutine :
             pc'[g] \in {"process", "send", "fan"} <=> pc[g] \in {"process", "send", "fan"}
        /\ pc'[Lead] = "fan" <=> pc[Lead] = "fan"
        /\ pc'[Source] = "send" <=> pc[Source] = "send"
        /\ pc' \in [Goroutine -> {"next", "send", "check", "recv", "fan", "close",
                                  "process", "done"}]
    BY Roles DEF TypeOK, SourceCheck, FifoForwards, Closes, CloseOutput, CloserStep,
       CloseErrs, CloserCancels, MainStep, CollectError, CancelOnError, Return, Expire,
       LeadCloses, goVars
  <1>3. HoldsWhileBusy' /\ Copies' /\ EveryBranchGetsEveryPayload'
    <2>1. HoldsWhileBusy'
      BY <1>1, <1>2 DEF HoldsWhileBusy
    <2> HIDE DEF IInv
    <2>2. Copies' /\ EveryBranchGetsEveryPayload'
      BY <1>1, <1>2, CopiesStay
    <2> QED BY <2>1, <2>2
  <1>4. Places'
    BY Roles DEF TypeOK, Places, SourceCheck, FifoForwards, Closes, CloseOutput,
       CloserStep, CloseErrs, CloserCancels, MainStep, CollectError, CancelOnError,
       Return, Expire, LeadCloses, goVars, mainVars
  <1>5. TypeOK'
    <2>1. closed' \in [Chan -> BOOLEAN]
      BY DEF TypeOK, SourceCheck, FifoForwards, Closes, CloseOutput, CloserStep,
             CloseErrs, CloserCancels, MainStep, CollectError, CancelOnError, Return,
             Expire, LeadCloses
    <2>2. errCh' \in 0..ErrCap
      BY EmitFills, StagesAssumption
      DEF TypeOK, ErrCap, SourceCheck, FifoForwards, Closes, CloseOutput, CloserStep,
          CloseErrs, CloserCancels, MainStep, CollectError, CancelOnError, Return,
          Expire, LeadCloses, errVars
    <2> QED BY <1>1, <1>2, <2>1, <2>2 DEF TypeOK
  <1>6. ClosedAfterReturn' /\ ErrClosedLast'
    <2>1. CASE SourceCheck \/ (\E i \in Index : FifoForwards(branch[i]))
      BY <2>1, Roles DEF ClosedAfterReturn, ErrClosedLast, ErrClosed, RunReturned,
         TypeOK, SourceCheck, FifoForwards
    <2>2. CASE Closes
      BY <2>2, Roles DEF ClosedAfterReturn, ErrClosedLast, ErrClosed, RunReturned,
         TypeOK, Closes, CloseOutput, goVars
    <2>3. CASE CloserStep \/ MainStep \/ Expire
      BY <2>3, Roles DEF ClosedAfterReturn, ErrClosedLast, ErrClosed, RunReturned,
         CloserStep, CloseErrs, CloserCancels, MainStep, CollectError, CancelOnError,
         Return, Expire, goVars
    <2>4. CASE LeadCloses
      BY <2>4, Roles DEF ClosedAfterReturn, ErrClosedLast, ErrClosed, RunReturned,
         TypeOK, LeadCloses
    <2> QED BY <2>1, <2>2, <2>3, <2>4
  <1>7. Accounts'
    <2>1. CASE SourceCheck
      <3>1. (errCh' > 0 /\ failed') \/ UNCHANGED <<errCh, failed>>
        BY <2>1, EmitFills DEF SourceCheck, errVars
      <3> QED BY <2>1, <3>1 DEF SourceCheck, Accounts, mainVars, ctxVars
    <2>2. CASE CloserStep \/ MainStep \/ Expire
      BY <2>2, StagesAssumption DEF Accounts, CloserStep, CloseErrs, CloserCancels,
         MainStep, CollectError, CancelOnError, Return, Expire, errVars, mainVars,
         ctxVars, TypeOK, ErrCap, ErrClosed
    <2>3. CASE (\E i \in Index : FifoForwards(branch[i])) \/ Closes \/ LeadCloses
      BY <2>3 DEF FifoForwards, Closes, CloseOutput, LeadCloses, Accounts, errVars,
         mainVars, ctxVars
    <2> QED BY <2>1, <2>2, <2>3
  <1> QED BY <1>3, <1>4, <1>5, <1>6, <1>7 DEF Copies

\* A goroutine lets go of its payload, if it has one: it returns, or receives
\* the next one after it marked this one.
LEMMA PutDownKeepsIInv ==
  ASSUME IInv, NEW g \in Goroutine, UNCHANGED next,
         pc[g] # "done", NEW l \in {"recv", "close", "done"},
         pc' = [pc EXCEPT ![g] = l], held' = [held EXCEPT ![g] = 0],
         \/ marked' = marked
         \/ /\ marked' = marked \cup {held[g]}
            /\ pc[g] = "process" /\ (g = Sink \/ \E i \in Index : g = branch[i]),
         \/ sunk' = sunk
         \/ sunk' = Append(sunk, held[g]) /\ g = Sink /\ pc[g] = "process",
         \/ held[g] = 0
         \/ marked' = marked \cup {held[g]} /\ g \notin {Source, Lead}
         \/ failed' \/ expired' \/ closerPc' # "wait",
         Places', errCh' \in 0..ErrCap, Accounts', failed => failed',
         UNCHANGED <<closed, produced, mainVars, closerPc, ctxVars>>
  PROVE  IInv'
  <1> USE DEF IInv, ctxVars
  <1>1. /\ \A h \in Goroutine \ {g} : pc'[h] = pc[h] /\ held'[h] = held[h]
        /\ pc'[g] = l /\ held'[g] = 0
    BY DEF TypeOK
  <1>2. /\ HoldsWhileBusy' /\ Copies' /\ EveryBranchGetsEveryPayload'
        /\ marked' \subseteq 1..(NumPayloads * NumBranches)
    BY <1>1, PutDown
  <1>3. TypeOK'
    BY <1>2, Bases DEF TypeOK
  <1>4. ClosedAfterReturn' /\ ErrClosedLast'
    BY <1>1, Roles DEF ClosedAfterReturn, ErrClosedLast, ErrClosed, RunReturned
  <1> QED BY <1>2, <1>3, <1>4 DEF Copies

\* Until the closer cancels it, the context is done only after a failure or
\* when the caller's context ended.
LEMMA CtxDoneForCause ==
  ASSUME IInv, CtxIsDone
  PROVE  failed \/ expired \/ closerPc # "wait"
  BY DEF IInv, CtxIsDone, Accounts

\* A goroutine returns, or Lead leaves its loop, without holding a payload or
\* because the context is done.
LEMMA LeavingKeepsIInv ==
  ASSUME IInv, UNCHANGED next,
         \/ SourceEnds \/ CtxDone(Source) \/ CtxDone(Sink)
         \/ InputClosed(Sink, NumStages) \/ LeadCtxDone
         \/ \E i \in Index : CtxDone(branch[i]) \/ InputClosed(branch[i], Inner(i))
  PROVE  IInv'
  <1> USE DEF IInv
  <1> DEFINE Leaving(g, l) ==
        /\ g \in {Source, Sink, Lead} \/ \E i \in Index : g = branch[i]
        /\ pc[g] # "done"
        /\ pc' = [pc EXCEPT ![g] = l] /\ held' = [held EXCEPT ![g] = 0]
        /\ held[g] = 0 \/ CtxIsDone
        /\ l = IF g = Lead THEN "close" ELSE "done"
  <1>1. \E g \in Goroutine, l \in {"close", "done"} : Leaving(g, l)
    <2>1. CASE SourceEnds \/ CtxDone(Source)
      <3>1. Leaving(Source, "done")
        BY <2>1, Roles DEF SourceEnds, CtxDone, Leave, HoldsWhileBusy
      <3> QED BY <3>1, Roles
    <2>2. CASE CtxDone(Sink) \/ InputClosed(Sink, NumStages)
      <3>1. Leaving(Sink, "done")
        BY <2>2, Roles DEF CtxDone, InputClosed, Leave, HoldsWhileBusy
      <3> QED BY <3>1, Roles
    <2>3. CASE LeadCtxDone
      <3>1. Leaving(Lead, "close")
        BY <2>3, Roles DEF LeadCtxDone
      <3> QED BY <3>1, Roles
    <2>4. ASSUME NEW i \in Index, CtxDone(branch[i]) \/ InputClosed(branch[i], Inner(i))
          PROVE  \E g \in Goroutine, l \in {"close", "done"} : Leaving(g, l)
      <3>1. Leaving(branch[i], "done")
        BY <2>4, Roles DEF CtxDone, InputClosed, Leave, HoldsWhileBusy
      <3> QED BY <3>1, Roles
    <2> QED BY <2>1, <2>2, <2>3, <2>4
  <1>2. PICK g \in Goroutine, l \in {"close", "done"} : Leaving(g, l)
    BY <1>1
  <1>3. UNCHANGED <<closed, produced, marked, sunk, errCh, failed, err, mainPc,
                    closerPc, cancelled, expired>>
    BY DEF SourceEnds, CtxDone, InputClosed, LeadCtxDone, sourceVars, sinkVars,
           errVars, mainVars, ctxVars
  <1>4. Places'
    BY <1>2, <1>3, Roles DEF Places, TypeOK
  <1>5. Accounts'
    BY <1>3 DEF Accounts
  <1> QED
    BY <1>2, <1>3, <1>4, <1>5, PutDownKeepsIInv, CtxDoneForCause
    DEF mainVars, ctxVars, TypeOK

\* The sink, or the processor of a branch, ends its work on a copy.
LEMMA ProcessedKeepsIInv ==
  ASSUME IInv, UNCHANGED next,
         \/ SinkConsumes \/ SinkFails
         \/ \E i \in Index : FifoFails(branch[i]) \/ FifoDrops(branch[i])
  PROVE  IInv'
  <1> USE DEF IInv
  <1>1. ASSUME SinkConsumes PROVE IInv'
    <2> USE <1>1 DEF SinkConsumes, sourceVars, errVars, mainVars, ctxVars
    <2>1. Places' /\ Accounts'
      BY Roles DEF Places, TypeOK, Accounts
    <2> QED BY <2>1, PutDownKeepsIInv, Roles DEF TypeOK
  <1>2. ASSUME SinkFails PROVE IInv'
    <2> USE <1>2 DEF SinkFails, Leave, sourceVars, mainVars, ctxVars
    <2>1. errCh' \in 0..ErrCap /\ errCh' > 0
      BY EmitFills
    <2>2. Places' /\ Accounts'
      BY <2>1, Roles DEF Places, TypeOK, Accounts
    <2> QED BY <2>1, <2>2, PutDownKeepsIInv, Roles DEF TypeOK
  <1>3. ASSUME NEW i \in Index, FifoFails(branch[i]) PROVE IInv'
    <2> USE <1>3 DEF FifoFails, Leave, sourceVars, sinkVars, mainVars, ctxVars
    <2>1. errCh' \in 0..ErrCap /\ errCh' > 0
      BY EmitFills
    <2>2. Places' /\ Accounts'
      BY <2>1, Roles DEF Places, TypeOK, Accounts
    <2> QED BY <2>1, <2>2, PutDownKeepsIInv, Roles DEF TypeOK
  <1>4. ASSUME NEW i \in Index, FifoDrops(branch[i]) PROVE IInv'
    <2> USE <1>4 DEF FifoDrops, sourceVars, errVars, mainVars, ctxVars
    <2>1. Places' /\ Accounts'
      BY Roles DEF Places, TypeOK, Accounts
    <2> QED BY <2>1, PutDownKeepsIInv, Roles DEF TypeOK
  <1> QED BY <1>1, <1>2, <1>3, <1>4

\* A branch hands its copy to the sink.
LEMMA BranchSendsKeepsIInv ==
  ASSUME IInv, NEW i \in Index, BranchSends(i), UNCHANGED next
  PROVE  IInv'
  <1> USE DEF IInv
  <1> DEFINE q == held[branch[i]]
  <1>1. /\ pc[branch[i]] = "send" /\ pc[Sink] = "recv"
        /\ pc'[branch[i]] = "recv" /\ pc'[Sink] = "process"
        /\ held'[branch[i]] = 0 /\ held'[Sink] = q
        /\ \A g \in Goroutine \ {branch[i], Sink} : pc'[g] = pc[g] /\ held'[g] = held[g]
    BY Roles DEF BranchSends, Transfer, TypeOK
  <1>2. UNCHANGED <<closed, produced, marked, sunk, errCh, failed, err, mainPc,
                    closerPc, cancelled, expired>>
    BY DEF BranchSends, Transfer, sourceVars, sinkVars, errVars, mainVars, ctxVars
  <1>3. TypeOK'
    <2>1. pc' \in [Goroutine -> {"next", "send", "check", "recv", "fan", "close",
                                "process", "done"}]
      BY DEF BranchSends, Transfer, TypeOK
    <2>2. held' \in [Goroutine -> 0..(NumPayloads * NumBranches)]
      <3>1. 0 \in 0..(NumPayloads * NumBranches) /\ q \in 0..(NumPayloads * NumBranches)
        BY Bases, Roles DEF TypeOK
      <3> QED BY <3>1 DEF BranchSends, Transfer, TypeOK
    <2> QED BY <1>2, <2>1, <2>2 DEF TypeOK
  <1>4. Places' /\ HoldsWhileBusy'
    BY <1>1, <1>2, Roles DEF Places, HoldsWhileBusy
  <1>5. Sunk' = Sunk /\ LastTaken' = LastTaken /\ \A j \in Index : LastGiven(j)' = LastGiven(j)
    BY <1>1, <1>2, Roles DEF Sunk, LastTaken, LastGiven
  <1>6. q \in Nat /\ q # 0 /\ CopyFor(q, i) /\ \A j \in Index : CopyFor(q, j) => j = i
    <2>1. q \in Nat /\ q # 0 /\ CopyFor(q, i)
      BY <1>1, Limits, Roles DEF HoldsWhileBusy, RightCopies
    <2> QED BY <2>1, CopyForBranch
  <1>7. RightCopies'
    BY <1>1, <1>2, <1>5, <1>6, Roles DEF RightCopies, CopyFor, Base
  <1>8. InOrder'
    <2> SUFFICES ASSUME NEW j \in Index
                 PROVE  /\ held'[branch[j]] <= LastGiven(j) \/ held'[branch[j]] = 0
                        /\ \A c \in marked \cup Sunk \cup {q} : CopyFor(c, j) =>
                             /\ c <= LastGiven(j)
                             /\ held'[branch[j]] # 0 => c < held'[branch[j]]
                        /\ CopyFor(q, j) => \A c \in Sunk : CopyFor(c, j) => c < q
      BY <1>1, <1>2, <1>5 DEF InOrder, CopyFor, Base
    <2>1. held'[branch[j]] = held[branch[j]] \/ (j = i /\ held'[branch[j]] = 0)
      BY <1>1, Roles
    <2>2. q <= LastGiven(i)
      BY <1>6 DEF InOrder
    <2> QED BY <1>1, <1>6, <2>1, <2>2, Roles DEF InOrder
  <1>9. SunkInOrder'
    BY <1>2 DEF SunkInOrder, CopyFor, Base
  <1>10. SinkUnmarked'
    <2>1. q \notin marked
      BY <1>6 DEF InOrder
    <2> QED BY <1>1, <1>2, <2>1 DEF SinkUnmarked
  <1>11. ClosedAfterReturn' /\ ErrClosedLast' /\ Accounts'
    BY <1>1, <1>2, Roles
    DEF ClosedAfterReturn, ErrClosedLast, ErrClosed, Accounts, RunReturned
  <1>12. EveryBranchGetsEveryPayload'
    <2>1. \A g \in Goroutine : held[g] # 0 =>
            held'[g] = held[g] \/ (g = branch[i] /\ held'[Sink] = held[g])
      BY <1>1, Roles DEF HoldsWhileBusy
    <2>2. \A p \in 1..produced : \A j \in Index : p # 0 /\ Copy(p, j) # 0
      BY Limits, Bases
    <2> QED BY <1>1, <1>2, <2>1, <2>2, Roles DEF EveryBranchGetsEveryPayload, Copy
  <1> QED BY <1>3, <1>4, <1>7, <1>8, <1>9, <1>10, <1>11, <1>12

\* Lead takes the last payload; no branch gets it yet.
LEMMA LeadReceivesKeepsIInv ==
  ASSUME IInv, LeadReceives
  PROVE  IInv'
  <1> USE DEF IInv
  <1>1. /\ pc[Source] = "send" /\ pc[Lead] = "recv" /\ held[Lead] = 0
        /\ held[Source] = produced
        /\ pc'[Source] = "check" /\ pc'[Lead] = "fan"
        /\ held'[Source] = 0 /\ held'[Lead] = produced
        /\ \A g \in Goroutine \ {Source, Lead} : pc'[g] = pc[g] /\ held'[g] = held[g]
        /\ next' = NumBranches - 1
    <2>1. pc[Source] = "send" /\ pc[Lead] = "recv"
      BY DEF LeadReceives, Transfer
    <2>2. held[Lead] = 0 /\ held[Source] = produced
      BY <2>1, Roles DEF HoldsWhileBusy, RightCopies
    <2> QED BY <2>1, <2>2, Roles DEF LeadReceives, Transfer, TypeOK
  <1>2. UNCHANGED <<closed, produced, marked, sunk, errCh, failed, err, mainPc,
                    closerPc, cancelled, expired>>
    BY DEF LeadReceives, Transfer, sourceVars, sinkVars, errVars, mainVars, ctxVars
  <1>3. TypeOK'
    <2>1. pc' \in [Goroutine -> {"next", "send", "check", "recv", "fan", "close",
                                "process", "done"}]
      BY DEF LeadReceives, Transfer, TypeOK
    <2>2. held' \in [Goroutine -> 0..(NumPayloads * NumBranches)]
      <3>1. 0 \in 0..(NumPayloads * NumBranches)
            /\ held[Source] \in 0..(NumPayloads * NumBranches)
        BY Bases, Roles DEF TypeOK
      <3> QED BY <3>1 DEF LeadReceives, Transfer, TypeOK
    <2> QED BY <1>1, <1>2, <2>1, <2>2, Bases DEF TypeOK
  <1>4. Places' /\ HoldsWhileBusy'
    BY <1>1, <1>2, Roles, Limits DEF Places, HoldsWhileBusy
  <1>5. Sunk' = Sunk /\ \A j \in Index : LastGiven(j)' = LastGiven(j)
    <2>1. LastTaken = produced - 1 /\ LastTaken' = produced
      BY <1>1, <1>2 DEF LastTaken
    <2>2. \A j \in Index : j <= NumBranches - 1
      BY BroadcastAssumption DEF Index
    <2> QED BY <1>1, <1>2, <2>1, <2>2 DEF LastGiven, Sunk
  <1>6. RightCopies'
    BY <1>1, <1>2, <1>5, Roles, Limits DEF RightCopies, CopyFor, Base
  <1>7. InOrder' /\ SunkInOrder' /\ SinkUnmarked'
    BY <1>1, <1>2, <1>5, Roles DEF InOrder, SunkInOrder, SinkUnmarked, CopyFor, Base
  <1>8. ClosedAfterReturn' /\ ErrClosedLast' /\ Accounts'
    BY <1>1, <1>2, Roles
    DEF ClosedAfterReturn, ErrClosedLast, ErrClosed, Accounts, RunReturned
  <1>9. EveryBranchGetsEveryPayload'
    <2>1. \A j \in Index : j <= next'
      BY <1>1, BroadcastAssumption DEF Index
    <2>2. \A p \in 1..produced : \A j \in Index : p # 0 /\ Copy(p, j) # 0
      BY Limits, Bases
    <2>3. \A g \in Goroutine : held[g] # 0 =>
            held'[g] = held[g] \/ (g = Source /\ held'[Lead] = held[g])
      BY <1>1
    <2> QED BY <1>1, <1>2, <2>1, <2>2, <2>3, Roles DEF EveryBranchGetsEveryPayload, Copy
  <1> QED BY <1>3, <1>4, <1>6, <1>7, <1>8, <1>9

\* Lead gives branch i its copy, ahead of everything the branch had before.
LEMMA FanOutKeepsIInv ==
  ASSUME IInv, NEW i \in Index, FanOut(i)
  PROVE  IInv'
  <1> USE DEF IInv
  <1> DEFINE p == held[Lead]
             q == Copy(p, i)
  <1>1. /\ pc[Lead] = "fan" /\ next = i /\ pc[branch[i]] = "recv" /\ held[branch[i]] = 0
        /\ pc'[Lead] = (IF i = 0 THEN "recv" ELSE "fan") /\ pc'[branch[i]] = "process"
        /\ held'[Lead] = (IF i = 0 THEN 0 ELSE p) /\ held'[branch[i]] = q
        /\ \A g \in Goroutine \ {Lead, branch[i]} : pc'[g] = pc[g] /\ held'[g] = held[g]
        /\ next' = (IF i = 0 THEN 0 ELSE i - 1)
    <2>1. held[branch[i]] = 0
      BY Roles DEF FanOut, HoldsWhileBusy
    <2> QED BY <2>1, Roles DEF FanOut, TypeOK
  <1>2. UNCHANGED <<closed, produced, marked, sunk, errCh, failed, err, mainPc,
                    closerPc, cancelled, expired>>
    BY DEF FanOut, sourceVars, sinkVars, errVars, mainVars, ctxVars
  <1>3. p \in 1..NumPayloads /\ p <= LastTaken
    <2>1. p \in Nat /\ p # 0 /\ p <= produced
      BY <1>1, Limits, Roles DEF HoldsWhileBusy, RightCopies
    <2> QED BY <1>1, <2>1, PayloadsAssumption DEF RightCopies, LastTaken
  <1>4. CopyFor(q, i) /\ q \in 1..(NumPayloads * NumBranches)
        /\ \A j \in Index : CopyFor(q, j) => j = i
    <2>1. CopyFor(q, i) /\ q \in Nat
      BY <1>3, Bases, PayloadsAssumption DEF CopyFor
    <2> HIDE DEF q
    <2> QED BY <2>1, CopyForBranch
  <1>5. TypeOK'
    <2>1. pc' \in [Goroutine -> {"next", "send", "check", "recv", "fan", "close",
                                "process", "done"}]
      BY Roles DEF FanOut, TypeOK
    <2>2. held' \in [Goroutine -> 0..(NumPayloads * NumBranches)]
      <3>1. 0 \in 0..(NumPayloads * NumBranches) /\ q \in 0..(NumPayloads * NumBranches)
            /\ p \in 0..(NumPayloads * NumBranches)
        BY <1>4, Bases, Roles DEF TypeOK
      <3> QED BY <3>1, Roles DEF FanOut, TypeOK
    <2>3. next' \in Index
      BY <1>1, BroadcastAssumption DEF Index
    <2> QED BY <1>2, <2>1, <2>2, <2>3 DEF TypeOK
  <1>6. Places' /\ HoldsWhileBusy'
    BY <1>1, <1>2, <1>3, <1>4, Roles DEF Places, HoldsWhileBusy
  <1>7. /\ Sunk' = Sunk
        /\ LastTaken' \in Int /\ LastTaken = p /\ p <= LastTaken'
    <2>1. p <= IF pc[Source] = "send" THEN produced - 1 ELSE produced
      BY DEF RightCopies
    <2> QED BY <1>1, <1>2, <1>3, <2>1, Limits, Roles DEF Sunk, LastTaken
  <1>8. \A j \in Index : LastGiven(j)' \in Int /\ LastGiven(j) <= LastGiven(j)'
    <2> SUFFICES ASSUME NEW j \in Index
                 PROVE  LastGiven(j)' \in Int /\ LastGiven(j) <= LastGiven(j)'
      OBVIOUS
    <2>1. i \in Nat /\ j \in Nat /\ Base(j) \in Nat
          /\ \A n : Copy(n, j) = n + Base(j)
      BY Bases
    <2>2. LastGiven(j) = IF j <= i THEN Base(j) + (p - 1) ELSE Base(j) + p
      BY <1>1, <1>3, <1>7, <2>1 DEF LastGiven
    <2>3. LastGiven(j)' = Copy(IF pc'[Lead] = "fan" /\ j <= next' THEN LastTaken' - 1
                               ELSE LastTaken', j)
      BY DEF LastGiven, Copy
    <2>4. pc'[Lead] = "fan" /\ j <= next' => j <= i /\ LastTaken' - 1 >= p - 1
      BY <1>1, <1>3, <1>7, <2>1
    <2> QED BY <1>3, <1>7, <2>1, <2>2, <2>3, <2>4
  <1>9. LastGiven(i) = q - 1 /\ q <= LastGiven(i)'
    <2>1. i \in Nat /\ Base(i) \in Nat /\ \A n : Copy(n, i) = n + Base(i)
      BY Bases
    <2>2. LastGiven(i) = Copy(p - 1, i)
      BY <1>1, <1>7, <2>1 DEF LastGiven
    <2>3. LastGiven(i)' = Copy(LastTaken', i)
      BY <1>1, <2>1 DEF LastGiven, Copy
    <2> QED BY <1>3, <1>7, <2>1, <2>2, <2>3
  <1>10. RightCopies'
    <2>1. held'[Lead] <= IF pc'[Source] = "send" THEN produced' - 1 ELSE produced'
      BY <1>1, <1>2, Limits, Roles DEF RightCopies
    <2>2. \A j \in Index : held'[branch[j]] # 0 => CopyFor(held'[branch[j]], j)
      BY <1>1, <1>4, Roles DEF RightCopies
    <2> QED BY <1>1, <1>2, <1>7, <2>1, <2>2, Roles DEF RightCopies, CopyFor, Base
  <1> HIDE DEF p, q
  <1>11. InOrder'
    <2> SUFFICES ASSUME NEW j \in Index
                 PROVE  /\ held'[branch[j]] <= LastGiven(j)' \/ held'[branch[j]] = 0
                        /\ \A c \in marked \cup Sunk \cup {held[Sink]} : CopyFor(c, j) =>
                             /\ c <= LastGiven(j)'
                             /\ held'[branch[j]] # 0 => c < held'[branch[j]]
                        /\ CopyFor(held[Sink], j) =>
                             \A c \in Sunk : CopyFor(c, j) => c < held[Sink]
      BY <1>1, <1>2, <1>7, Roles DEF InOrder, CopyFor, Base
    <2>1. \A c \in marked \cup Sunk \cup {held[Sink]} : c \in Nat
      BY Limits, Roles
    <2>2. held[branch[j]] \in Nat
      BY Limits, Roles
    <2>3. CASE j = i
      BY <1>1, <1>4, <1>8, <1>9, <2>1, <2>3 DEF InOrder
    <2>4. CASE j # i
      <3>1. held'[branch[j]] = held[branch[j]]
        BY <1>1, <2>4, Roles
      <3> QED BY <1>8, <2>1, <2>2, <3>1, Limits DEF InOrder
    <2> QED BY <2>3, <2>4
  <1>12. SunkInOrder' /\ SinkUnmarked'
    BY <1>1, <1>2, Roles DEF SunkInOrder, SinkUnmarked, CopyFor, Base
  <1>13. ClosedAfterReturn' /\ ErrClosedLast' /\ Accounts'
    BY <1>1, <1>2, Roles
    DEF ClosedAfterReturn, ErrClosedLast, ErrClosed, Accounts, RunReturned
  <1>14. EveryBranchGetsEveryPayload'
    <2> SUFFICES ASSUME ~failed', ~expired', closerPc' = "wait",
                        NEW n \in 1..produced, NEW j \in Index
                 PROVE  \/ held'[Source] = n
                        \/ held'[Lead] = n /\ j <= next'
                        \/ Copy(n, j) \in marked'
                        \/ \E h \in Goroutine : held'[h] = Copy(n, j)
      BY <1>2 DEF EveryBranchGetsEveryPayload, Copy
    <2>1. \/ held[Source] = n
          \/ p = n /\ j <= i
          \/ Copy(n, j) \in marked
          \/ \E h \in Goroutine : held[h] = Copy(n, j)
      BY <1>1, <1>2 DEF EveryBranchGetsEveryPayload, p
    <2>2. n # 0 /\ Copy(n, j) # 0 /\ i \in Nat /\ j \in Nat
      BY Limits, Bases
    <2>3. CASE held[Source] = n \/ Copy(n, j) \in marked
      BY <1>1, <1>2, <2>3, Roles
    <2>4. CASE p = n /\ j <= i
      <3>1. CASE j = i
        <4>1. held'[branch[i]] = Copy(n, j)
          BY <1>1, <2>4, <3>1 DEF q
        <4> QED BY <4>1, Roles
      <3>2. CASE j # i
        BY <1>1, <2>2, <2>4, <3>2
      <3> QED BY <3>1, <3>2
    <2>5. ASSUME NEW h \in Goroutine, held[h] = Copy(n, j), h # Lead
          PROVE  held'[h] = Copy(n, j)
      BY <1>1, <2>2, <2>5, Roles
    <2>6. CASE p = Copy(n, j)
      <3>1. Copy(n, 0) = n /\ Base(0) = 0
        BY Bases
      <3>2. CASE i # 0
        BY <1>1, <2>6, <3>2, Roles
      <3>3. CASE i = 0
        <4>1. CASE j = 0
          <5>1. held'[branch[i]] = Copy(n, j)
            BY <1>1, <2>6, <3>1, <3>3, <4>1, Bases DEF q
          <5> QED BY <5>1, Roles
        <4>2. CASE j # 0
          <5>1. 0 \in Index /\ 0 < j /\ Base(0) + NumPayloads <= Base(j) /\ Base(j) \in Nat
            BY <2>2, <4>2, Bases
          <5>2. Copy(n, j) = n + Base(j)
            BY Bases
          <5> QED BY <1>3, <2>2, <2>6, <3>1, <5>1, <5>2, Limits, PayloadsAssumption
        <4> QED BY <4>1, <4>2
      <3> QED BY <3>2, <3>3
    <2> QED BY <2>1, <2>3, <2>4, <2>5, <2>6 DEF p
  <1> QED BY <1>5, <1>6, <1>10, <1>11, <1>12, <1>13, <1>14

\* Every step of a goroutine, of the closer and of Process keeps the invariant.
LEMMA NextIInv == IInv /\ [Next]_castVars => IInv'
  <1> SUFFICES ASSUME IInv, [Next]_castVars PROVE IInv'
    OBVIOUS
  <1>1. CASE UNCHANGED castVars
    BY <1>1
    DEF castVars, vars, goVars, sourceVars, sinkVars, errVars, mainVars, ctxVars,
        IInv, TypeOK, Places, HoldsWhileBusy, Base, CopyFor, Sunk, RightCopies,
        LastTaken, LastGiven, Copy, InOrder, SunkInOrder, SinkUnmarked,
        ClosedAfterReturn, RunReturned, ErrClosedLast, ErrClosed, Accounts,
        EveryBranchGetsEveryPayload
  <1>2. CASE CoreStep /\ UNCHANGED next
    <2>1. CASE SourceStep
      BY <1>2, <2>1, SourceYieldsKeepsIInv, MoveKeepsIInv, LeavingKeepsIInv
      DEF SourceStep
    <2>2. CASE SinkStep
      BY <1>2, <2>2, ProcessedKeepsIInv, LeavingKeepsIInv DEF SinkStep
    <2>3. ASSUME NEW i \in Index, BranchStep(i) PROVE IInv'
      BY <1>2, <2>3, ProcessedKeepsIInv, MoveKeepsIInv, LeavingKeepsIInv
      DEF BranchStep
    <2>4. ASSUME NEW i \in Index, BranchSends(i) PROVE IInv'
      BY <1>2, <2>4, BranchSendsKeepsIInv
    <2>5. CASE Closes \/ CloserStep \/ MainStep \/ Expire
      BY <1>2, <2>5, MoveKeepsIInv
    <2> QED BY <1>2, <2>1, <2>2, <2>3, <2>4, <2>5 DEF CoreStep
  <1>3. CASE LeadReceives
    BY <1>3, LeadReceivesKeepsIInv
  <1>4. ASSUME NEW i \in Index, FanOut(i) PROVE IInv'
    BY <1>4, FanOutKeepsIInv
  <1>5. CASE LeadStep
    <2>1. LeadCtxDone \/ LeadCloses => UNCHANGED next
      BY DEF LeadCtxDone, LeadCloses
    <2> QED BY <1>1, <1>5, <2>1, LeavingKeepsIInv, MoveKeepsIInv DEF LeadStep, LeadSpins
  <1> QED BY <1>1, <1>2, <1>3, <1>4, <1>5 DEF Next, Terminated

-----------------------------------------------------------------------------
(* The theorems.                                                           *)

\* The inductive invariant holds in every reachable state.
THEOREM Invariance == Spec => []IInv
  <1> QED BY InitIInv, NextIInv, PTL DEF Spec

\* No two goroutines of a broadcast pipeline ever hold the same copy, none
\* holds one that was marked as processed, and Lead holds the original only
\* until it has sent it out.
THEOREM CopiesAreExclusive == Spec => []Exclusive
  <1>1. IInv => Exclusive
    <2> SUFFICES ASSUME IInv PROVE Exclusive OBVIOUS
    <2> USE DEF IInv
    <2>1. 0 \in Index /\ Base(0) = 0 /\ NumPayloads \in Nat
      BY Bases, PayloadsAssumption
    <2>2. held[Lead] # 0 => /\ CopyFor(held[Lead], 0) /\ LastGiven(0) < held[Lead]
                            /\ held[Lead] = LastTaken
      <3>1. pc[Lead] = "fan" <=> held[Lead] # 0
        BY Roles DEF HoldsWhileBusy, Places
      <3>2. held[Lead] <= produced
        BY Limits, Roles DEF RightCopies
      <3>3. next \in Nat /\ \A n : Copy(n, 0) = n + Base(0)
        BY Bases DEF TypeOK
      <3> QED
        BY <2>1, <3>1, <3>2, <3>3, Limits, Roles
        DEF LastGiven, LastTaken, CopyFor, RightCopies
    <2>3. held[Source] # 0 => /\ CopyFor(held[Source], 0) /\ LastGiven(0) < held[Source]
                              /\ held[Lead] < held[Source]
      <3>1. held[Source] # 0 => pc[Source] = "send" /\ held[Source] = produced
        BY Roles DEF HoldsWhileBusy, Places, RightCopies
      <3>2. pc[Source] = "send" => LastTaken < produced
        BY Limits, Roles DEF LastTaken, RightCopies
      <3>3. LastGiven(0) <= LastTaken /\ LastGiven(0) \in Int
        BY <2>1, Limits
      <3> QED
        BY <2>1, <3>1, <3>2, <3>3, Limits, Roles DEF CopyFor, RightCopies
    <2>4. \A q \in marked \cup {held[Sink], held[branch[0]]} :
            q # 0 /\ CopyFor(q, 0) => q <= LastGiven(0)
      BY <2>1 DEF InOrder
    <2>5. \A g \in Goroutine : held[g] # 0 =>
            g \in {Source, Sink, Lead} \/ \E i \in Index : g = branch[i]
      BY DEF HoldsWhileBusy, Places
    <2>6. \A i \in Index : held[branch[i]] # 0 =>
            /\ CopyFor(held[branch[i]], i) /\ held[branch[i]] \notin marked
            /\ held[branch[i]] # held[Sink]
      BY Limits, Roles DEF RightCopies, InOrder
    <2>7. ASSUME NEW i \in Index, NEW n \in Nat, CopyFor(n, i), CopyFor(n, 0)
          PROVE  i = 0
      BY <2>1, <2>7, CopyForBranch
    <2>8. ASSUME NEW g \in Goroutine, held[g] # 0 PROVE held[g] \notin marked
      <3>1. CASE g \in {Source, Lead}
        BY <2>2, <2>3, <2>4, <2>8, <3>1, Limits, <2>1, Roles
      <3> QED BY <2>5, <2>6, <2>8, <3>1 DEF SinkUnmarked
    <2>9. ASSUME NEW g \in Goroutine, NEW h \in Goroutine, held[g] # 0,
                 held[h] = held[g], g \in {Source, Lead}, h \notin {Source, Lead}
          PROVE  FALSE
      <3>1. CopyFor(held[g], 0) /\ LastGiven(0) < held[g] /\ held[g] \in Nat
            /\ LastGiven(0) \in Int
        BY <2>1, <2>2, <2>3, <2>9, Limits
      <3>2. CASE h = Sink
        BY <2>4, <2>9, <3>1, <3>2
      <3>3. ASSUME NEW i \in Index, h = branch[i] PROVE FALSE
        <4>1. i = 0
          BY <2>6, <2>7, <2>9, <3>1, <3>3
        <4> QED BY <2>4, <2>9, <3>1, <3>3, <4>1
      <3> QED BY <2>5, <2>9, <3>2, <3>3
    <2>10. ASSUME NEW g \in Goroutine, NEW h \in Goroutine, held[g] # 0,
                  held[h] = held[g], g \notin {Source, Lead}, h \notin {Source, Lead}
           PROVE  h = g
      <3>1. \A i, j \in Index : g = branch[i] /\ h = branch[j] => i = j
        <4> SUFFICES ASSUME NEW i \in Index, NEW j \in Index, g = branch[i], h = branch[j]
                     PROVE  i = j
          OBVIOUS
        <4>1. CopyFor(held[g], i) /\ CopyFor(held[g], j) /\ held[g] \in Nat
          BY <2>6, <2>10, Limits
        <4> QED BY <4>1, CopyForBranch
      <3> QED BY <2>5, <2>6, <2>10, <3>1
    <2>11. ASSUME NEW g \in Goroutine, NEW h \in Goroutine, held[g] # 0,
                  held[h] = held[g], g \in {Source, Lead}, h \in {Source, Lead}
           PROVE  h = g
      BY <2>3, <2>11, Limits
    <2> QED BY <2>8, <2>9, <2>10, <2>11 DEF Exclusive
  <1> QED BY <1>1, Invariance, PTL

\* No goroutine sends on a channel that is closed, and none can report an
\* error once the closer has closed errCh.
THEOREM ChannelsAreClosedLast == Spec => []ChannelDiscipline
  <1>1. IInv => ChannelDiscipline
    <2> SUFFICES ASSUME IInv PROVE ChannelDiscipline OBVIOUS
    <2>1. ErrClosed => \A g \in Goroutine : pc[g] \notin {"process", "check"}
      <3> SUFFICES ASSUME ErrClosed, NEW g \in Goroutine
                   PROVE  pc[g] \notin {"process", "check"}
        OBVIOUS
      <3> QED BY AllDone DEF IInv, Places
    <2> QED
      BY <2>1, Roles DEF ChannelDiscipline, IInv, ClosedAfterReturn, RunReturned
  <1> QED BY <1>1, Invariance, PTL

\* While nothing failed and the context lives, no copy that Lead made, or has
\* still to make, is lost.
THEOREM NoCopyIsLost == Spec => []EveryBranchGetsEveryPayload
  <1>1. IInv => EveryBranchGetsEveryPayload
    BY DEF IInv
  <1> QED BY <1>1, Invariance, PTL

\* The copies that one branch works on reach the sink in source order.
THEOREM BranchesKeepOrder == Spec => []BranchOrder
  <1>1. IInv => BranchOrder
    <2> SUFFICES ASSUME IInv, NEW j \in DOMAIN sunk, NEW k \in DOMAIN sunk, j < k,
                        BranchOf(sunk[j]) = BranchOf(sunk[k])
                 PROVE  sunk[j] < sunk[k]
      BY DEF BranchOrder
    <2>1. sunk[j] \in Sunk /\ sunk[k] \in Sunk
      BY DEF Sunk
    <2>2. PICK i \in Index : CopyFor(sunk[j], i)
      BY <2>1 DEF IInv, RightCopies
    <2>3. PICK l \in Index : CopyFor(sunk[k], l)
      BY <2>1 DEF IInv, RightCopies
    <2>4. sunk[j] \in Nat /\ sunk[k] \in Nat
      BY <2>1, Limits
    <2>5. BranchOf(sunk[j]) = i
      BY <2>2, <2>4, CopyForBranch
    <2>6. BranchOf(sunk[k]) = l
      BY <2>3, <2>4, CopyForBranch
    <2> QED BY <2>2, <2>3, <2>5, <2>6 DEF IInv, SunkInOrder
  <1> QED BY <1>1, Invariance, PTL
=============================================================================
