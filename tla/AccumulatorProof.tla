-------------------------- MODULE AccumulatorProof --------------------------
(***************************************************************************)
(* What the accumulators guarantee for any number of goroutines, calls and *)
(* machine words: whatever the interleaving of the compare-and-swap loops, *)
(* the value is the sum of the changes, and with one goroutine calling Set *)
(* the deltas add up to what was aggregated.                               *)
(***************************************************************************)
EXTENDS Accumulator, TLAPS

\* Arithmetic in machine words stays in the word.
LEMMA PlusIsAWord ==
  ASSUME NEW x \in Word, NEW y \in Word
  PROVE  Plus(x, y) \in Word
BY WordAssumption DEF Plus, Word

\* A difference of machine words is one.
LEMMA MinusIsAWord ==
  ASSUME NEW x \in Word, NEW y \in Word
  PROVE  Minus(x, y) \in Word
BY WordAssumption DEF Minus, Word

\* What was subtracted and is added again gives the same word, also when the
\* difference wrapped around.
LEMMA PlusMinus ==
  ASSUME NEW x \in Word, NEW y \in Word
  PROVE  Plus(x, Minus(y, x)) = y
BY WordAssumption DEF Plus, Minus, Word

\* Sums of machine words may be regrouped.
LEMMA PlusRegroups ==
  ASSUME NEW x \in Word, NEW y \in Word, NEW z \in Word
  PROVE  Plus(Plus(x, y), z) = Plus(x, Plus(y, z))
BY WordAssumption DEF Plus, Word

\* Two differences that are equal stay equal when the same amount is added to
\* what each was taken from.
LEMMA MinusOfMore ==
  ASSUME NEW c \in Word, NEW p \in Word, NEW a \in Word, NEW r \in Word,
         NEW v \in Word, Minus(c, p) = Minus(a, r)
  PROVE  Minus(Plus(c, v), p) = Minus(Plus(a, v), r)
BY WordAssumption DEF Plus, Minus, Word

\* Two differences that are equal stay equal when p becomes q on one side and
\* the other side loses what p moved by.
LEMMA MinusFromElsewhere ==
  ASSUME NEW c \in Word, NEW p \in Word, NEW a \in Word, NEW r \in Word,
         NEW q \in Word, Minus(c, p) = Minus(a, r)
  PROVE  Minus(c, q) = Minus(a, Plus(r, Minus(q, p)))
BY WordAssumption DEF Plus, Minus, Word

\* Taking away again what another amount was added to.
LEMMA MinusOfPlus ==
  ASSUME NEW x \in Word, NEW y \in Word
  PROVE  Minus(Plus(x, y), x) = Minus(y, 0)
BY WordAssumption DEF Plus, Minus, Word

\* The inductive invariant of the sums.  Nothing need be known of the locals but
\* their types: a swap compares them with the field before it changes it.
IInv == TypeOK /\ NoLostUpdate

\* The sum begins at zero, and nothing was added.
LEMMA InitIInv == Init => IInv
<1> SUFFICES ASSUME Init PROVE IInv
  OBVIOUS
<1>1. 0 \in Word
  BY WordAssumption DEF Word
<1> QED
  BY <1>1, CallsAssumption DEF Init, IInv, TypeOK, NoLostUpdate

\* A call counts against the bound.
LEMMA CallsInRange ==
  ASSUME IInv, calls < MaxCalls, calls' = calls + 1
  PROVE  calls' \in 0..MaxCalls
BY CallsAssumption DEF IInv, TypeOK

\* Aggregate adds to curSum what it adds to the total, or retries.
LEMMA AggregateIInv ==
  ASSUME IInv, NEW t \in Thread, Aggregate(t), UNCHANGED isFloat
  PROVE  IInv'
<1> USE DEF IInv, TypeOK, NoLostUpdate, shared, locals, totals, Goto, Call
<1>1. ASSUME NEW v \in Amount, AddInt64(t, v)
      PROVE  IInv'
  <2>1. v \in Word
    BY WordAssumption
  <2>2. calls' \in 0..MaxCalls
    BY <1>1, CallsInRange DEF AddInt64
  <2>3. Plus(curSum, v) \in Word /\ Plus(added, v) \in Word
        /\ Plus(aggregated, v) \in Word
    BY <2>1, PlusIsAWord
  <2> QED
    BY <1>1, <2>2, <2>3 DEF AddInt64, Adds
<1>2. ASSUME NEW v \in Amount, AggregateLoads(t, v)
      PROVE  IInv'
  <2>1. v \in Word
    BY WordAssumption
  <2>2. calls' \in 0..MaxCalls
    BY <1>2, CallsInRange DEF AggregateLoads
  <2> QED
    BY <1>2, <2>1, <2>2 DEF AggregateLoads
<1>3. CASE AggregateSwaps(t)
  <2>1. /\ Plus(cur[t], arg[t]) \in Word /\ Plus(added, arg[t]) \in Word
        /\ Plus(aggregated, arg[t]) \in Word
    BY PlusIsAWord
  <2> QED
    BY <1>3, <2>1 DEF AggregateSwaps, Adds
<1>4. CASE AggregateRetries(t)
  BY <1>4 DEF AggregateRetries
<1> QED
  BY <1>1, <1>2, <1>3, <1>4 DEF Aggregate

\* Delta leaves the sum alone.
LEMMA DeltaIInv ==
  ASSUME IInv, NEW t \in Thread, Delta(t), UNCHANGED isFloat
  PROVE  IInv'
<1> USE DEF IInv, TypeOK, NoLostUpdate, shared, locals, totals, Goto, Call
<1>1. CASE DeltaLoadsCur(t)
  <2>1. calls' \in 0..MaxCalls
    BY <1>1, CallsInRange DEF DeltaLoadsCur
  <2> QED
    BY <1>1, <2>1 DEF DeltaLoadsCur
<1>2. CASE DeltaLoadsPrev(t)
  BY <1>2 DEF DeltaLoadsPrev
<1>3. CASE DeltaSwaps(t)
  <2>1. Plus(returned, Minus(cur[t], prev[t])) \in Word
    BY MinusIsAWord, PlusIsAWord
  <2> QED
    BY <1>3, <2>1 DEF DeltaSwaps
<1>4. CASE DeltaRetries(t)
  BY <1>4 DEF DeltaRetries
<1> QED
  BY <1>1, <1>2, <1>3, <1>4 DEF Delta

\* Set counts what its first swap changes.
LEMMA SetIInv ==
  ASSUME IInv, NEW t \in Thread, Set(t), UNCHANGED isFloat
  PROVE  IInv'
<1> USE DEF IInv, TypeOK, NoLostUpdate, shared, locals, totals, Goto, Call
<1>1. ASSUME NEW v \in SetValue, SetLoads(t, v)
      PROVE  IInv'
  <2>1. v \in Word
    BY WordAssumption
  <2>2. calls' \in 0..MaxCalls
    BY <1>1, CallsInRange DEF SetLoads
  <2> QED
    BY <1>1, <2>1, <2>2 DEF SetLoads
<1>2. CASE SetLoadsPrev(t)
  BY <1>2 DEF SetLoadsPrev
<1>3. CASE SetSwapsCur(t)
  <2>1. cur[t] \in Word /\ arg[t] \in Word /\ 0 \in Word
    BY WordAssumption DEF Word
  <2>2. Plus(cur[t], Minus(arg[t], cur[t])) = arg[t]
    BY <2>1, PlusMinus
  <2> QED
    BY <1>3, <2>1, <2>2 DEF SetSwapsCur
<1>4. CASE SetReturns(t)
  <2>1. 0 \in Word
    BY WordAssumption DEF Word
  <2> QED
    BY <1>4, <2>1 DEF SetReturns, SwapPrev
<1>5. CASE SetRetries(t)
  BY <1>5 DEF SetRetries, SwapPrev
<1> QED
  BY <1>1, <1>2, <1>3, <1>4, <1>5 DEF Set

\* Every step of every goroutine keeps the invariant.
LEMMA NextIInv == IInv /\ [Next]_vars => IInv'
<1> SUFFICES ASSUME IInv, [Next]_vars PROVE IInv'
  OBVIOUS
<1>1. ASSUME NEW t \in Thread, Step(t)
      PROVE  IInv'
  BY <1>1, AggregateIInv, DeltaIInv, SetIInv DEF Step
<1>2. CASE UNCHANGED vars
  BY <1>2 DEF vars, shared, locals, totals, IInv, TypeOK, NoLostUpdate
<1> QED
  BY <1>1, <1>2 DEF Next, Terminated

\* The sum is what the calls made of it, in every reachable state.
THEOREM Invariance == Spec => []IInv
BY InitIInv, NextIInv, PTL DEF Spec

\* No Aggregate is lost or counted twice, and no Set undoes one it did not see,
\* with any number of goroutines in any interleaving.
THEOREM NoUpdateIsLost == Spec => []NoLostUpdate
<1>1. IInv => NoLostUpdate
  BY DEF IInv
<1> QED
  BY <1>1, Invariance, PTL

-----------------------------------------------------------------------------
(* What Delta returns, while one goroutine at most calls Set.              *)

OneSetter == \A s, t \in Setter : s = t

\* Only a setter is in Set, and once its first swap succeeded the sum is what it
\* set and what was aggregated since.
SetIsHalfway ==
  /\ \A t \in Thread : InSet(t) => t \in Setter
  /\ \A t \in Setter :
       pc[t] = "setBoth" /\ swappedCur[t] => curSum = Plus(arg[t], aggregated)

\* The inductive invariant of the deltas.  DeltasAddUp alone is not kept by the
\* return of Set: it says nothing while the Set is under way.
DInv == IInv /\ SetIsHalfway /\ DeltasAddUp

\* Nothing was aggregated and nothing returned.
LEMMA InitDInv == Init => DInv
BY InitIInv, SetterAssumption
   DEF Init, DInv, SetIsHalfway, DeltasAddUp, InSet, Minus

\* An Aggregate raises the sum and what was aggregated alike.
LEMMA AddsDInv ==
  ASSUME DInv, NEW t \in Thread, NEW v \in Word, ~InSet(t),
         curSum' = Plus(curSum, v), Adds(v), UNCHANGED <<prevSum, arg, swappedCur, returned>>,
         pc' = [pc EXCEPT ![t] = "idle"]
  PROVE  SetIsHalfway' /\ DeltasAddUp'
<1> USE DEF DInv, IInv, TypeOK
<1>1. \A s \in Thread : InSet(s)' <=> InSet(s)
  BY DEF InSet
<1>2. \A s \in Setter : s \in Thread /\ arg[s] \in Word
  BY SetterAssumption
<1>3. ASSUME NEW s \in Setter, pc'[s] = "setBoth", swappedCur'[s]
      PROVE  curSum' = Plus(arg'[s], aggregated')
  <2>1. curSum = Plus(arg[s], aggregated)
    BY <1>2, <1>3 DEF SetIsHalfway, InSet
  <2>2. Plus(Plus(arg[s], aggregated), v) = Plus(arg[s], Plus(aggregated, v))
    BY <1>2, PlusRegroups
  <2> QED
    BY <2>1, <2>2 DEF Adds
<1>4. SetIsHalfway'
  BY <1>1, <1>3 DEF SetIsHalfway
<1>5. ASSUME Minus(curSum, prevSum) = Minus(aggregated, returned)
      PROVE  Minus(curSum, prevSum)' = Minus(aggregated, returned)'
  BY <1>5, MinusOfMore DEF Adds, Minus
<1> QED
  BY <1>1, <1>2, <1>4, <1>5 DEF DeltasAddUp

\* Aggregate adds, or only loads.
LEMMA AggregateDInv ==
  ASSUME DInv, NEW t \in Thread, Aggregate(t)
  PROVE  SetIsHalfway' /\ DeltasAddUp'
<1> USE DEF DInv, IInv, TypeOK, shared, locals, totals, Goto, Call
<1>1. ASSUME NEW v \in Amount, AddInt64(t, v)
      PROVE  SetIsHalfway' /\ DeltasAddUp'
  <2>1. v \in Word /\ ~InSet(t)
    BY <1>1, WordAssumption DEF AddInt64, InSet
  <2> QED
    BY <1>1, <2>1, AddsDInv DEF AddInt64
<1>2. ASSUME NEW v \in Amount, AggregateLoads(t, v)
      PROVE  SetIsHalfway' /\ DeltasAddUp'
  BY <1>2, SetterAssumption
     DEF AggregateLoads, SetIsHalfway, DeltasAddUp, InSet, Minus
<1>3. CASE AggregateSwaps(t)
  <2>1. arg[t] \in Word /\ ~InSet(t)
    BY <1>3 DEF AggregateSwaps, InSet
  <2> QED
    BY <1>3, <2>1, AddsDInv DEF AggregateSwaps
<1>4. CASE AggregateRetries(t)
  BY <1>4 DEF AggregateRetries, SetIsHalfway, DeltasAddUp, InSet, Minus
<1> QED
  BY <1>1, <1>2, <1>3, <1>4 DEF Aggregate

\* Delta returns just what prevSum moves by.
LEMMA DeltaDInv ==
  ASSUME DInv, NEW t \in Thread, Delta(t)
  PROVE  SetIsHalfway' /\ DeltasAddUp'
<1> USE DEF DInv, IInv, TypeOK, shared, locals, totals, Goto, Call
<1>1. /\ \A s \in Thread : InSet(s)' <=> InSet(s)
      /\ \A s \in Setter : pc'[s] = "setBoth" <=> pc[s] = "setBoth"
      /\ UNCHANGED <<curSum, arg, swappedCur, aggregated>>
  BY SetterAssumption
     DEF Delta, DeltaLoadsCur, DeltaLoadsPrev, DeltaSwaps, DeltaRetries, InSet
<1>2. SetIsHalfway'
  BY <1>1 DEF SetIsHalfway
<1>3. ASSUME Minus(curSum, prevSum) = Minus(aggregated, returned)
      PROVE  Minus(curSum, prevSum)' = Minus(aggregated, returned)'
  <2>1. CASE UNCHANGED <<prevSum, returned>>
    BY <1>1, <1>3, <2>1 DEF Minus
  <2>2. CASE DeltaSwaps(t)
    <3>1. cur[t] \in Word
      OBVIOUS
    <3>2. Minus(curSum, cur[t])
            = Minus(aggregated, Plus(returned, Minus(cur[t], prevSum)))
      BY <1>3, <3>1, MinusFromElsewhere
    <3> QED
      BY <1>1, <2>2, <3>2 DEF DeltaSwaps, Minus
  <2> QED
    BY <2>1, <2>2 DEF Delta, DeltaLoadsCur, DeltaLoadsPrev, DeltaRetries
<1> QED
  BY <1>1, <1>2, <1>3, SetterAssumption DEF DeltasAddUp

\* When Set returns, what is left to be returned is what was aggregated since its
\* first swap; until then it is under way.
LEMMA SetDInv ==
  ASSUME DInv, OneSetter, NEW t \in Thread, Set(t)
  PROVE  SetIsHalfway' /\ DeltasAddUp'
<1> USE DEF DInv, IInv, TypeOK, shared, locals, totals, Goto, Call
<1>1. t \in Setter
  BY DEF Set, SetLoads, SetLoadsPrev, SetSwapsCur, SetReturns, SetRetries,
         SetIsHalfway, InSet
<1>2. \A s \in Setter : s = t
  BY <1>1 DEF OneSetter
<1>3. \A s \in Thread : InSet(s)' => s \in Setter
  BY <1>1 DEF Set, SetLoads, SetLoadsPrev, SetSwapsCur, SetReturns, SetRetries,
              SetIsHalfway, InSet
<1>4. CASE SetReturns(t)
  <2>1. curSum = Plus(arg[t], aggregated) /\ arg[t] \in Word
    BY <1>1, <1>4 DEF SetReturns, SetIsHalfway
  <2>2. Minus(curSum, arg[t]) = Minus(aggregated, 0)
    BY <2>1, MinusOfPlus
  <2>3. Minus(curSum, prevSum)' = Minus(aggregated, returned)'
    BY <1>4, <2>2 DEF SetReturns, SwapPrev, Minus
  <2>4. pc'[t] = "idle"
    BY <1>4 DEF SetReturns
  <2> QED
    BY <1>2, <1>3, <2>3, <2>4 DEF SetIsHalfway, DeltasAddUp
<1>5. CASE SetSwapsCur(t)
  <2>1. InSet(t)'
    BY <1>5 DEF SetSwapsCur, InSet
  <2>2. swappedCur'[t] => curSum' = Plus(arg'[t], aggregated')
    <3>1. arg[t] \in Word
      OBVIOUS
    <3>2. Plus(arg[t], 0) = arg[t]
      BY <3>1, WordAssumption DEF Plus, Word
    <3> QED
      BY <1>5, <3>2 DEF SetSwapsCur
  <2> QED
    BY <1>1, <1>2, <1>3, <2>1, <2>2 DEF SetIsHalfway, DeltasAddUp
<1>6. ASSUME pc'[t] \in {"setPrev", "setCur"}
      PROVE  SetIsHalfway' /\ DeltasAddUp'
  BY <1>1, <1>2, <1>3, <1>6 DEF SetIsHalfway, DeltasAddUp, InSet
<1> QED
  BY <1>4, <1>5, <1>6 DEF Set, SetLoads, SetLoadsPrev, SetRetries

\* Every step keeps the invariant of the deltas.
LEMMA NextDInv == OneSetter /\ DInv /\ [Next]_vars => DInv'
<1> SUFFICES ASSUME OneSetter, DInv, [Next]_vars PROVE DInv'
  OBVIOUS
<1>1. IInv'
  BY NextIInv DEF DInv
<1>2. ASSUME NEW t \in Thread, Step(t)
      PROVE  SetIsHalfway' /\ DeltasAddUp'
  BY <1>2, AggregateDInv, DeltaDInv, SetDInv DEF Step
<1>3. CASE UNCHANGED vars
  <2>1. UNCHANGED <<curSum, prevSum, pc, arg, swappedCur, aggregated, returned>>
    BY <1>3 DEF vars, shared, locals, totals
  <2>2. SetIsHalfway'
    BY <2>1 DEF DInv, SetIsHalfway, InSet
  <2>3. DeltasAddUp'
    BY <2>1 DEF DInv, DeltasAddUp, InSet, Minus
  <2> QED
    BY <1>1, <2>2, <2>3 DEF DInv
<1> QED
  BY <1>1, <1>2, <1>3 DEF Next, Terminated, DInv

\* With one goroutine calling Set, and any number calling Aggregate and Delta in
\* any interleaving, whenever no Set is under way the deltas returned since the
\* last one and the delta still due are together what was aggregated since.
THEOREM DeltasDoAddUp ==
  ASSUME OneSetter
  PROVE  Spec => []DeltasAddUp
<1>1. DInv /\ [Next]_vars => DInv'
  BY NextDInv
<1>2. DInv => DeltasAddUp
  BY DEF DInv
<1> QED
  BY InitDInv, <1>1, <1>2, PTL DEF Spec
=============================================================================
