---------------------------- MODULE Accumulator ----------------------------
(***************************************************************************)
(* IntAccumulator and Float64Accumulator of bspgraph/aggregator, at the    *)
(* level of their atomic loads, additions and compare-and-swaps.  A value  *)
(* is one of Modulus machine words; IntAccumulator wraps around, of        *)
(* Float64Accumulator this leaves out the rounding.                        *)
(***************************************************************************)
EXTENDS Integers

CONSTANTS
  Thread,    \* goroutines that use the accumulator
  Amount,    \* what Aggregate is called with
  SetValue,  \* what Set is called with
  Setter,    \* the goroutines that call Set
  Modulus,   \* how many values a word has
  MaxCalls   \* bound: how many calls are made in all

Word == 0..(Modulus - 1)

ASSUME WordAssumption ==
  /\ Modulus \in Nat \ {0}
  /\ Amount \subseteq Word
  /\ SetValue \subseteq Word
ASSUME CallsAssumption == MaxCalls \in Nat
ASSUME SetterAssumption == Setter \subseteq Thread

VARIABLES
  isFloat,         \* it is a Float64Accumulator, or else an IntAccumulator
  curSum, prevSum, \* the fields of the accumulator
  pc,              \* where each goroutine is in its call
  cur, prev,       \* its locals curSum and prevSum, or oldCur and oldPrev
  arg,             \* its v64
  swappedCur,      \* the local of Set
  calls,           \* bound: how many calls were started
  added,           \* history: the sum of what calls added to curSum
  aggregated,      \* history: the Aggregates since a Set last replaced curSum
  returned         \* history: the deltas returned since a Set last returned

shared == <<curSum, prevSum>>
locals == <<cur, prev, arg, swappedCur>>
totals == <<added, aggregated, returned>>
vars == <<isFloat, shared, pc, locals, calls, totals>>

Init ==
  /\ isFloat \in BOOLEAN
  /\ curSum = 0 /\ prevSum = 0
  /\ pc = [t \in Thread |-> "idle"]
  /\ cur = [t \in Thread |-> 0] /\ prev = [t \in Thread |-> 0]
  /\ arg = [t \in Thread |-> 0]
  /\ swappedCur = [t \in Thread |-> FALSE]
  /\ calls = 0
  /\ added = 0 /\ aggregated = 0 /\ returned = 0

\* x + y and x - y in machine words.
Plus(x, y)  == IF x + y < Modulus THEN x + y ELSE x + y - Modulus
Minus(x, y) == IF x >= y THEN x - y ELSE x - y + Modulus

Goto(t, from, to) ==
  /\ pc[t] = from
  /\ pc' = [pc EXCEPT ![t] = to]

Call(t, to) ==
  /\ calls < MaxCalls
  /\ calls' = calls + 1
  /\ Goto(t, "idle", to)

-----------------------------------------------------------------------------
(* Aggregate.                                                              *)

\* What an Aggregate adds to curSum.
Adds(v) ==
  /\ added'      = Plus(added, v)
  /\ aggregated' = Plus(aggregated, v)

\* IntAccumulator: atomic.AddInt64.
AddInt64(t, v) ==
  /\ ~isFloat
  /\ Call(t, "idle")
  /\ curSum' = Plus(curSum, v)
  /\ Adds(v)
  /\ UNCHANGED <<prevSum, locals, returned>>

\* Float64Accumulator: load, then compare and swap until it succeeds.
AggregateLoads(t, v) ==
  /\ isFloat
  /\ Call(t, "aggregate")
  /\ cur' = [cur EXCEPT ![t] = curSum]
  /\ arg' = [arg EXCEPT ![t] = v]
  /\ UNCHANGED <<shared, prev, swappedCur, totals>>

\* (Mutated: a plain store instead of the compare-and-swap.)
AggregateStores(t) ==
  /\ Goto(t, "aggregate", "idle")
  /\ curSum' = Plus(cur[t], arg[t])
  /\ Adds(arg[t])
  /\ UNCHANGED <<prevSum, locals, calls, returned>>

AggregateSwaps(t) ==
  /\ Goto(t, "aggregate", "idle")
  /\ curSum = cur[t]
  /\ curSum' = Plus(cur[t], arg[t])
  /\ Adds(arg[t])
  /\ UNCHANGED <<prevSum, locals, calls, returned>>

\* (Mutated: without loading the value again.)
AggregateRetriesStale(t) ==
  /\ pc[t] = "aggregate" /\ curSum # cur[t]
  /\ UNCHANGED <<shared, pc, locals, calls, totals>>

AggregateRetries(t) ==
  /\ pc[t] = "aggregate" /\ curSum # cur[t]
  /\ cur' = [cur EXCEPT ![t] = curSum]
  /\ UNCHANGED <<shared, pc, prev, arg, swappedCur, calls, totals>>

(* Delta.                                                                  *)

DeltaLoadsCur(t) ==
  /\ Call(t, "delta")
  /\ cur' = [cur EXCEPT ![t] = curSum]
  /\ UNCHANGED <<shared, prev, arg, swappedCur, totals>>

DeltaLoadsPrev(t) ==
  /\ Goto(t, "delta", "swap")
  /\ prev' = [prev EXCEPT ![t] = prevSum]
  /\ UNCHANGED <<shared, cur, arg, swappedCur, calls, totals>>

\* (Mutated: prevSum is stored, whatever it has become.)
DeltaStores(t) ==
  /\ Goto(t, "swap", "idle")
  /\ prevSum'  = cur[t]
  /\ returned' = Plus(returned, Minus(cur[t], prev[t]))
  /\ UNCHANGED <<curSum, locals, calls, added, aggregated>>

DeltaSwaps(t) ==
  /\ Goto(t, "swap", "idle")
  /\ prevSum = prev[t]
  /\ prevSum'  = cur[t]
  /\ returned' = Plus(returned, Minus(cur[t], prev[t]))
  /\ UNCHANGED <<curSum, locals, calls, added, aggregated>>

DeltaRetries(t) ==
  /\ Goto(t, "swap", "delta")
  /\ prevSum # prev[t]
  /\ cur' = [cur EXCEPT ![t] = curSum]
  /\ UNCHANGED <<shared, prev, arg, swappedCur, calls, totals>>

(* Set.                                                                    *)

\* The plain loads of IntAccumulator are single 64-bit loads, as atomic as those
\* of Float64Accumulator.
SetLoads(t, v) ==
  /\ t \in Setter
  /\ Call(t, "setPrev")
  /\ arg' = [arg EXCEPT ![t] = v]
  /\ cur' = [cur EXCEPT ![t] = curSum]
  /\ UNCHANGED <<shared, prev, swappedCur, totals>>

SetLoadsPrev(t) ==
  /\ Goto(t, "setPrev", "setCur")
  /\ prev' = [prev EXCEPT ![t] = prevSum]
  /\ UNCHANGED <<shared, cur, arg, swappedCur, calls, totals>>

SetSwapsCur(t) ==
  /\ Goto(t, "setCur", "setBoth")
  /\ swappedCur' = [swappedCur EXCEPT ![t] = curSum = cur[t]]
  /\ IF curSum = cur[t]
       THEN /\ curSum'     = arg[t]
            /\ added'      = Plus(added, Minus(arg[t], cur[t]))
            /\ aggregated' = 0
       ELSE UNCHANGED <<curSum, added, aggregated>>
  /\ UNCHANGED <<prevSum, cur, prev, arg, calls, returned>>

\* The second swap, made even if the first one failed.
SwapPrev(t) ==
  /\ prevSum' = IF prevSum = prev[t] THEN arg[t] ELSE prevSum
  /\ UNCHANGED <<curSum, prev, arg, swappedCur, calls, added, aggregated>>

\* (Mutated: it returns although the second swap failed.)
SetReturnsHalfway(t) ==
  /\ swappedCur[t]
  /\ Goto(t, "setBoth", "idle")
  /\ SwapPrev(t)
  /\ returned' = 0
  /\ UNCHANGED cur

SetReturns(t) ==
  /\ swappedCur[t] /\ prevSum = prev[t]
  /\ Goto(t, "setBoth", "idle")
  /\ SwapPrev(t)
  /\ returned' = 0
  /\ UNCHANGED cur

\* Unless both swaps succeeded the loop starts again.
SetRetries(t) ==
  /\ ~(swappedCur[t] /\ prevSum = prev[t])
  /\ Goto(t, "setBoth", "setPrev")
  /\ SwapPrev(t)
  /\ cur' = [cur EXCEPT ![t] = curSum]
  /\ UNCHANGED returned

-----------------------------------------------------------------------------

Aggregate(t) ==
  \/ \E v \in Amount : AddInt64(t, v) \/ AggregateLoads(t, v)
  \/ AggregateSwaps(t)
  \/ AggregateRetries(t)

Delta(t) ==
  \/ DeltaLoadsCur(t)
  \/ DeltaLoadsPrev(t)
  \/ DeltaSwaps(t)
  \/ DeltaRetries(t)

Set(t) ==
  \/ \E v \in SetValue : SetLoads(t, v)
  \/ SetLoadsPrev(t)
  \/ SetSwapsCur(t)
  \/ SetReturns(t)
  \/ SetRetries(t)

Step(t) == (Aggregate(t) \/ Delta(t) \/ Set(t)) /\ UNCHANGED isFloat

Terminated ==
  /\ calls = MaxCalls /\ \A t \in Thread : pc[t] = "idle"
  /\ UNCHANGED vars

Next == (\E t \in Thread : Step(t)) \/ Terminated

Spec == Init /\ [][Next]_vars

\* The goroutines run; a compare-and-swap that fails does so because another
\* goroutine's call came to its end.
FairSpec == Spec /\ \A t \in Thread : WF_vars(Step(t))

-----------------------------------------------------------------------------
(* Properties.                                                             *)

\* Every variable has its type.
TypeOK ==
  /\ isFloat \in BOOLEAN
  /\ curSum \in Word /\ prevSum \in Word
  /\ pc \in [Thread -> {"idle", "aggregate", "delta", "swap", "setPrev",
                        "setCur", "setBoth"}]
  /\ cur \in [Thread -> Word] /\ prev \in [Thread -> Word]
  /\ arg \in [Thread -> Word]
  /\ swappedCur \in [Thread -> BOOLEAN]
  /\ calls \in 0..MaxCalls
  /\ added \in Word /\ aggregated \in Word /\ returned \in Word

\* No Aggregate is lost and none counts twice, and no Set undoes one that it did
\* not see: curSum is the sum of the changes that the calls made.
NoLostUpdate == curSum = added

\* Goroutine t is in a call of Set.
InSet(t) == pc[t] \in {"setPrev", "setCur", "setBoth"}

\* Deltas add up: what Delta returned since the last Set and what the next one
\* would return, curSum - prevSum, are together what Aggregate added since that
\* Set.  No change is returned twice or left out, and nothing that Set replaced
\* is returned after it, also when calls of Delta, Aggregate and Set overlapped.
\* Between the two swaps of a Set it does not hold.
DeltasAddUp ==
  (\A t \in Setter : ~InSet(t))
    => Minus(curSum, prevSum) = Minus(aggregated, returned)

\* What Delta is documented to return, the change since the last Delta or Set, is
\* zero where Aggregate is never called.  The code does not keep to it: Delta may
\* see one of the two fields before a Set and the other one after it.
DeltaIsTheChange ==
  [][\A t \in Thread :
       Amount = {} /\ pc[t] = "swap" /\ pc'[t] = "idle" => cur[t] = prev[t]]_vars

\* Every call returns, while one goroutine at most calls Set: a loop is repeated
\* only because a call of another goroutine made headway.
CallsReturn == \A t \in Thread : pc[t] # "idle" ~> pc[t] = "idle"
=============================================================================
