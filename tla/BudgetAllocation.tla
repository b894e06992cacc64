--------------------------- MODULE BudgetAllocation ---------------------------
(* Distribution of a retained-byte budget over children (budget_allocation.go),   *)
(* which group, partition and Pool use for theirs.  One iteration of a loop is one *)
(* action; words are 0 .. MaxWord (2^64 - 1 in the code), and a score is the        *)
(* integer weight it is scaled to.  An empty set of children returns at once and    *)
(* is left out.                                                                  *)
EXTENDS Integers, FiniteSets, Functions

CONSTANTS NumChildren,                    \* in the order of the inputs
          MaxWord,                        \* the largest word; also the cap of an unbounded child
          Parents,                        \* parent budgets
          Bases, Minimums, Maximums,      \* what inputs are made of; a maximum of 0 is unbounded
          Scores                          \* weights of scores

Word == 0 .. MaxWord

ASSUME AllocationAssumption ==
    /\ NumChildren \in Nat \ {0} /\ MaxWord \in Nat \ {0}
    /\ Parents \subseteq Word /\ Bases \subseteq Word
    /\ Minimums \subseteq Word /\ Maximums \subseteq Word /\ Scores \subseteq Word

Children == 1 .. NumChildren

VARIABLES parent, input,   \* the arguments
          pc, index,       \* loop in progress and its next child
          assigned,        \* AssignedBytes of the results
          total,           \* saturating sum of the assignments
          share,           \* of a reduction pass
          remainder,       \* still to distribute
          weights, totalWeight, passRemainder, changed,   \* of a distribution pass
          report,          \* what is returned
          (* History *)
          exact,           \* the sum of the assignments without saturation, once counted
          cut              \* whether saturation has cut off a part of the first total

pass == <<weights, totalWeight, passRemainder, changed>>
allocationVars == <<parent, input, pc, index, assigned, total, share, remainder, pass, report, exact, cut>>

Lesser(a, b) == IF a <= b THEN a ELSE b
AtLeastOne(n) == IF n = 0 THEN 1 ELSE n
Clamp(value, low, high) == IF value < low THEN low ELSE IF value > high THEN high ELSE value
WordSum(a, b) == Lesser(a + b, MaxWord)

MinBytes(i) == input[i].min
MaxBytes(i) ==
    LET max == IF input[i].max = 0 THEN MaxWord ELSE input[i].max
    IN  IF max < input[i].min THEN input[i].min ELSE max

(* Phase 1: the base of a child within its bounds *)
Start(i) == Clamp(input[i].base, MinBytes(i), MaxBytes(i))

HasRoom(i) == assigned[i] < MaxBytes(i)
Reducible == {i \in Children : assigned[i] > MinBytes(i)}

NoReport == [feasible |-> TRUE, assigned |-> 0]

AllocationInit ==
    /\ parent \in Parents
    /\ input \in [Children -> [base : Bases, min : Minimums, max : Maximums, score : Scores]]
    /\ assigned = [i \in Children |-> Start(i)]
    /\ pc = "total" /\ index = 1 /\ total = 0 /\ exact = 0 /\ cut = FALSE
    /\ share = 0 /\ remainder = 0
    /\ weights = [i \in Children |-> 0] /\ totalWeight = 0
    /\ passRemainder = 0 /\ changed = FALSE
    /\ report = NoReport

(* The loop over the children goes on, or is done and the code continues with label. *)
Advance(label) ==
    IF index < NumChildren THEN index' = index + 1 /\ UNCHANGED pc
                           ELSE index' = 1 /\ pc' = label

-----------------------------------------------------------------------------
(* budgetAllocationTotal, before and after the distribution *)

Total ==
    /\ pc = "total"
    /\ total' = WordSum(total, assigned[index])
    /\ exact' = exact + assigned[index]
    /\ cut' = (cut \/ total' < total + assigned[index])
    /\ Advance(IF total' > parent THEN "reducePass" ELSE "decide")
    /\ UNCHANGED <<parent, input, assigned, share, remainder, pass, report>>

Recount ==
    /\ pc = "recount"
    /\ total' = WordSum(total, assigned[index])
    /\ Advance("done")
    /\ report' = [feasible |-> TRUE, assigned |-> total']
    /\ UNCHANGED <<parent, input, assigned, share, remainder, pass, exact, cut>>

-----------------------------------------------------------------------------
(* Phase 2: reduceBudgetAssignmentsToLimit *)

(* Each child that is above its minimum gives up an equal share of the excess. *)
ReducePass ==
    /\ pc = "reducePass"
    /\ \/ Reducible = {} /\ pc' = "decide" /\ UNCHANGED share
       \/ /\ Reducible # {}
          /\ share' = AtLeastOne((total - parent) \div Cardinality(Reducible))
          /\ pc' = "reduce"
    /\ UNCHANGED <<parent, input, index, assigned, total, remainder, pass, report, exact, cut>>

ReductionWithoutFloor(i) == IF i \in Reducible THEN Lesser(share, assigned[i]) ELSE 0
Reduction(i) == IF i \in Reducible THEN Lesser(share, assigned[i] - MinBytes(i)) ELSE 0

Reduce ==
    /\ pc = "reduce"
    /\ assigned' = [assigned EXCEPT ![index] = @ - Reduction(index)]
    /\ total' = total - Reduction(index)
    /\ exact' = exact - Reduction(index)
    /\ IF total' <= parent THEN pc' = "decide" /\ index' = 1 ELSE Advance("reducePass")
    /\ UNCHANGED <<parent, input, share, remainder, pass, report, cut>>

(* The parent is used up, or its minimums exceed it; else the rest is distributed. *)
Decide ==
    /\ pc = "decide"
    /\ \/ /\ total >= parent
          /\ report' = [feasible |-> total = parent, assigned |-> total]
          /\ pc' = "done"
          /\ UNCHANGED <<remainder, totalWeight>>
       \/ /\ total < parent
          /\ remainder' = parent - total
          /\ pc' = "weigh" /\ totalWeight' = 0
          /\ UNCHANGED report
    /\ UNCHANGED <<parent, input, index, assigned, total, share, weights, passRemainder,
                   changed, exact, cut>>

-----------------------------------------------------------------------------
(* Phase 3: distributeBudgetRemainder *)

(* Scores weigh the children that have room; when none of those has a score, all    *)
(* weigh the same.                                                               *)
EqualWeights == [i \in Children |-> IF HasRoom(i) THEN 1 ELSE 0]
Weights ==
    IF \E i \in Children : HasRoom(i) /\ input[i].score > 0
    THEN [i \in Children |-> IF HasRoom(i) THEN input[i].score ELSE 0]
    ELSE [i \in Children |-> IF HasRoom(i) THEN 1 ELSE 0]

(* budgetAllocationWeightTotal *)
Weigh ==
    /\ pc = "weigh"
    /\ weights' = Weights
    /\ totalWeight' = WordSum(totalWeight, Weights[index])
    /\ Advance(IF totalWeight' = 0 THEN "recount" ELSE "give")
    /\ total' = 0
    /\ passRemainder' = remainder /\ changed' = FALSE
    /\ UNCHANGED <<parent, input, assigned, share, remainder, report, exact, cut>>

(* budgetWeightedShare: floor(n * weight / all), with the product split *)
WeightedShare(n, weight, all) ==
    IF n = 0 \/ weight = 0 \/ all = 0 THEN 0
    ELSE IF weight >= all THEN n
    ELSE Lesser(WordSum((n \div all) * weight, ((n % all) * weight) \div all), n)

ShareRoundedDown(i) == WeightedShare(passRemainder, weights[i], totalWeight)
ShareOf(i) == AtLeastOne(WeightedShare(passRemainder, weights[i], totalWeight))

AdditionPastMaximum(i) ==
    IF HasRoom(i) /\ weights[i] > 0 THEN Lesser(ShareOf(i), remainder) ELSE 0
Addition(i) ==
    IF HasRoom(i) /\ weights[i] > 0
    THEN Lesser(ShareOf(i), Lesser(MaxBytes(i) - assigned[i], remainder)) ELSE 0

Give ==
    /\ pc = "give"
    /\ assigned' = [assigned EXCEPT ![index] = @ + Addition(index)]
    /\ remainder' = remainder - Addition(index)
    /\ exact' = exact + Addition(index)
    /\ changed' = (changed \/ (HasRoom(index) /\ weights[index] > 0))
    /\ IF remainder' = 0 THEN pc' = "recount" /\ index' = 1
                         ELSE Advance(IF changed' THEN "weigh" ELSE "recount")
    /\ totalWeight' = IF pc' = "give" THEN totalWeight ELSE 0
    /\ UNCHANGED <<parent, input, total, share, weights, passRemainder, report, cut>>

-----------------------------------------------------------------------------
(* The report has been returned. *)
Returned == pc = "done" /\ UNCHANGED allocationVars

AllocationNext ==
    \/ Total \/ Recount \/ ReducePass \/ Reduce \/ Decide \/ Weigh \/ Give
    \/ Returned

AllocationSpec == AllocationInit /\ [][AllocationNext]_allocationVars

(* A goroutine that runs keeps running. *)
FairAllocation == AllocationSpec /\ WF_allocationVars(AllocationNext)

-----------------------------------------------------------------------------
(* Properties *)

AllocationTypes ==
    /\ parent \in Parents
    /\ input \in [Children -> [base : Bases, min : Minimums, max : Maximums, score : Scores]]
    /\ pc \in {"total", "reducePass", "reduce", "decide", "weigh", "give", "recount", "done"}
    /\ index \in Children
    /\ assigned \in [Children -> Word]
    /\ {total, share, remainder, totalWeight, passRemainder} \subseteq Word
    /\ weights \in [Children -> Word]
    /\ changed \in BOOLEAN
    /\ report \in [feasible : BOOLEAN, assigned : Word]
    /\ exact \in Nat /\ cut \in BOOLEAN

Sum(f) == SumFunctionOnSet(f, Children)
MinimumSum == Sum([i \in Children |-> MinBytes(i)])
MaximumSum == Sum([i \in Children |-> MaxBytes(i)])

(* The bounds of the children hold throughout, and an allocation that is reported   *)
(* as infeasible has left every child its minimum and nothing more                 *)
(* (budget_allocation.go:133-142).                                               *)
BoundsKept ==
    /\ \A i \in Children : assigned[i] \in MinBytes(i) .. MaxBytes(i)
    /\ ~report.feasible => \A i \in Children : assigned[i] = MinBytes(i)

(* Unless the bases overflow a word together, the children get exactly the parent   *)
(* budget, or what their minimums force or their maximums allow, and the report    *)
(* says so: every pass is rounded, no byte is lost or granted twice.               *)
AssignsParent ==
    pc = "done" /\ ~cut =>
        /\ Sum(assigned) = Clamp(parent, MinimumSum, MaximumSum)
        /\ Sum(assigned) = report.assigned /\ Sum(assigned) = exact
        /\ report.feasible = (Sum(assigned) <= parent)

(* A child without a score gets more than its base only when those with a score     *)
(* have no room left: rounding up never feeds it earlier.                          *)
ScoresComeFirst ==
    \A i \in Children : input[i].score = 0 /\ assigned[i] > Start(i) =>
        \A j \in Children : input[j].score > 0 => ~HasRoom(j)

(* The passes end, however the shares are rounded. *)
Terminates == <>(pc = "done")

(* What is reported as feasible fits the parent, if no sum was cut. *)
FeasibleFits == pc = "done" /\ report.feasible /\ ~cut => exact <= parent

=============================================================================
