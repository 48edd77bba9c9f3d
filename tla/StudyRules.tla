----------------------------- MODULE StudyRules -----------------------------
(***************************************************************************)
(* The rules that turn measured samples into the published tables: the     *)
(* pairwise comparison (stats/compare.py), the Holm correction             *)
(* (stats/correction.py), the A/B/C equivalence groups and the             *)
(* supplementary table (study/make_table4.py), the fit-for-purpose matrix  *)
(* (study/make_fit_matrix.py), and what the sensitivity sweep says of one  *)
(* run and of two (scripts/sensitivity_sweep.py).                          *)
(*                                                                         *)
(* A sample is a sequence of whole numbers, higher is worse.  Pattern Pi   *)
(* is the number i, which is also its place in the sorted names.  p-values *)
(* and alpha are in ten-thousandths.                                       *)
(***************************************************************************)
EXTENDS Integers, Sequences, FiniteSets, TLC, FiniteSetsExt, Functions

CONSTANTS
    alpha,                      \* stats.alpha
    PValue,                     \* p-value of a rank-biserial effect in percent
    WORST_GROUP_MIN_DOMINATORS

Patterns  == 1..7
Platforms == {"agentforce", "bedrock"}
Scenarios == {"S1", "S2", "S3"}

Probability == 0..10000

\* A larger effect never has a larger p-value.
ASSUME RulesAssumption ==
    /\ alpha \in Probability
    /\ PValue \in [0..100 -> Probability]
    /\ \A d, e \in 0..100 : d <= e => PValue[e] <= PValue[d]
    /\ WORST_GROUP_MIN_DOMINATORS \in 1..6

(***************************************************************************)
(* Samples                                                                 *)
(***************************************************************************)
Below(x, v)   == Cardinality({i \in DOMAIN x : x[i] < v})
AtMost(x, v)  == Cardinality({i \in DOMAIN x : x[i] <= v})

\* The k-th smallest value of a sample.
OrderStatistic(x, k) == CHOOSE v \in Range(x) : Below(x, v) < k /\ k <= AtMost(x, v)

\* Twice the median: the mean of the two middle values when there are two.
TwiceMedian(x) ==
    OrderStatistic(x, (Len(x) + 1) \div 2) + OrderStatistic(x, (Len(x) + 2) \div 2)

\* A hundred times the 99th percentile, interpolated linearly.
HundredfoldP99(x) ==
    LET pos  == 99 * (Len(x) - 1)
        low  == (pos \div 100) + 1
        part == pos % 100
    IN  OrderStatistic(x, low) * (100 - part)
          + (IF part = 0 THEN 0 ELSE OrderStatistic(x, low + 1) * part)

Total(x) == LET sum[i \in 0..Len(x)] == IF i = 0 THEN 0 ELSE sum[i - 1] + x[i]
            IN  sum[Len(x)]

(***************************************************************************)
(* One comparison and one family                                           *)
(***************************************************************************)
\* Twice Mann-Whitney's U: a win counts two, a tie one.
TwiceU(x, y) ==
    LET pairs == (DOMAIN x) \X (DOMAIN y)
    IN  2 * Cardinality({ij \in pairs : x[ij[1]] > y[ij[2]]})
          + Cardinality({ij \in pairs : x[ij[1]] = y[ij[2]]})

\* The Hodges-Lehmann shift, doubled: the median of all differences.
hodges_lehmann_shift(x, y) ==
    LET m == Len(y)
    IN  TwiceMedian([k \in 1..(Len(x) * m) |->
                        x[((k - 1) \div m) + 1] - y[((k - 1) % m) + 1]])

Magnitude(i) == IF i < 0 THEN -i ELSE i

\* 2U - n_x n_y has the sign of the rank-biserial correlation.
compare(x, y) ==
    LET pairs == Len(x) * Len(y)
        lean  == TwiceU(x, y) - pairs
    IN  [p              |-> PValue[(100 * Magnitude(lean)) \div pairs],
         rank_biserial  |-> lean,
         hodges_lehmann |-> hodges_lehmann_shift(x, y)]

\* Step-down: a test falls when it and every test with a smaller p-value
\* passes alpha over the number of tests with a p-value not smaller.
holm(tests) ==
    {t \in tests : \A u \in tests :
        u.p <= t.p => u.p * Cardinality({w \in tests : w.p >= u.p}) <= alpha}

SameConstant(x, y) == Cardinality(Range(x) \cup Range(y)) = 1

AllPairs == {ab \in Patterns \X Patterns : ab[1] < ab[2]}

\* Mutant: the direction of the shift is reversed.
worseReversed(t) ==
    LET lead == IF t.hodges_lehmann # 0 THEN t.hodges_lehmann ELSE t.rank_biserial
    IN  CASE lead > 0 -> t.b [] lead < 0 -> t.a [] OTHER -> 0
\* Mutant: only the first pattern of a pair can lose.
onlyFirstLoses(t) ==
    LET lead == IF t.hodges_lehmann # 0 THEN t.hodges_lehmann ELSE t.rank_biserial
    IN  IF lead > 0 THEN t.a ELSE 0

\* The loser of a significant comparison, or 0 when the direction is flat.
Worse(t) ==
    LET lead == IF t.hodges_lehmann # 0 THEN t.hodges_lehmann ELSE t.rank_biserial
    IN  CASE lead > 0 -> t.a [] lead < 0 -> t.b [] OTHER -> 0

\* The test of one pair.
Test(samples, ab) ==
    LET test(c) == [a |-> ab[1], b |-> ab[2], p |-> c.p,
                    rank_biserial |-> c.rank_biserial, hodges_lehmann |-> c.hodges_lehmann]
    IN  test(compare(samples[ab[1]], samples[ab[2]]))

\* Pairs of identical constants are equivalent and not tested.
Tested(samples) == {ab \in AllPairs : ~SameConstant(samples[ab[1]], samples[ab[2]])}
Tests(samples)  == {Test(samples, ab) : ab \in Tested(samples)}

\* Grades by the number of patterns that significantly dominate a pattern.
dominated_grades(samples) ==
    LET rejected     == holm(Tests(samples))
        dominated(q) == Cardinality({t \in rejected : Worse(t) = q})
    IN  [q \in Patterns |->
            CASE dominated(q) = 0 -> "A"
              [] dominated(q) >= WORST_GROUP_MIN_DOMINATORS -> "C"
              [] OTHER -> "B"]

\* The slowest tenth, two values at least.
tail(x) ==
    LET k == Max({2, (Len(x) + 9) \div 10})
    IN  [i \in 1..k |-> OrderStatistic(x, Len(x) - k + i)]

(***************************************************************************)
(* The supplementary table (make_table4)                                   *)
(***************************************************************************)
\* results: [latency, cost : platform -> scenario -> pattern -> sample,
\*           failed : platform -> pattern -> sample of 0 and 1]
GRADE_ORDER == [A |-> 0, B |-> 1, C |-> 2]

\* The catalog: a human decision point, else an inline policy hook.
oversight_grade(p) == IF p = 6 THEN "A" ELSE IF p = 3 THEN "C" ELSE "B"

worst(grades) == CHOOSE g \in grades : \A h \in grades : GRADE_ORDER[g] >= GRADE_ORDER[h]

\* The rows of one condition.
table4_rows(results, pl, sc) ==
    LET lat == dominated_grades([q \in Patterns |-> tail(results.latency[pl][sc][q])])
        cst == dominated_grades(results.cost[pl][sc])
        rel == dominated_grades(results.failed[pl])
    IN  [p \in Patterns |->
            [latency |-> lat[p], reliability |-> rel[p], cost |-> cst[p],
             oversight |-> oversight_grade(p),
             overall |-> worst({lat[p], rel[p], cst[p]})]]

(***************************************************************************)
(* The fit-for-purpose matrix (make_fit_matrix)                            *)
(***************************************************************************)
STANDING_ORDER    == [TOP |-> 0, MID |-> 1, BOTTOM |-> 2]
GRADE_OF_STANDING == [TOP |-> "Strong", MID |-> "Moderate", BOTTOM |-> "Weak"]
UPGRADE == [Weak |-> "Moderate", Moderate |-> "Strong", Strong |-> "Strong"]

\* Patterns that declare a capability of the scenario's gate.
CAPABILITY_GATE == [S1 |-> {}, S2 |-> {1, 4}, S3 |-> {3, 6}]

standings(samples) ==
    LET grade == dominated_grades(samples)
    IN  [q \in Patterns |-> CASE grade[q] = "A" -> "TOP" [] grade[q] = "B" -> "MID"
                              [] OTHER -> "BOTTOM"]

pessimistic(a, b) == IF STANDING_ORDER[a] >= STANDING_ORDER[b] THEN a ELSE b

pool(a, b) == IF a = b THEN a ELSE "MID"

\* A quotient of samples, to five decimals.
Ratios(x, times, by) == [i \in DOMAIN x |-> (x[i] * times * 100000) \div by]

\* Mutant: the latencies are not related to the pattern's own level.
rawLatency(results, pl) == results.latency[pl]["S2"]
latency_growth(results, pl) ==
    [q \in Patterns |-> Ratios(results.latency[pl]["S2"][q], 2,
                               TwiceMedian(results.latency[pl]["S1"][q]))]
cost_growth(results, pl) ==
    [q \in Patterns |-> Ratios(results.cost[pl]["S2"][q], Len(results.cost[pl]["S1"][q]),
                               Total(results.cost[pl]["S1"][q]))]
tail_inflation(results, pl) ==
    [q \in Patterns |-> Ratios(tail(results.latency[pl]["S3"][q]), 100,
                               HundredfoldP99(results.latency[pl]["S1"][q]))]

\* The endpoints a scenario stresses, the worse of two where there are two.
platform_standing(results, pl, sc) ==
    LET both(x, y) == LET sx == standings(x) sy == standings(y)
                      IN  [q \in Patterns |-> pessimistic(sx[q], sy[q])]
    IN  CASE sc = "S1" -> both(results.latency[pl]["S1"], results.cost[pl]["S1"])
          [] sc = "S2" -> both(latency_growth(results, pl), cost_growth(results, pl))
          [] sc = "S3" -> standings(tail_inflation(results, pl))

fit_grade(pooled, has_cap) ==
    IF has_cap THEN UPGRADE[GRADE_OF_STANDING[pooled]] ELSE GRADE_OF_STANDING[pooled]

\* One column of the matrix, and the matrix.
scenario_fit(results, sc) ==
    LET agentforce == platform_standing(results, "agentforce", sc)
        bedrock    == platform_standing(results, "bedrock", sc)
    IN  [p \in Patterns |-> fit_grade(pool(agentforce[p], bedrock[p]),
                                      p \in CAPABILITY_GATE[sc])]

build_fit_matrix(results) ==
    [S1 |-> scenario_fit(results, "S1"), S2 |-> scenario_fit(results, "S2"),
     S3 |-> scenario_fit(results, "S3")]

(***************************************************************************)
(* What the sensitivity sweep says of one run, and of two                  *)
(***************************************************************************)
p99(latency, pl, sc, p) == HundredfoldP99(latency[pl][sc][p])

\* A mean, compared by its sum: the samples of a condition have one length.
IsLargest(f, p) == \A q \in Patterns : f[q] <= f[p]

\* inflation(p) < inflation(q): the 99th percentiles of S3 over those of S1.
InflatesLess(latency, pl, p, q) ==
    p99(latency, pl, "S3", p) * p99(latency, pl, "S1", q)
        < p99(latency, pl, "S3", q) * p99(latency, pl, "S1", p)

headline_contrasts(latency, cost) ==
    [pipeline_additive |->
        \A pl \in Platforms : p99(latency, pl, "S2", 2) > p99(latency, pl, "S1", 2),
     hitl_tail_dominant |->
        \A pl \in Platforms, sc \in Scenarios :
            IsLargest([q \in Patterns |-> p99(latency, pl, sc, q)], 6),
     choreography_burst_absorption |->
        \A pl \in Platforms : InflatesLess(latency, pl, 3, 1) /\ InflatesLess(latency, pl, 3, 2),
     supervisor_costliest |->
        \A pl \in Platforms, sc \in Scenarios :
            IsLargest([q \in Patterns |-> Total(cost[pl][sc][q])], 1)]

\* Kendall's numerator: pairs of patterns ordered alike less pairs ordered
\* against each other, by their medians.
compare_orderings(base, var) ==
    LET order(latency, pl, sc, ab) ==
            TwiceMedian(latency[pl][sc][ab[1]]) - TwiceMedian(latency[pl][sc][ab[2]])
        alike(pl, sc, ab) == order(base, pl, sc, ab) * order(var, pl, sc, ab)
        tau(pl, sc) == Cardinality({ab \in AllPairs : alike(pl, sc, ab) > 0})
                         - Cardinality({ab \in AllPairs : alike(pl, sc, ab) < 0})
    IN  {<<c, tau(c[1], c[2])>> : c \in Platforms \X Scenarios}

\* The cells whose grade differs from the baseline's.
moving_cells(base_fit, var_fit) ==
    {cell \in Patterns \X Scenarios :
        base_fit[cell[2]][cell[1]] # var_fit[cell[2]][cell[1]]}
=============================================================================
