--------------------------- MODULE IntHistogram ---------------------------
(***************************************************************************)
(* IntHistogram of src/src/optimizer/table_stats.cc as operators on a      *)
(* histogram value [span, min_v, max_v, ntups, NumB, umap].               *)
(*                                                                         *)
(* The code computes span and every selectivity in double.  Here they are *)
(* exact rationals [n |-> numerator, d |-> denominator], kept in lowest   *)
(* terms, so that a quotient such as (val - min_v) / span is compared     *)
(* exactly.  A quotient by zero (0/0 in double, or h / ntups in int when  *)
(* ntups is 0, which traps) is the value Undefined, with denominator 0.   *)
(* The code's int divisions stay integer divisions (\div).                *)
(*                                                                         *)
(* umap, a vector<int> of NumB zeros, is held as a bag of bucket indices: *)
(* CopiesIn(b, umap) is umap[b], and a bucket never incremented is absent *)
(* rather than present with count 0.                                      *)
(***************************************************************************)
EXTENDS Integers, FiniteSetsExt, Functions, Bags, BagsExt

INT_MAX == 2147483647          \* std::numeric_limits<int>::max()

\* The predicate operators of PredicateType (operators/seq_scan.h).
PredicateTypes == {"EQ", "NE", "LT", "LE", "GT", "GE"}

----------------------------------------------------------------------------
(* Exact rationals.                                                        *)

RECURSIVE GcdOf(_, _)
GcdOf(a, b) == IF b = 0 THEN a ELSE GcdOf(b, a % b)

Undefined == [n |-> 0, d |-> 0]

Abs(x) == IF x < 0 THEN -x ELSE x

\* The rational n / d in lowest terms, Undefined when d = 0.
Frac(n, d) ==
    IF d = 0 THEN Undefined
    ELSE LET g == GcdOf(Abs(n), d) IN [n |-> n \div g, d |-> d \div g]

Zero == Frac(0, 1)
One  == Frac(1, 1)

IsDefined(r) == r.d # 0

RAdd(r, s) ==
    IF IsDefined(r) /\ IsDefined(s)
    THEN Frac(r.n * s.d + s.n * r.d, r.d * s.d) ELSE Undefined

RSub(r, s) == RAdd(r, [s EXCEPT !.n = -@])

RLe(r, s) == r.n * s.d <= s.n * r.d

----------------------------------------------------------------------------
(* IntHistogram                                                            *)

\* Variant of SpanOf without the floor of 1.0 on the bucket width.
SpanUnclamped(buckets, min_val, max_val) ==
    Frac(1 + max_val - min_val, buckets)

\* span = max(1.0, (1.0 + max_val - min_val) / buckets).  For an empty
\* range (max_val < min_val, the sentinels of an empty table) the quotient
\* is negative and span is 1; that case is tested first so that 1 + max -
\* min is not formed from the sentinels.
SpanOf(buckets, min_val, max_val) ==
    IF max_val < min_val THEN One
    ELSE Frac(Max({buckets, 1 + max_val - min_val}), buckets)

\* IntHistogram(buckets, min_val, max_val)
NewHistogram(buckets, min_val, max_val) ==
    [span  |-> SpanOf(buckets, min_val, max_val),
     min_v |-> min_val,
     max_v |-> max_val,
     NumB  |-> buckets,
     ntups |-> 0,
     umap  |-> EmptyBag]

\* std::min((int) ((v - min_v) / span), NumB - 1) for v >= min_v: the
\* cast truncates the non-negative quotient.
BucketIndex(h, v) ==
    Min({((v - h.min_v) * h.span.d) \div h.span.n, h.NumB - 1})

\* Variant of AddValue that also ignores max_val itself.
AddValueDropsMax(h, val) ==
    IF val < h.min_v \/ val >= h.max_v THEN h
    ELSE [h EXCEPT !.umap  = BagAdd(@, BucketIndex(h, val)),
                   !.ntups = @ + 1]

\* add_value(val): values outside [min_v, max_v] are ignored.
AddValue(h, val) ==
    IF val < h.min_v \/ val > h.max_v THEN h
    ELSE [h EXCEPT !.umap  = BagAdd(@, BucketIndex(h, val)),
                   !.ntups = @ + 1]

\* umap[b]
BucketCount(h, b) == CopiesIn(b, h.umap)

\* The GT branch once v is strictly inside (min_v, max_v):
\*   (h / ntups) * ((min_v + (b+1)*span - v) / span) + 1.0*cnt/ntups
\* where h / ntups is an int division and cnt sums the buckets above b.
\* Over the common denominator span.n * ntups this is
\*   ((h \div ntups) * ((b+1)*span.n - (v - min_v)*span.d) * ntups
\*      + cnt * span.n) / (span.n * ntups).
GreaterInRange(h, v) ==
    LET b   == BucketIndex(h, v)
        cnt == SumFunctionOnSet(h.umap, {i \in DOMAIN h.umap : i > b})
    IN  IF h.ntups = 0 THEN Undefined
        ELSE Frac((BucketCount(h, b) \div h.ntups)
                      * ((b + 1) * h.span.n - (v - h.min_v) * h.span.d)
                      * h.ntups
                  + cnt * h.span.n,
                  h.span.n * h.ntups)

\* estimate_selectivity(op, v).  NE, GE, LT and LE call the method again
\* after their own range guards; any other op returns -1.0.
RECURSIVE EstimateSelectivity(_, _, _)
EstimateSelectivity(h, op, v) ==
    LET InRange == h.min_v <= v /\ v <= h.max_v
    IN
    CASE op = "EQ" ->
            IF ~InRange THEN Zero
            ELSE \* (h / span) / ntups
                 Frac(BucketCount(h, BucketIndex(h, v)) * h.span.d,
                      h.span.n * h.ntups)
      [] op = "NE" -> RSub(One, EstimateSelectivity(h, "EQ", v))
      [] op = "GT" ->
            IF v <= h.min_v THEN One
            ELSE IF v >= h.max_v THEN Zero
            ELSE GreaterInRange(h, v)
      [] op = "GE" ->
            IF v < h.min_v THEN One
            ELSE IF v > h.max_v THEN Zero
            ELSE EstimateSelectivity(h, "GT", v - 1)
      [] op = "LT" ->
            IF v <= h.min_v THEN Zero
            ELSE IF v >= h.max_v THEN One
            ELSE RSub(One, EstimateSelectivity(h, "GE", v))
      [] op = "LE" ->
            IF v < h.min_v THEN Zero
            ELSE IF v > h.max_v THEN One
            ELSE RSub(One, EstimateSelectivity(h, "GT", v))
      [] OTHER -> Frac(-1, 1)

\* A selectivity the spec promises: defined and inside [0, 1].
InUnitRange(r) == IsDefined(r) /\ RLe(Zero, r) /\ RLe(r, One)

----------------------------------------------------------------------------
(* The estimates of TableStats that do not read a histogram.               *)

\* estimate_scan_cost(): static_cast<double>(io_cost * nump) * 2.
EstimateScanCost(io_cost, nump) == io_cost * nump * 2

\* estimate_table_cardinality(sel): static_cast<int>(sel * num_tups), a
\* truncation toward zero, which is the floor for sel >= 0.
EstimateTableCardinality(num_tups, sel) == (sel.n * num_tups) \div sel.d
=============================================================================
