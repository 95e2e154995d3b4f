------------------------- MODULE MC_HistogramClient -------------------------
(***************************************************************************)
(* The histograms that the HistogramTest cases of optimizer_test.cc       *)
(* construct, as constant definitions for the configurations.             *)
(***************************************************************************)
EXTENDS HistogramClient

\* OrderOfGrowthTest: IntHistogram hist(10000, 0, 100), more buckets than
\* values, so the bucket width is clamped to 1.
OrderOfGrowthHist == [buckets |-> 10000, min |-> 0, max |-> 100]

\* NegativeRangeTest: IntHistogram hist(10, -60, -10), width 5.1.
NegativeRangeHist == [buckets |-> 10, min |-> -60, max |-> -10]

\* EqualsTest, LtTest, GETest: IntHistogram hist(10, 1, 10), width 1.
SmallRangeHist == [buckets |-> 10, min |-> 1, max |-> 10]

TestHistograms == {OrderOfGrowthHist, NegativeRangeHist, SmallRangeHist}
=============================================================================
