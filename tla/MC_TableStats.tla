--------------------------- MODULE MC_TableStats ---------------------------
(***************************************************************************)
(* Tables for the TableStats runs: every sequence of up to MaxTuples      *)
(* two-column tuples whose values come from TupleValues.  151 - 1 + 1 is  *)
(* more than NUM_HIST_BINS = 100, so a column holding 1 and 151 has a     *)
(* bucket width of 1.51; a column holding only small values has width 1.  *)
(***************************************************************************)
EXTENDS TableStats

MaxTuples == 3

TupleValues == {1, 2, 151}

TwoColumnTuples == {<<a, b>> : a \in TupleValues, b \in TupleValues}

SmallTables ==
    UNION {[1..n -> TwoColumnTuples] : n \in 0..MaxTuples}

StatProbes == {0, 1, 2, 3, 76, 150, 151, 152}
=============================================================================
