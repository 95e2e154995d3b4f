-------------------------- MODULE HistogramClient --------------------------
(***************************************************************************)
(* A caller of one IntHistogram, as the HistogramTest cases of            *)
(* src/test/unit/optimizer/optimizer_test.cc use it: construct it with    *)
(* (buckets, min, max), add values one at a time, and ask for            *)
(* selectivities at any point.  The estimates change nothing, so they are *)
(* not actions; the properties evaluate them in every state.  The ghost   *)
(* bag `added` records every value passed to add_value, in range or not. *)
(***************************************************************************)
EXTENDS Integers, Bags, BagsExt

CONSTANTS
    Constructors,   \* set of [buckets, min, max] the caller may construct
    MaxAdds         \* bound on the number of add_value calls

IH == INSTANCE IntHistogram

VARIABLES hist, added

vars == <<hist, added>>

\* The values a caller adds: the edges of the range on both sides, a few
\* values just inside it, and the middle.
Candidates(h) ==
    {h.min_v - 1, h.min_v, h.min_v + 1, h.min_v + 2,
     (h.min_v + h.max_v) \div 2, h.max_v - 1, h.max_v, h.max_v + 1}

\* The values the properties probe: every integer from two below the range
\* to two above it.
Probes(h) == (h.min_v - 2)..(h.max_v + 2)

TypeOK ==
    /\ hist.ntups \in 0..MaxAdds
    /\ hist.span.d > 0 /\ hist.span.n >= hist.span.d
    /\ DOMAIN hist.umap \subseteq 0..(hist.NumB - 1)
    /\ IsABag(added)

Init ==
    /\ \E c \in Constructors : hist = IH!NewHistogram(c.buckets, c.min, c.max)
    /\ added = EmptyBag

\* hist.add_value(v)
AddValue(v) ==
    /\ BagCardinality(added) < MaxAdds
    /\ hist' = IH!AddValue(hist, v)
    /\ added' = BagAdd(added, v)

Next == \E v \in Candidates(hist) : AddValue(v)

Spec == Init /\ [][Next]_vars

----------------------------------------------------------------------------
(* Properties                                                              *)

InRangeAdded == {v \in BagToSet(added) : hist.min_v <= v /\ v <= hist.max_v}

\* The number of added values in [min_v, max_v] that equal v.
TrueCount(v) == IF v \in InRangeAdded THEN CopiesIn(v, added) ELSE 0

\* Spec 4.6: "all selectivities are clamped to [0, 1] implicitly by
\* construction".  Once add_value has counted a value, every operator at
\* every probe value gives a defined selectivity inside [0, 1].  This rests
\* on span never dropping below 1 and on h <= ntups in every bucket.
SelectivityInUnitRange ==
    hist.ntups > 0 =>
        \A op \in IH!PredicateTypes, v \in Probes(hist) :
            IH!InUnitRange(IH!EstimateSelectivity(hist, op, v))

\* When every bucket is one integer wide (span = 1) the EQ estimate is
\* exact: it is the fraction of the in-range values passed to add_value
\* that equal v.  This ties the bucket counts to the whole history of
\* add_value calls, through its range test and its bucket index.
EqExactAtUnitSpan ==
    (hist.span = IH!One /\ hist.ntups > 0) =>
        \A v \in hist.min_v..hist.max_v :
            IH!EstimateSelectivity(hist, "EQ", v)
                = IH!Frac(TrueCount(v), hist.ntups)
=============================================================================
