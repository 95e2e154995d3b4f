--------------------------- MODULE JoinOptimizer ---------------------------
(***************************************************************************)
(* JoinOptimizer::order_joins of src/src/optimizer/join_optimizer.cc, the *)
(* Selinger dynamic programme over subsets of the join list, with its     *)
(* helpers and the PlanCache and LogicalJoinNode of                       *)
(* src/src/include/optimizer/join_optimizer.h.                            *)
(*                                                                         *)
(* A LogicalJoinNode is a record [lt, rt, lf, rf, op].  Table names are   *)
(* integers numbered in the order of the names as std::string, so that    *)
(* operator< on (left_table, right_table, left_field, right_field) is the *)
(* lexicographic order of Key(j); like operator<, Key leaves out op.      *)
(* A std::set<LogicalJoinNode> is a set of nodes with pairwise distinct   *)
(* keys, and the PlanCache maps the set of keys of a join set to its      *)
(* [order, cost, card].                                                   *)
(*                                                                         *)
(* The loops of order_joins are steps: the start of each subset size,     *)
(* the start of each subset, each call of                                 *)
(* compute_cost_and_card_of_subplan with the update of bestres/bcc after  *)
(* it, the add_plan after each subset, and the return.  Costs are the     *)
(* doubles of the code; here they are integers, because scan costs,       *)
(* cardinalities and the cost formula are all integral.                   *)
(***************************************************************************)
EXTENDS Integers, Sequences, SequencesExt, FiniteSetsExt

CONSTANTS
    Inputs,      \* the join lists JoinOptimizer(joins) may be built with
    Tups,        \* table -> tuples in the table (TableStats num_tups)
    NumPages,    \* table -> num_pages given to TableStats
    IoCost,      \* io_cost_per_page of every TableStats
    FilterSel    \* table -> filter selectivity, a rational [n, d]

IH == INSTANCE IntHistogram
REL == INSTANCE Relation

VARIABLES
    joins,     \* _joins
    i,         \* the subset size of the outer loop
    subsets,   \* the subsets of size i not yet visited
    current,   \* the subset being visited, or NoSet
    todo,      \* its nodes not yet passed to compute_cost_and_card_of_subplan
    bestres,   \* best cost in this subset so far, Infinity for DBL_MAX
    bcc,       \* the CostCard of that best
    pc,        \* the PlanCache
    result,    \* what order_joins returned
    phase      \* "running" or "done"

vars == <<joins, i, subsets, current, todo, bestres, bcc, pc, result, phase>>

Infinity == -1          \* std::numeric_limits<double>::max()
NoSet == {}             \* no subset in progress
EmptyCostCard == [cost |-> 0, card |-> 0, plan |-> <<>>]   \* CostCard{}

----------------------------------------------------------------------------
(* LogicalJoinNode and the orders of std::set.                             *)

Key(j) == <<j.lt, j.rt, j.lf, j.rf>>

KeysOf(S) == {Key(j) : j \in S}

\* Lexicographic order of two sequences under the element order Lt, as
\* std::lexicographical_compare: elements neither of which is less than
\* the other count as equal.
LexLess(s, t, Lt(_, _)) ==
    LET Same(m) == ~Lt(s[m], t[m]) /\ ~Lt(t[m], s[m])
    IN  \/ \E k \in 1..Min({Len(s), Len(t)}) :
              Lt(s[k], t[k]) /\ \A m \in 1..(k - 1) : Same(m)
        \/ Len(s) < Len(t) /\ \A m \in 1..Len(s) : Same(m)

\* LogicalJoinNode::operator<
JoinLess(a, b) == LexLess(Key(a), Key(b), LAMBDA x, y : x < y)

\* The nodes of a std::set<LogicalJoinNode> in iteration order.
SortedNodes(S) == SetToSortSeq(S, JoinLess)

\* operator< of std::set<std::set<LogicalJoinNode>>.
JoinSetLess(A, B) == LexLess(SortedNodes(A), SortedNodes(B), JoinLess)

\* swap_inner_outer()
SwapInnerOuter(j) == [lt |-> j.rt, rt |-> j.lt, lf |-> j.rf, rf |-> j.lf, op |-> j.op]

----------------------------------------------------------------------------
(* Helpers of order_joins.                                                 *)

\* Variant of DoesJoin that matches every table.
DoesJoinAlways(joinlist, table_name) == TRUE

\* Variant of DoesJoin that only looks at left_table.
DoesJoinLeftOnly(joinlist, table_name) ==
    \E k \in DOMAIN joinlist : joinlist[k].lt = table_name

\* does_join(joinlist, table_name)
DoesJoin(joinlist, table_name) ==
    \E k \in DOMAIN joinlist :
        joinlist[k].lt = table_name \/ joinlist[k].rt = table_name

\* has_Pkey(joinlist): field 0 is the primary key by convention.
HasPkey(joinlist) ==
    \E k \in DOMAIN joinlist : joinlist[k].lf = 0 \/ joinlist[k].rf = 0

\* estimate_join_cost(j, card1, card2, cost1, cost2): nested loops.
EstimateJoinCost(card1, card2, cost1, cost2) ==
    cost1 + card1 * cost2 + card1 * card2

\* estimate_join_cardinality(j, card1, card2, t1pkey, t2pkey).  The
\* non-equality case (int)(0.3*card1*card2) is the exact floor of
\* 3*card1*card2/10 here.
EstimateJoinCardinality(j, card1, card2, t1pkey, t2pkey) ==
    IF j.op = "EQ"
    THEN IF t1pkey THEN card2
         ELSE IF t2pkey THEN card1
         ELSE Max({card1, card2})
    ELSE (3 * card1 * card2) \div 10

\* stats[t].estimate_scan_cost() and
\* stats[t].estimate_table_cardinality(filter_selectivities[t]).
ScanCost(t) == IH!EstimateScanCost(IoCost, NumPages[t])
ScanCard(t) == IH!EstimateTableCardinality(Tups[t], FilterSel[t])

\* enumerate_subsets(v, size): every choice of `size` positions of v, taken
\* by next_permutation from the smallest bit vector 0..01..1 upwards.  Each
\* choice is inserted into a std::set<LogicalJoinNode>, which keeps the
\* first of several nodes with one key, and the choices into a std::set of
\* sets, which keeps the first choice of several with the same keys.
EnumerateSubsets(v, size) ==
    LET Picks  == kSubset(size, DOMAIN v)
        Nodes(C) == {v[c] : c \in {c \in C : \A d \in C : d < c => Key(v[d]) # Key(v[c])}}
        Rank(C)  == SumSet({2^(Len(v) - c) : c \in C})
        First(C) == \A D \in Picks :
                      KeysOf(Nodes(D)) = KeysOf(Nodes(C)) => Rank(C) <= Rank(D)
    IN  {Nodes(C) : C \in {C \in Picks : First(C)}}

\* PlanCache::get_order(s): the cached order, or an empty vector.
GetOrder(cache, s) ==
    IF KeysOf(s) \in DOMAIN cache THEN cache[KeysOf(s)].order ELSE <<>>

\* PlanCache::add_plan(s, cost, card, order): unconditional overwrite.
AddPlan(cache, s, cc) ==
    (KeysOf(s) :> [order |-> cc.plan, cost |-> cc.cost, card |-> cc.card]) @@ cache

\* compute_cost_and_card_of_subplan(stats, filter_selectivities, j,
\* join_set, best_cost_so_far, pc, cc): the returned flag and CostCard.
ComputeCostAndCard(j, joinSet, bestCost, cache) ==
    LET s    == {n \in joinSet : Key(n) # Key(j)}          \* s.erase(j)
        prev == GetOrder(cache, s)
        Fail == [flag |-> FALSE, cc |-> EmptyCostCard]
        \* the two sides: [cost, card, pkey] of table1 and table2
        base1 == [cost |-> ScanCost(j.lt), card |-> ScanCard(j.lt), pk |-> j.lf = 0]
        base2 == [cost |-> ScanCost(j.rt), card |-> ScanCard(j.rt), pk |-> j.rf = 0]
        sub   == IF s = {} THEN base1
                 ELSE [cost |-> cache[KeysOf(s)].cost,
                       card |-> cache[KeysOf(s)].card, pk |-> HasPkey(prev)]
        t1 == IF s = {} \/ DoesJoin(prev, j.lt) THEN sub ELSE base1
        t2 == IF s # {} /\ ~DoesJoin(prev, j.lt) THEN sub ELSE base2
        cost1 == EstimateJoinCost(t1.card, t2.card, t1.cost, t2.cost)
        cost2 == EstimateJoinCost(t2.card, t1.card, t2.cost, t1.cost)
        swap  == cost2 < cost1
        jj    == IF swap THEN SwapInnerOuter(j) ELSE j
        cost  == IF swap THEN cost2 ELSE cost1
        lpk   == IF swap THEN t2.pk ELSE t1.pk
        rpk   == IF swap THEN t1.pk ELSE t2.pk
    IN  IF s # {} /\ prev = <<>> THEN Fail                  \* cross product
        ELSE IF s # {} /\ ~DoesJoin(prev, j.lt) /\ ~DoesJoin(prev, j.rt)
        THEN Fail                                           \* cross product
        ELSE IF bestCost # Infinity /\ cost >= bestCost THEN Fail
        ELSE [flag |-> TRUE,
              cc |-> [cost |-> cost,
                      \* the cards stay in the order of the unswapped j
                      card |-> EstimateJoinCardinality(jj, t1.card, t2.card, lpk, rpk),
                      plan |-> Append(prev, jj)]]

----------------------------------------------------------------------------
(* order_joins                                                             *)

Init ==
    /\ joins \in Inputs
    /\ i = 0
    /\ subsets = {}
    /\ current = NoSet
    /\ todo = <<>>
    /\ bestres = Infinity
    /\ bcc = EmptyCostCard
    /\ pc = <<>>
    /\ result = <<>>
    /\ phase = "running"

\* Variant of NextSize that runs one size past the number of joins.
NextSizePastSize ==
    /\ phase = "running"
    /\ subsets = {} /\ current = NoSet
    /\ i <= Len(joins)
    /\ i' = i + 1
    /\ subsets' = EnumerateSubsets(joins, i + 1)
    /\ UNCHANGED <<joins, current, todo, bestres, bcc, pc, result, phase>>

\* for (int i = 1; i <= size; i++): subsets = enumerate_subsets(_joins, i)
NextSize ==
    /\ phase = "running"
    /\ subsets = {} /\ current = NoSet
    /\ i < Len(joins)
    /\ i' = i + 1
    /\ subsets' = EnumerateSubsets(joins, i + 1)
    /\ UNCHANGED <<joins, current, todo, bestres, bcc, pc, result, phase>>

\* for (auto set : subsets): bestres = DBL_MAX; bcc = {}
StartSubset ==
    /\ phase = "running"
    /\ current = NoSet /\ subsets # {}
    /\ LET S == CHOOSE S \in subsets :
                    \A T \in subsets \ {S} : JoinSetLess(S, T)
       IN  /\ current' = S
           /\ subsets' = subsets \ {S}
           /\ todo' = SortedNodes(S)
    /\ bestres' = Infinity
    /\ bcc' = EmptyCostCard
    /\ UNCHANGED <<joins, i, pc, result, phase>>

\* Variant of ConsiderJoin that passes DBL_MAX instead of bestres as
\* best_cost_so_far, so that every feasible candidate replaces the last.
ConsiderJoinUnbounded ==
    /\ phase = "running"
    /\ todo # <<>>
    /\ LET r == ComputeCostAndCard(Head(todo), current, Infinity, pc)
       IN  \/ r.flag /\ bestres' = r.cc.cost /\ bcc' = r.cc
           \/ ~r.flag /\ UNCHANGED <<bestres, bcc>>
    /\ todo' = Tail(todo)
    /\ UNCHANGED <<joins, i, subsets, current, pc, result, phase>>

\* for (auto ljnode : set): flag = compute_cost_and_card_of_subplan(...);
\* if (flag) { bestres = cc.cost; bcc = cc; }
ConsiderJoin ==
    /\ phase = "running"
    /\ todo # <<>>
    /\ LET r == ComputeCostAndCard(Head(todo), current, bestres, pc)
       IN  \/ /\ r.flag
              /\ bestres' = r.cc.cost
              /\ bcc' = r.cc
           \/ /\ ~r.flag
              /\ UNCHANGED <<bestres, bcc>>
    /\ todo' = Tail(todo)
    /\ UNCHANGED <<joins, i, subsets, current, pc, result, phase>>

\* After the inner loop: if (bestres != DBL_MAX) pc.add_plan(set, bcc...)
FinishSubset ==
    /\ phase = "running"
    /\ current # NoSet /\ todo = <<>>
    /\ \/ bestres # Infinity /\ pc' = AddPlan(pc, current, bcc)
       \/ bestres = Infinity /\ UNCHANGED pc
    /\ current' = NoSet
    /\ UNCHANGED <<joins, i, subsets, todo, bestres, bcc, result, phase>>

\* return bcc.plan: the CostCard of the last subset visited.
Return ==
    /\ phase = "running"
    /\ i = Len(joins) /\ subsets = {} /\ current = NoSet
    /\ result' = bcc.plan
    /\ phase' = "done"
    /\ UNCHANGED <<joins, i, subsets, current, todo, bestres, bcc, pc>>

\* The caller holds the result; nothing changes any more.
Returned ==
    /\ phase = "done"
    /\ UNCHANGED vars

Next ==
    \/ NextSize
    \/ StartSubset
    \/ ConsiderJoin
    \/ FinishSubset
    \/ Return
    \/ Returned

Spec == Init /\ [][Next]_vars

----------------------------------------------------------------------------
(* Properties                                                              *)

Tables == {joins[k].lt : k \in DOMAIN joins} \cup {joins[k].rt : k \in DOMAIN joins}

\* The key of a node whichever way round it is: a plan holds nodes swapped.
Unordered(j) == {Key(j), Key(SwapInnerOuter(j))}

\* No two input nodes share a key, so that no join set of enumerate_subsets
\* is smaller than its size and no plan of the cache is written twice.
DistinctKeys == Cardinality(KeysOf(ToSet(joins))) = Len(joins)

\* The join graph over the tables of the input is connected, and no two
\* input nodes share a key: the inputs the optimiser is meant for.
WellFormedInput ==
    /\ REL!IsConnected([x, y \in Tables |-> \E k \in DOMAIN joins :
                                              {x, y} = {joins[k].lt, joins[k].rt}],
                       Tables)
    /\ DistinctKeys

\* A plan whose every join after the first shares a table with the joins
\* before it: left-deep and free of cross products.
IsLeftDeep(o) ==
    \A k \in 2..Len(o) :
        \E m \in 1..(k - 1) : {o[m].lt, o[m].rt} \cap {o[k].lt, o[k].rt} # {}

TypeOK ==
    /\ i \in 0..Len(joins)
    /\ phase \in {"running", "done"}
    /\ current \subseteq ToSet(joins)
    /\ bestres \in Nat \cup {Infinity}
    /\ bcc.cost \in Nat /\ bcc.card \in Nat
    /\ \A K \in DOMAIN pc : pc[K].order \in Seq([lt : Tables, rt : Tables,
                                                  lf : Nat, rf : Nat,
                                                  op : IH!PredicateTypes])

\* Every plan in the PlanCache orders exactly the joins of its key set,
\* each once and in one of its two orientations, as a left-deep chain in
\* which each join meets a table already joined.  This rests on the two
\* cross-product exits of compute_cost_and_card_of_subplan, on s.erase(j)
\* and on the plan cached for s one size earlier.
PlansAreConnected ==
    \A K \in DOMAIN pc :
        LET o == pc[K].order
        IN  /\ Len(o) = Cardinality(K)
            /\ \A k \in DOMAIN o : Key(o[k]) \in K \/ Key(SwapInnerOuter(o[k])) \in K
            /\ \A k, m \in DOMAIN o : k # m => Unordered(o[k]) # Unordered(o[m])
            /\ IsLeftDeep(o)

\* The plan cached for a join set costs no more than any plan that joins
\* one of its joins, either way round, to the plan cached for the rest:
\* the minimum that bestres and the cost1 >= best_cost_so_far exit keep
\* across the inner loop of order_joins.  (An input with two nodes of one
\* key rewrites a smaller plan after larger ones were built on it.)
CachedPlanIsCheapest ==
    DistinctKeys => \A K \in DOMAIN pc :
        LET S == {n \in ToSet(joins) : Key(n) \in K}
        IN  \A j \in S :
              LET r == ComputeCostAndCard(j, S, Infinity, pc)
              IN  r.flag => pc[K].cost <= r.cc.cost

\* order_joins returns a plan of every join of a connected input with
\* distinct keys, each once, either way round.  The tests assert
\* result.size() == nodes.size().
ResultCoversJoins ==
    (phase = "done" /\ WellFormedInput) =>
        /\ Len(result) = Len(joins)
        /\ \A k \in DOMAIN joins :
              \E m \in DOMAIN result : Key(joins[k]) \in Unordered(result[m])

\* The same of every input whose nodes have distinct (table, table, field,
\* field, op): nodes that differ only in op are two joins of the query.
ResultHasEveryJoin ==
    phase = "done" => Len(result) = Len(joins)

\* Spec 5 (join cardinality): for EQ, c2 if the left side holds a primary
\* key, else c1 if the right side does, else max(c1, c2), where c1 and c2
\* are the cardinalities of the left and the right side of the join as it
\* stands in the plan.  A cached cardinality is that of the last join of
\* its plan, with the left and right side taken from that join.
CardFollowsOrientation ==
    \A K \in DOMAIN pc :
        LET o    == pc[K].order
            last == o[Len(o)]
            prev == SubSeq(o, 1, Len(o) - 1)
            Side(t, f) ==
                IF prev # <<>> /\ DoesJoin(prev, t)
                THEN [card |-> pc[K \ Unordered(last)].card, pk |-> HasPkey(prev)]
                ELSE [card |-> ScanCard(t), pk |-> f = 0]
        IN  pc[K].card
              = EstimateJoinCardinality(last, Side(last.lt, last.lf).card,
                                        Side(last.rt, last.rf).card,
                                        Side(last.lt, last.lf).pk,
                                        Side(last.rt, last.rf).pk)
=============================================================================
