\* order_joins over every list of one to three distinct nodes drawn from the
\* joins of OrderJoinsTest, a second predicate on emp-dept and a non-equi
\* join, with the test tables scaled down.
CONSTANTS
    Inputs <- JoinLists
    Tups <- MCTups
    NumPages <- MCNumPages
    IoCost = 1
    FilterSel <- MCFilterSel
SPECIFICATION Spec
INVARIANT TypeOK
INVARIANT PlansAreConnected
INVARIANT CachedPlanIsCheapest
INVARIANT ResultCoversJoins
