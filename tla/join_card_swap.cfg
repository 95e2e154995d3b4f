\* order_joins on the three joins of OrderJoinsTest.
CONSTANTS
    Inputs <- TestJoins
    Tups <- MCTups
    NumPages <- MCNumPages
    IoCost = 1
    FilterSel <- MCFilterSel
SPECIFICATION Spec
INVARIANT CardFollowsOrientation
