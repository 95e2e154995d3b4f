\* order_joins on join lists holding two predicates on the same columns.
CONSTANTS
    Inputs <- OpVariantLists
    Tups <- MCTups
    NumPages <- MCNumPages
    IoCost = 1
    FilterSel <- MCFilterSel
SPECIFICATION Spec
INVARIANT ResultHasEveryJoin
