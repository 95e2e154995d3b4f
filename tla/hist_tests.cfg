\* Every histogram the unit tests construct, up to three add_value calls.
\* The caller may stop adding at any point, so a state with no successor
\* is not an error.
SPECIFICATION Spec
CONSTANTS
    Constructors <- TestHistograms
    MaxAdds = 3
INVARIANT TypeOK
INVARIANT SelectivityInUnitRange
INVARIANT EqExactAtUnitSpan
CHECK_DEADLOCK FALSE
