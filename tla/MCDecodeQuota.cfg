\* Two decode commands on either side of midnight, with a failing SELECT.
SPECIFICATION Spec
CONSTANTS
    r1 = r1
    r2 = r2
    Requests <- TwoRequests
    FreeQuota = 1
    ReadErrors = TRUE
    Reordered = TRUE
    MaxErrors = 1
    MaxDay = 2
SYMMETRY Symmetry
INVARIANTS TypeOK CountExactUnlessRaced QuotaHeldUnlessRaced
