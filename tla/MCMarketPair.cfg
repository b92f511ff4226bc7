SPECIFICATION Spec
CONSTANTS
    admin1 = admin1
    admin2 = admin2
    oracle = oracle
    other = other
    c1 = c1
    c2 = c2
    e1 = e1
    e2 = e2
    Condition = {c1, c2}
    SlotCount <- MCMixed
    Payouts <- MCMixedReports
    Admins = {admin1}
    NoAddress = NoAddress
    Account = {oracle}
    OracleOf <- MCOracleOf
    Event = {e1, e2}
    Metadata = {}
    DefaultWindow = 1
    Windows = {}
    MaxU64 = 3
    MaxTime = 2
SYMMETRY MCEventSymmetry
INVARIANTS
    EventIndexAgrees
    ResolutionAgrees
PROPERTIES
    ResolutionIsFinal
CHECK_DEADLOCK FALSE
