SPECIFICATION Spec
CONSTANTS
    admin1 = admin1
    admin2 = admin2
    oracle = oracle
    other = other
    c1 = c1
    c2 = c2
    e1 = e1
    e2 = e2
    Condition = {c1}
    SlotCount <- MCBinary
    Payouts <- MCReports
    Admins = {admin1}
    NoAddress = NoAddress
    Account = {oracle, other}
    OracleOf <- MCOracleOf
    Event = {}
    Metadata = {c1}
    DefaultWindow = 2
    Windows = {0, 1, 4}
    MaxU64 = 5
    MaxTime = 4
INVARIANTS
    TypeOK
    ProposedMarketStaysClosed
    FinalizationNeverBlocked
PROPERTIES
    DirectReportLeavesUnresolved
    ImplementsOptimisticOracle
CHECK_DEADLOCK FALSE
