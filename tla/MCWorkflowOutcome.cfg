SPECIFICATION WorkflowSpec
CONSTANTS
    admin1 = admin1
    oracle = oracle
    c1 = c1
    r1 = r1
    r2 = r2
    r3 = r3
    Condition = {c1}
    SlotCount <- MCBinary
    Payouts = {}
    Admins = {admin1}
    NoAddress = NoAddress
    Account = {oracle, admin1}
    OracleOf <- MCOracleOf
    Event = {}
    Metadata = {}
    EndTime = 1
    Request = {r1}
    DefaultWindow = 1
    Windows = {}
    MaxU64 = 9
    MaxTime = 3
INVARIANTS
    EmergencyOutcomeWins
CHECK_DEADLOCK FALSE
