SPECIFICATION Spec
CONSTANTS
    u1 = u1
    u2 = u2
    ctf = ctf
    c1 = c1
    c2 = c2
    Condition = {c1}
    SlotCount <- MCTwoSlots
    Payouts <- MCPayouts
    Address = {u1, ctf}
    CtfContract = ctf
    Funding <- MCFundingOne
    Admins = {u1}
    Targets <- MCTargets
    NoAddress = NoAddress
    MaxDepth = 1
    MaxAmount = 1
    MaxSets = 2
    MaxSupply = 2
    Issuees = {u1}
INVARIANTS
    TypeOK
    SupplyIsSumOfBalances
PROPERTIES
    MarginFallsOnlyByMinting
    PauseFreezesPositions
CHECK_DEADLOCK FALSE
