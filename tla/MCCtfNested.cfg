SPECIFICATION Spec
CONSTANTS
    u1 = u1
    u2 = u2
    ctf = ctf
    c1 = c1
    c2 = c2
    Condition = {c1}
    SlotCount <- MCTwoSlots
    Payouts <- MCPayouts
    Address = {u1, ctf}
    CtfContract = ctf
    Funding <- MCFundingOne
    Admins = {}
    Targets <- MCTargets
    NoAddress = NoAddress
    MaxDepth = 2
    MaxAmount = 1
    MaxSets = 2
    MaxSupply = 1
    Issuees = {}
INVARIANTS
    Solvent
CHECK_DEADLOCK FALSE
