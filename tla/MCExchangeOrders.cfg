SPECIFICATION ExSpec
CONSTANTS
    alice = alice
    bob = bob
    treasury = treasury
    ctf = ctf
    exchange = exchange
    marketContract = marketContract
    c1 = c1
    NoAddress = NoAddress
    Condition = {c1}
    SlotCount <- MCTwoSlots
    Payouts = {}
    Address <- MCAddresses
    CtfContract = ctf
    ExchangeContract = exchange
    MarketContract = marketContract
    Funding <- MCFunding
    Admins = {treasury}
    Targets <- MCNoTargets
    MaxDepth = 1
    MaxAmount = 0
    MaxSets = 2
    MaxSupply = 3
    Issuees = {}
    FullRate = 10
    Traders = {alice, bob}
    Order <- MCOrders
    FeeRecipients = {treasury}
    EndTime <- MCEnd
    Allowances = {}
    SetsHeld <- MCSetsHeld
    AllowanceHeld <- MCAllowanceHeld
    Exercised = {"cancel", "open"}
    Prices = {}
    TradeLimits = {}
    DefaultLimits <- MCDefaultLimits
    MaxFill = 4
    MaxMakers = 2
    MaxTime = 2
INVARIANTS
    FilledIsGiven
    MakersGetTheirLimit
    TakersPayTheirLimit
PROPERTIES
    DeadOrdersStayDead
CHECK_DEADLOCK FALSE
