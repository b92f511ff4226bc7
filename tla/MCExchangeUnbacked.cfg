SPECIFICATION ExSpec
CONSTANTS
    alice = alice
    bob = bob
    treasury = treasury
    ctf = ctf
    exchange = exchange
    marketContract = marketContract
    c1 = c1
    NoAddress = NoAddress
    Condition = {c1}
    SlotCount <- MCTwoSlots
    Payouts <- MCPayouts
    Address <- MCAddresses
    CtfContract = ctf
    ExchangeContract = exchange
    MarketContract = marketContract
    Funding <- MCPairFunding
    Admins = {treasury}
    Targets <- MCNoTargets
    MaxDepth = 1
    MaxAmount = 1
    MaxSets = 2
    MaxSupply = 2
    Issuees = {}
    FullRate = 10
    Traders = {alice, bob}
    Order <- MCPairs
    FeeRecipients = {treasury}
    EndTime <- MCEnd
    Allowances = {2}
    SetsHeld <- MCNothing
    AllowanceHeld <- MCBobAllows
    Exercised = {"pause"}
    Prices = {}
    TradeLimits = {}
    DefaultLimits <- MCDefaultLimits
    MaxFill = 2
    MaxMakers = 1
    MaxTime = 1
INVARIANTS
    WinningClaimsRedeemable
CHECK_DEADLOCK FALSE
