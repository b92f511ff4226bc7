SPECIFICATION ExSpec
CONSTANTS
    alice = alice
    bob = bob
    treasury = treasury
    ctf = ctf
    exchange = exchange
    marketContract = marketContract
    c1 = c1
    NoAddress = NoAddress
    Condition = {c1}
    SlotCount <- MCTwoSlots
    Payouts = {}
    Address <- MCAddresses
    CtfContract = ctf
    ExchangeContract = exchange
    MarketContract = marketContract
    Funding <- MCPoolFunding
    Admins = {treasury}
    Targets <- MCNoTargets
    MaxDepth = 1
    MaxAmount = 0
    MaxSets = 2
    MaxSupply = 2
    Issuees = {}
    FullRate = 10
    Traders = {alice, bob}
    Order = {}
    FeeRecipients = {treasury, alice}
    EndTime <- MCEnd
    Allowances = {}
    SetsHeld <- MCPoolSets
    AllowanceHeld <- MCNothing
    Exercised = {"pool"}
    Prices = {3, 7}
    TradeLimits <- MCOtherLimits
    DefaultLimits <- MCPoolLimits
    MaxFill = 3
    MaxMakers = 1
    MaxTime = 1
PROPERTIES
    PoolNeverLosesByTrading
CHECK_DEADLOCK FALSE
