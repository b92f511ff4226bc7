SPECIFICATION LiveSpec
CONSTANTS
    None = None
    Absent = Absent
    e1 = e1
    e2 = e2
    e3 = e3
    e4 = e4
    m1 = m1
    m2 = m2
    m3 = m3
    ada = ada
    ben = ben
    cleo = cleo
    wallet1 = wallet1
    wallet2 = wallet2
    Event = {e1, e2}
    Market = {m1, m2, m3}
    User = {ada, ben, cleo}
    EventOf <- MCEventOf
    Rank <- MCRank
    MaxBooks = 1
    Stores <- MCStores
    FollowedKinds <- MCNotFollowed
    MaxLoads = 3
    ChartMarket = {m1, m2}
    ChartRange = {"1D", "ALL"}
    Window <- MCWindow
    Whole = 2
    Instant = {0, 1, 2}
    HistoryAnswers <- MCHistories
    PageHistories <- MCPageHistories
    TradeAnswers <- MCTrades
    MaxChartSteps = 2
    MaxComments = 2
    MaxSectionSteps = 5
    FirstVisible = 1
    MoreVisible = 1
    Provider <- MCProviders
    AccountsOf <- MCAccounts
    Sessions <- MCSessions
    Amounts <- MCAmounts
    Pages <- MCPages
    Prepared <- MCPrepared
    Unit = 4
    MinBuy = 2
    MaxBuy = 20
    MaxTradeSteps = 4
    WalletOf <- MCWalletOf
    MaxCredits = 2
    MaxBalanceSteps = 3
    Account = {ada}
    Installed = {"freighter"}
    MaxSignInSteps = 5
    Published <- MCPublished
    Upcoming = {e4}
    PageSize = 1
    FallsBack = TRUE
    MaxVisits = 2
    MaxRequests = 3
    Kind = {"search", "feed", "market", "portfolio", "navbar", "once"}
    Query = {"oil", "gas"}
    Params <- MCParams
    StoredEvents <- MCStoredEvents
    Found <- MCFound
    SortOrder <- MCOrder
    Active = {m1}
    Topic <- MCTopic
    Slugs = {"iran", "persia"}
    MaxAsks = 3
    MaxModals = 1
    MaxSubmissions = 3
    MaxDrafts = 2
    Admin = {ada, ben}
    MaxAttempts = 2
    MaxCashReads = 2
    ConfirmAttempts = 2
    MaxPayments = 2
    MaxBarSteps = 4
    AdminStores <- MCAdminStores
    MaxAdminLoads = 2
    MaxOperations = 1
    FullPrice = 3
    Focuses = {"event_page", "sign_in", "admin_event"}
INVARIANTS
    OperatesOnWhatWasOpened
PROPERTIES
    LoadingEnds
    GoogleWaitEnds
CHECK_DEADLOCK FALSE
