# SabiStellar: models and proofs

SabiStellar is a prediction market on Stellar. A suite of Soroban contracts
(`src/sabissscontract/contracts`) holds the money and the rules, a Rust backend
(`src/sabissbackend`) with a PostgreSQL database drives the contracts for the
admins and keeps records for two web front ends: the public site
(`src/sabissfrontewq`) and the admin site (`src/sabissadminfronte`). This directory
holds TLA+ modules for the contracts, the backend's resolution workflow and both
front ends, the TLC configurations that check them on small instances, and TLAPS
proofs for every value of the constants.

    tlc -workers 2 -config MCMarket.cfg MCMarket      # a run
    tlapm MarketProofs.tla                            # a proof module

## The system

| component | state | operations | correct when |
|---|---|---|---|
| `sabi_ctf` | conditions with their payouts, position balances and supplies, locked collateral, admin, pause flag, three wired contracts | prepare, report, split, merge, redeem, transfer, mint, burn, each also for a wired contract | supplies are sums of balances; the locked collateral pays every claim in every outcome; payouts are set once |
| `sabi_market` | markets, events and their indexes, resolution proposals, dispute window | create event and market, pause, propose, dispute, finalize, resolve | market, proposal and CTF payouts agree; one verdict per market; a dispute window is honoured |
| `sabi_exchange` | filled amounts, cancelled nonces, prices, pool inventory and collateral | fill, match, complementary match, buy and sell from the pool, deposit, withdraw | no order is filled past its amount; what the exchange records it holds; minted sets are backed |
| `sabi_liquidity_manager` | positions of providers, totals per market and event | deposit, withdraw, split and add, remove and merge, record a trade | totals are sums of positions; shares of a trade add up |
| `sabi_neg_risk` | events, YES inventory | register, deposit, withdraw, convert NO to the other YES | recorded inventory is covered by CTF balances |
| `mock_usdc` | balances, allowances | mint, transfer, approve, transfer_from, burn | money is conserved |
| `sabi_wallet`, `sabi_wallet_factory` | signer keys, deployed wallets | check signatures, deploy | cryptography |
| backend: resolution | `markets.trading_status`, `market_resolutions` | propose, dispute, finalize, emergency, pause, unpause | the rows tell what the chain decided |
| backend: orders, trading, liquidity, publication, auth, caches | rows, cached responses | one contract call each, SQL | see the hazards in `PROJECT.json` |
| public site: event page | views, reads in flight and addresses per event, session storage | load, select, retry, publish answers | shows what is addressed; reads each thing once; takes nothing away |
| public site: price panel, comments, trading, balances, sign-in | histories, lists, forms, dialogs, numbered requests | ask, answer, fail, time out, switch market or account | what is shown and sent is of the market and the account at hand |
| home feed and browsing | feeds in memory and in storage, one screen | read, drain, merge, search | every event once, the answer to the latest question |
| admin site: creation, session, bar, event page | modals and their calls, the saved event, one token and one challenge, page caches | create, publish, sign in, pay, set prices, bootstrap | an operation reaches the event, market and account it was meant for |

Contracts call each other synchronously: the market contract prepares conditions
and reports payouts in the CTF contract, the exchange and the liquidity manager
move positions in it. A contract call is one transaction, so a panic anywhere
undoes all of it; concurrency between contract calls is their order on the
ledger. The backend is where steps interleave: each admin request reads rows,
submits a transaction through the Stellar command line, and writes rows, with
nothing held between these steps.

What is hard here: conservation through long sequences of nested splits, merges
and redemptions; deadlines and overrides in the resolution protocol; a payout
that reaches the CTF contract by another path than the market contract; requests
of the backend that overlap, fail half way, or are retried. The front ends are single
threaded, and concurrent all the same: every `await` lets clicks, navigation, timers
and other answers in between, nothing is cancelled when a visitor moves on, and caches
outlive the page that filled them.

## Modules

    Ledger            sums, credits and debits of ledgers
      Conditions      the condition registry of sabi_ctf
        Ctf           sabi_ctf: positions, collateral, wiring    (+ Access)
          CtfSolvency   what positions are worth; solvency properties
            CtfProofs   theorems about Ctf and CtfSolvency       (+ LedgerProofs)
        Market        sabi_market over the condition registry    (+ Access)
          OptimisticOracle   the abstract specification of resolution
          ResolutionWorkflow the backend's requests over Market
            MarketProofs     theorems about Market and ResolutionWorkflow (+ LedgerProofs);
                             Market implements OptimisticOracle
    Access            admin and pause keys, shared by the contracts
    Orders            signed orders and the arithmetic on them
      Exchange        sabi_exchange over Ctf                   (+ Ctf, Access)
        ExchangeProofs  theorems about Orders and Exchange       (+ CtfProofs)
    MCCtf, MCMarket, MCWorkflow, MCExchange   instances for TLC
    Site              events, markets and users of the front ends; sorting and filtering
      EventViews      the public site's cache of events
        MarketScreen    the event page over it
        AdminViews      the admin site's cache of events
          AdminDetail     its event page, prices and liquidity
      ChartPanel      price chart, trades and order book of a market
      Comments        comments of a market
      Wallets         browser wallets
        TradePanel      buying and selling
      Balances        cash, portfolio, deposit dialog and faucet
      SignIn          the sign-in dialog, Google and wallets
      HomeFeed        the home page's feed (both sites)
      Browse          search, filtered feeds, tabs, portfolio
      AdminCreation   the modal that creates and publishes
      AdminSession    sign-in of the admin site
        AdminBar        account menu and deposit dialog
      AccountProofs   theorems about SignIn, TradePanel, AdminSession, AdminBar, Balances
      PageProofs      theorems about Browse, Comments, ChartPanel, AdminCreation, HomeFeed
      ScreenProofs    theorems about MarketScreen and AdminDetail over their caches
      MCFrontEnds     all of them, one part moving at a time
        FrontEndProofs  theorems about all of them               (+ the three above)

Conventions. A handler is one action; its panics are the action's guard, because
a panic reverts everything. `require_auth` of an arbitrary signer is the
quantifier over callers; `require_admin` is the guard `Initialized`, since the
admin's signature is available whenever there is an admin. A storage map is a
function, total where an absent key reads as a default (balances, supplies,
payouts), with the present keys as its DOMAIN otherwise (markets, proposals).
Hashed ids are injective, so they are model values or, for collections, the
sequence of links that was hashed. Operators introduced by a comment "Mutant of"
are what a plausible bug would make of the next definition; no specification
uses them, they show that the properties can fail.

### Ctf

`prepared`, `numerators` and `denominator` are the `Condition` entries, `balance`
and `supply` the position entries, `usdc` the collateral token's balances,
`wiring` the three contract keys. `SplitPosition`, `MergePositions` and
`RedeemPositions` cover the root parent (collateral moves) and nested parents
(the parent position is burned or minted). The entry points of the liquidity
manager and the exchange are separate actions: while a contract key is unset they
are open to everyone, as `require_*_if_configured` makes them. Amount 0 returns
early in the code and is a stuttering step. Amounts are naturals: `u128` overflow
is not reachable with token supplies and aborts the transaction if it happens.
The `u32` overflow check of `apply_payouts` is likewise a panic that small payout
vectors do not meet.

`CtfSolvency` says what a position is worth without dividing. A world is a payout
vector for every condition; draw one unit of each vector, once per level of nesting,
and a position wins when each of its links drew one of its slots. `Worth` counts the
draws that a position wins, and all the draws are the worth of a unit of collateral, so
that a position's share of the collateral is the product of its links' shares, which is
what redeeming link by link pays but for rounding. `Owed` and `Locked` are the supplies
and the collateral at that worth.

### Market and OptimisticOracle

`Market` has the storage of `sabi_market` and, because `finalize_market` and the
creation handlers call the CTF contract in the same transaction, the condition
registry as well. Its environment prepares conditions, reports payouts as the
oracle straight to the CTF contract, and lets time pass. The CTF contract's
market key is assumed to name this contract, as the deployment scripts set it.
`OptimisticOracle` knows only claims, challenges, verdicts and a clock. A verdict is a
claim that stood unchallenged until its deadline, and then the claim stays on record, or
it is a ruling, which strikes the claim off the record. `ImplementsOptimisticOracle` maps
a market's proposal to its claim and its winner to its verdict. `resolve_market` overwrites
the proposal by one whose deadline is the instant it was made at; as no window is 0, this
tells a ruling from a proposal that was open to dispute (`IsRuling`), with no history
variable. So a `finalize_resolution` that came early, or after a dispute, would be no step
of the oracle (`FinalizeEarly`).

### Orders and Exchange

`Exchange` extends `Ctf`: the positions it trades are the `balance` and `supply` of the
CTF contract, whose own handlers and pause go on beside it, and its collateral is the
balance of its address in `usdc`. Its own storage is `filled` and `cancelled` (by maker
and nonce), `price`, `limits`, `feeRecipient` and its admin keys (`ExAccess`, an instance
of `Access`); `allowance` is the collateral token's. A handler moves several tokens one
after the other and any of the moves may panic, so it works on a record of books through
`Pull` (transfer_from), `Transfer`, `Give` (transfer_position), `Issue` (mint_position),
`Merge` and `Record`, and `Commit` makes the last books the next state unless a move
panicked. `match_orders` is a recursive function over its maker orders. `traded` and
`issued` are history: what each order gave and got, and the complete sets issued.

A signed order is a record, its maker's and taker's signatures are always available, and
the operator's too, since it may call with any orders and fills. The deployment is the one
of `deploy_modular_mvp.sh` up to the exchange; the liquidity manager key is not set, so
`record_trade` is not called and the `*_lm` and `release_*` entry points panic.
`set_operator` and `set_collateral_token` are left out. Traders may have split sets and
given allowances before the first order (`SetsHeld`, `AllowanceHeld`), which they could
also do in the model. The market is reduced to `open` and `EndTime`; `open` changes at
will, which is what an admin's pauses come to.

### ResolutionWorkflow

Each request has the stages of its handler in `service/market.rs`: `Begin` (market
row read and checked), `Load` (resolution row read and checked), `Submit` (the
transaction of `service/stellar.rs`, which is an action of `Market`), `ReadWindow`
(the second invocation of `propose_resolution`), `Save` (the rows written in one
database transaction). `Die` is an error, a client that gives up on a transaction
that was nevertheless applied, or a crash. Ledger and database share one clock.
`lost` is history: the markets of which a transaction was applied and its write lost,
which is what `RowsAgreeWhenQuiet` excepts.
Only the backend's admin acts on the market contract here.

### The front ends

A component's signals are one record, a call that waits for its answer is an element of a
set or sequence with what its closure holds (the address, the version, the instance that
asked), and a handler is one action up to its next `await`; every answer is an action of
its own, and so is every failure. A request counter is the number of requests made, and
`version !== requestVersion` the guard that the answer is the latest one's. Effects that
run because a signal changed are part of the action that changed it. Texts, prices and
amounts are members of small sets with the classes that the code tells apart.

* `EventViews` maps one cache to the next: `Wanted` is the test whether a resource has to
  be read, `BeginHydration` and `AskedAgain` open reads, `Received` and `...Arrives` close
  them, `Merge` joins snapshots, and `With...` and `Write...` set a field of the cache or
  of the browser's storage.
  `MarketScreen` keeps the cache. A load (`LoadDetail`) projects what is stored, resolves
  its address, starts the reads of its market and publishes at once and after each answer
  while its version is the current one (`IsCurrent`). Superseded loads fill the cache.
* `ChartPanel` keeps histories by market and range and trades by market, as the backend
  lists them: neither sorted nor within bounds. `Line` clamps and sorts their points, and
  `ChartMetrics` is what is drawn.
* `Comments` has the section, the comments the backend keeps (`CommentServed`,
  `LikeServed`), and the part of the page's cache the section writes. The tree of comments
  is a sequence of nodes that name their parent. A publication of the page runs its effects
  again.
* `Wallets` finds providers by announcement and by global; `TradePanel` goes through the
  form, the order at the backend, the prepared transactions and the wallet's signature
  under accounts and a session that change (`accounts`, `tradeSession`). The session is
  read once, when the order is submitted, and the order goes on with it. `sent` and
  `placed`, the session of each order, are history.
* `Balances` numbers the requests for cash, portfolio and the dialog's balance, with a
  faucet that pays when it answers. The bar's user and token are two signals (`user`,
  `bearer`): cash follows the one and the portfolio the other, and `fetchMe`, asked once
  about the session the page was opened with, answers or fails at any time and sets the
  user alone, or clears both.
* `SignIn` keeps every attempt, alive after its dialog is closed, the one Google window
  (`popup`) and its messages, and the session in storage and in the navigation bar.
* `HomeFeed` reads pages by offset from a feed that events are added to at any place.
  `FallsBack` turns on the admin site's feed made of home sections.
* `Browse` has one screen at a time, of every kind. `MarketCards` groups the markets of an
  answer by their events, each group sorted, and counts them; `EventCards` takes the events
  of a feed as the backend groups them, with its own count of their markets, which is read
  before the markets are and may be behind. `screen.latest` is history: what the latest
  request asks for.
* `Site` has the two things JavaScript's arrays are asked for: `Sorted`, a stable sort, and
  `Picked`, a filter. Both are defined by counting what comes before, without recursion, so
  that they can be reasoned about.
* `AdminCreation` has an instance per opening of the modal, each with the tasks of
  `useAsyncTask`, the saved event of the browser and a backend that acts when it answers.
* `AdminSession` has the attempts to sign in, which share one challenge, one pending flag
  and one token, and the timers that close the dialog after a success (`closers`; only the
  last one is known to the dialog and can be cleared). `overtaken` is history: the profile
  shown was read for a token that had been replaced by then. `AdminBar` adds the dialog
  whose confirmations run beside its reads.
* `AdminViews` and `AdminDetail` are the admin site's own copies of the event cache and
  page. `opened` is history: the market the operations modal was asked for on, by one of
  the market's buttons or by Bootstrap event, at once or through the look-up of the event.

The parts share types (`Site`) and no state that a property speaks of: what passes from
one to another (the session, the selected market, a publication of the page) is an input
that each part takes at any time. So `MCFrontEnds` lets one part move per behaviour
(`focus`), with the others as they are when a tab has just opened, and two runs check
all of them, one of them under fairness; the product of their states would say nothing more.

## Runs

| run | question | bounds and why they suffice |
|---|---|---|
| `ctf` | supplies, typing, pause and wiring, and no loss of margin with `mint_position` in play | 1 binary condition, 1 holder and the contract, a unit of collateral, contract keys unset or set to the holder, even and uneven payouts: enough for a half share to be rounded and for two different sets to overlap |
| `ctf_nested` | solvency with positions under positions | depth 2 with one condition used twice, which includes splitting an outcome on its own condition |
| `market` | the whole protocol of one market | windows 0 (refused), 1, 2 and 4, which overflows the largest timestamp 5; two resolvers; oracle reports |
| `market_pair` | agreement for every type of market, event indexes, finality | 2 markets, with 2 and 3 outcomes, 2 events: a market could be listed twice or in two events; one admin; a window of 1 and the clock up to 2, so that a proposal made at the end of a market can still be finalized; a report past the market contract for each market, so that both ways to the payouts meet |
| `workflow` | decisions under interleaving and failure; what the rows say as long as no two requests have overlapped (`overlapped` is history) | 2 requests in flight with any operations, any number one after the other, lost writes; the end, a window and a tick after it |
| `exchange_orders` | limits, fills and lifetimes of orders | prices 4/3, 3/2, 3 and 1, so that partial fills round and one ask crosses no bid; fees of 3/10 and 5/10; 7 orders, three under one nonce and two under another, these two bids of one maker that may be matched with each other, fill-or-kill orders, two maker orders in a match; expiry before and after the market's end |
| `exchange_pairs` | what backs the issued sets | two bids and two asks of 2 units, splits and merges, both pauses, resolution either way |
| `exchange_pool` | the pool's quotes | prices 3/10 and 7/10, amounts to 3, two fee recipients, two trade limits |
| `front_ends` | whether what is shown, sent and kept belongs to what is addressed, selected or signed in, in every part but the admin's event page | 2 events with 2 and 1 markets; 3 page loads (a load, one that supersedes it, one that comes back), reads followed one or two kinds at a time, 1 order book kept; 2 markets and 2 ranges of the chart, with histories out of time order, with two points of an instant and with a price out of bounds; 2 comments; 2 wallet providers and 2 accounts; 2 sessions and none for trading, with and without a chain; 3 users, one without a wallet, 3 steps of the visitor among their balances and one credit by the faucet; 5 steps of sign-in, 4 of trading; pages of 1 event, 3 published and 1 to come, 2 visits, 3 page reads; 3 questions; 2 openings of the creation modal, 2 submissions, 2 drafts; 2 admins and 2 attempts; 2 confirmations and 2 payments |
| `front_ends_live` | whether loading and waiting end; whether the admin's operations reach the market they were opened on | the public event page and sign-in as in `front_ends` but without side reads; 2 loads of the admin's event page, 1 operation |
| `unbacked_claims` | whether a winning claim can be redeemed | as `exchange_pairs`; violated |
| `emergency_outcome` | whether an emergency resolution decides as the admin entered it | 1 request; violated |

Every passing run allows deadlock: at the last timestamp with everything resolved, or when
the bounds on what a visitor does are reached, nothing is left to do. For the contracts
there is no fairness and no liveness property: every step is taken because a user, an
admin or an oracle chooses to call, and nothing in the repository schedules a call (the
automatic resolution configuration is stored and never acted on). What replaces liveness
is `FinalizationNeverBlocked`: a call that should be possible is ENABLED. In the front
ends, `front_ends_live` assumes weak fairness of answers (`ScreenFairness`,
`SignInFairness`): a fetch resolves or rejects in the end and a `setTimeout` fires, which
the browser sees to; a page that is open is mounted. Nothing is assumed of the visitor,
who may never answer a wallet or Google, nor of Google's message.

The `MaxSupply` bound of `Ctf` limits what is split or minted, never what is merged
or redeemed. `MaxDepth`, `MaxAmount`, `MaxSets` bound what callers send, `MaxTime`
the clock. In `Exchange`, `MaxFill` and `MaxMakers` bound one call, and `Exercised` names
the groups of handlers that an instance calls; `FullRate` is 10 instead of 10,000, which
makes fees and prices round on small amounts. `Symmetry` is used for the two interchangeable requests of `workflow` and the two events of
`market_pair`, which nothing tells apart.
In the front ends the bounds whose names begin with `Max` count loads, steps, openings,
requests or attempts since the tab was opened; each is at least the number of actors a
race needs (a call, the one that supersedes it and, where it matters, one that returns to
the first address). Initial states are cut where parts are alike: the chart begins with
`m1`, the admin page with `e1`, `e2` is not created at first, and storage is empty or as a
visit of the other pages leaves it. `FullPrice` is 3 instead of 10,000, so that there are
pairs of prices that add up and pairs that do not.

### What the runs show

* `sabi_ctf` is solvent as long as the exchange does not use `mint_position`, whatever
  is split, merged, nested, transferred and redeemed and however conditions resolve;
  with `mint_position`, no other handler makes it worse (`MarginFallsOnlyByMinting`).
* The market contract is an optimistic oracle. A proposal that stood its window can be
  finalized unless the oracle itself reported to the CTF contract, and then the market
  never becomes resolved, although redemption works (`DirectReportLeavesUnresolved`).
* The exchange keeps limit prices to the unit: a maker gets its price rounded down once,
  however it is filled, and a taker pays less than one unit over its limit per maker order.
  Settling orders leaves the pool alone, and the pool never loses by a trade.
* No nonce has more on record than its orders gave, and it has exactly that wherever no two
  orders of the nonce can meet in one call (`FilledIsGiven`). When one maker's two bids
  under one nonce are matched complementarily, as two of the run's can be, the second write
  of FilledAmount replaces the first (`contract.rs:783` and the complementary match): the
  nonce then has less on record than it gave and can be filled past its amount.
* A complementary buy leaves the price of its sets in the exchange and locks nothing in the
  CTF contract. The outcomes of an open condition always have equal supplies, and while no
  condition is resolved they add up to the locked collateral and the sets issued; once one
  is resolved, what its tokens are due (`Claims`) is at most the two together
  (`EveryOutcomeIsCovered`). So only issued sets can be missing; but redeeming and merging
  issued tokens uses up collateral that others locked, and where there is none a winning
  claim cannot be redeemed
  (`WinningClaimsRedeemable` fails; a finding). The exchange has no handler that moves the
  collateral over; an admin's withdraw_collateral to the CTF contract would.
* The backend records a decision only when it is taken on chain, and once, under any
  interleaving and failure. What an overlapping pair of requests can break is the
  detail on record: two proposals that read the row before a dispute both reach the
  chain, and the late write records an outcome that is not the one on chain, up to a
  finalized row with another winner; a late write of a pause or unpause overwrites the
  trading status of a proposal. So `RecordedProposalIsOnChain`,
  `RecordedWinnerIsOnChain` and `RowsAgreeWhenQuiet` are checked, and stated, for
  requests that come one after the other.
* A request that dies after its transaction leaves rows behind the chain for ever: a
  retry is refused by the contract. The rows stay truthful about the proposal.
* Emergency resolution is `finalize_resolution` under another name (`Transaction`): the
  outcome entered is ignored and recorded all the same (`EmergencyOutcomeWins` fails; a
  finding), and the contract's guards of `FinalizeResolution` still apply, so it does not
  skip the dispute window either.

* The pages of both sites keep what they show to what is addressed, and each numbered
  answer to its latest request, under every interleaving checked. Where the code does not
  do so, the properties state the exception:
  * a query that is cleared and a sign-out bump no version (`MarketSearchScreen.tsx:40`,
    `portfolio.tsx:99`), so a late answer fills a search without a query, or shows the
    portfolio of a visitor who has signed out. `AnswersWhatIsAsked` says that what is shown
    answers the latest request, and that this is for what is addressed if that asks for
    anything;
  * `fetchMe`'s answer sets the user of the session the page was opened with, over another
    one that has signed in since (`Navbar.tsx:572`): the bar then names one user and holds
    the token, and shows the portfolio, of another. An account without a wallet clears the
    cash and numbers no request (`Navbar.tsx:588`), so that the former account's answer is
    shown there. `BalancesAreOfTheAccount` says that each figure answers the latest request
    for it, which was for the user, or the token, there is, and that user and token are of
    one account but for that answer;
  * of two sign-ins of the admin site that overlap, the profiles may be answered in the
    other order, and one may be answered after a sign-out: the account and the cash shown
    are then one's and the token another's, or none (`useAdminWalletAuth.ts:90`, `:152`).
    `ProfileIsOfTheToken` excepts exactly these (`overtaken`);
  * the look-up that Bootstrap event starts may outlive the market it was asked on: its
    page is left for another event, or a modal opened meanwhile is closed. It then opens the
    operations modal over whatever market the page shows, and that may change under the form
    (`MarketDetailScreen.tsx:267-295` of the admin site). `OperatesOnWhatWasOpened` holds of
    every other opening, the look-up's own included, and says that this one is open for no
    market in particular.

  An order goes on after a sign-out or another sign-in, from the account it was placed
  under (`SentFromWhoOrdered`); nothing in the code stops it.

  What the properties leave out: a comment posted on one market is published
  under the market shown when the answer comes (`CommentsSection.tsx:504`); the page's
  order book may be pushed out by the next one (`MAX_CACHED_ORDERBOOKS_PER_EVENT`); a
  sign-in of an earlier opening that ends in the present one enables its buttons
  (`AuthModal.tsx`), so `OneSignInAtATime` is about openings in which none does; a
  confirmation in the admin's deposit dialog is overwritten by an older read, and sets
  the balance of the account that signed in after it (`DepositModal.tsx:222`); the admin
  event looked up for one page opens the creation modal on another
  (`MarketDetailScreen.tsx:256`).
* In the admin site the tab that bootstraps a whole event cannot be reached: the modal's
  event and markets are read off the wrong operand of a `<Show>` condition
  (`MarketDetailScreen.tsx:370`), so `CanBootstrapEvent` is never true.
* The home feed doubles and skips no event, wherever events are published while its pages
  are read (`FeedIsWhole`). `ShowsWhatIsAsked` says of search, feeds and portfolio that the
  answer shown is to the present question, that each of its markets is on the one card of
  its event (`OneCardPerEvent`), and of the tabs that they lead to the feeds they name.
* A feed made of home sections is taken for a whole feed (`routes/index.tsx:81` of the
  admin site), so `NothingIsSkipped` exempts it.

## Proofs

All theorems hold for every set of conditions, accounts, events, orders and holders and for
every window, bound and payout vector, from the assumptions named in the modules:
`ConditionAssumption`, `CtfAssumption` and `SolvencyAssumption` (finitely many addresses and
conditions, natural bounds), `MarketAssumption`, `WorkflowAssumption`, `ExchangeAssumption`,
`SlotAssumption` (2 to 32 slots, as `prepare_condition` asks), `OrderAssumption`,
`OrdersAssumption`, and for the front ends `SiteAssumption`, `EventViewsAssumption`,
`ScreenAssumption`, `AdminDetailAssumption`, `SignInAssumption`, `BrowseAssumption`,
`ChartAssumption`, `CommentsAssumption` and `FeedAssumption`, which say that names and
placeholders differ, that the storage a tab finds holds views of the right events, that
answers are lists of what they are lists of, that a page holds an event at least and that no
event is published twice. TLC evaluates every one of them. The theorems that
have a hypothesis besides name it below.

### The contracts

* `LedgerProofs`: `TotalOf` counts units, so that a credit adds to the total, a debit of
  no more than the holder has subtracts from it, and a one-hot vector has total 1; the
  totals of sums, multiples, renamings and restrictions of ledgers and of a family of
  disjoint sets, each by a bijection between units.
* `CtfProofs`, ledgers: `TypeCorrect`, `SupplyAgreement`, `SupplyCoversHolders`,
  `PauseFreezes`. The inductive invariant is `TypeOK` with `SupplyIsSumOfBalances`: a burn
  is typed only because the guard bounds balances, and supplies follow from the totals
  lemmas, one position at a time. `SupplyCoversHolders` shows the panic "Position supply
  underflow" to be dead.
* `CtfProofs`, solvency: `Solvency` (where `Issuees = {}`, that is, where the exchange mints
  nothing) and `MarginKeeps`. A draw wins a child exactly when it wins the parent and draws
  a slot of the child's index set. So the children of a partition win disjoint sets of draws
  that make up their parent's (`ChildrenWorth`): a split or merge of n sets moves the same
  amount on both sides of the balance. Trading places of the slots drawn is a bijection that
  shows a child to be worth its parent's worth times its share of the payout (`ChildShare`),
  so rounding a payout down only loses, and the sum over the index sets of a redemption is at
  most what burning their balances takes away (`PayoutBelowWorth`, over overlapping sets
  too). A report only removes worlds. The invariant needs that a resolved condition's
  denominator is the sum of its payouts (`PayoutsAreSums`). A condition that none of the
  `Payouts` could resolve leaves no world, and then the theorem says nothing.
* `MarketProofs`, the registry: `TypeCorrect`, `Agreement`, `ProposedClosed`, `IndexAgreement`,
  `Finality`, `Lockout`. The inductive invariant adds to the properties that a market's
  condition is prepared (so that no creation overwrites a market), that proposals are for
  markets, and that a winner is an outcome. An action touches one condition, so its step is
  proved for the predicate `Listed` of that one and carried to the others by `ListedFrame`.
  `Implementation` is the refinement of `OptimisticOracle`: every action is a step of the
  oracle or changes nothing it shows. `finalize_resolution` is its `Accept`, which needs that
  a window is never 0, so that an open proposal is never taken for a ruling, and
  `resolve_market` its `Rule`. `FinalizationUnblocked` is the provable part of
  `FinalizationNeverBlocked`: a proposal that stood its window meets `FinalizationGuard`,
  the checks of the three handlers a finalization runs through, and `FinalizationIs` shows
  the action to be that guard and its assignments. It needs that a proposal names an
  outcome of its market (`ProposedOutcomes`), so that a one-hot vector is accepted.
* `MarketProofs`, the workflow: `DecidedIsResolved`, `DecidedOnce`, `ProposalsAgree`, `WinnersAgree`,
  `RowsAgree`, `ChainResolutionsAgree`, for any number of markets and of requests in
  flight. Every step is one of the market contract (`ChainStep`), so its invariant is part
  of the workflow's, and `TransactionEffect` says what the transaction of each operation
  does to its market. `Decisions` holds under every interleaving: a decision is recorded by
  the one request whose transaction took it. `Serial` holds until two requests overlap: what
  a request read of the rows is still there when it writes them, and `Truthful` says of a
  market without a lost write that its rows tell the chain's story, as they are or as the
  request in flight will leave them.
* `ExchangeProofs`, orders: `FillsTelescope`, `TakerPaysItsLimit` and
  `PoolQuotesFavourThePool` are arithmetic for all natural amounts: rounding moves a fill by
  less than one unit (`CounterWithinUnit`), and cross-multiplied prices carry that bound from
  the maker's limit to the taker's. `MakersLimit`, `TakersLimit` and `DeadOrders` follow for
  every behaviour. `Kept` says of the books, at any point of a handler, what an order gave
  and got; what settles a trade leaves those entries alone (`SameOrders`), and `Record`
  writes one of them so that `Kept` holds again. The loop of `match_orders` is a function of
  its turns (`Turns`); `Turned` says what holds after each turn, by way of the least turn
  where it would not (`Least`, from the well-foundedness of the naturals). `NonceIsGiven`
  has no hypothesis: every write of a nonce's entry is of what was read for it before plus
  one fill, so at most what was given, and the two are equal for a nonce of which no two
  orders meet in a call.
* `ExchangeProofs`, funds: `SuppliesWithExchange`, `PoolUntouched`, `PoolKeepsItsWorth`,
  `SolvencyButForIssues`, `OutcomesCovered`. The same chains are followed for the funds. `Moved` says what a payment
  or a delivery between traders leaves of the exchange's own accounts, `Settled` what a
  settlement with complete sets does to them, and `FundsInv`, with the CTF contract's
  invariant, holds after every turn. `SolvencyButForIssues` carries solvency over: in every
  world, what the positions are worth is at most the CTF contract's collateral and the sets
  issued, since an order moves tokens, merges a set that it was given, or issues a set and
  counts it. It and `OutcomesCovered` have the hypothesis `FundsOfTheirOwn`: the CTF
  contract starts without collateral and is no fee recipient, so that nothing in it is of
  another origin. The part of `OutcomesCovered` about resolved conditions follows from
  solvency in some world, and so has the hypothesis `SomePayout` too: `Payouts`, the vectors
  reported, has one for every condition.
* `ExchangeProofs`, bystanders and the pause: `BystandersUntouched` and
  `PauseReachesTheExchange`, about two action properties stated there and not among the
  runs'. `Spares` says of the books, at any point of a handler, that nobody but a given set
  of accounts and the two contracts lost anything, or gained anything but a fee; `Delivers`
  adds that a settlement which went through met the CTF contract unpaused. The set is that
  of the parties of the orders whose entries grew (`Parties`), and grows with each turn of
  `match_orders`. Every handler that trades calls the CTF contract once at least, so its
  pause stops them all, though the exchange never reads it; deposits and withdrawals of
  collateral go on.

### The front ends

Each module's invariant says of every call on its way what it was sent for, so that an
answer which passes the code's comparison of versions, numbers or instances is an answer to
what is asked now.

* `AccountProofs`: `CredentialsAreOwn` and `SignInsOneByOne` (an attempt keeps the credential
  it received, numbers of openings only grow), `TradesAreOfTheUser` (an order keeps the
  session it was placed under, and signs from its account only), `AccountsKeptApart`
  (`TokenInv`: the profile is the token's, or that profile is on its way, unless it was read
  for a token replaced by then; and a read of the cash that has the latest number is for the
  profile there is), `BalancesAgree` (`Fresh`: the request with the present number is the
  one last asked, for the user, or the token, there is).
* `PageProofs`, lists: the positions of a set by increasing key are each of them once
  (`OrderIsOfAll`) and in order (`OrderIncreases`), by counting what is below each. Hence
  what a filter keeps (`PickedIsOrdered`) and what a sort returns (`SortedIsOrdered`).
  Everything below about cards, comments, lines and feeds rests on these.
* `PageProofs`, pages: `PagesAnswer`. Beside the versions of requests, of which the present
  one is for `screen.latest`, it proves of both groupings that the events are those of the
  first markets (`EventsOnce`) and that each market is on the card of its event
  (`CardsHoldAll`).
* `PageProofs`, comments: `CommentsOneByOne` and `CommentsListedOnce`. The invariant
  `CommentsInv` says of every list there is, shown, cached, kept by the backend or on its
  way, that it is a tree (`IsTree`): ids are distinct, a parent is older than its replies
  and counts them all. Reading, posting (`PostedTree`), replying (`RepliedTree`) and liking
  (`LikedTree`) keep a list a tree. A reply that comes back after the list with it was
  read replaces what is under it, and that is later only (`SubtreeIsLater`), so its parent
  remains.
* `PageProofs`, chart: `ChartDrawsItsMarket`. `ChartInv` relates the latest request to what
  is shown; `ChartKnown` says that caches and the page's own history hold answers; then
  every line is in time order and within prices (`IsLine`), and none is missing that the
  history or the trades could give (`OutcomeLine`, `TradeLine`).
* `PageProofs`, creation: `SubmissionsOneByOne`, `InstancesKeepTheirEvent`.
* `PageProofs`, feed: `FeedsAreWhole`. Of every feed that is shown, cached, stored, being
  drained or being added to, `FeedInv` says `WholeSoFar`: no event twice, and every event
  published at first is in it whose place is before that of the feed's next page. A page is whole from its
  offset on (`PageIsWhole`), a merged page and a reconciled feed are whole again
  (`MergedIsWhole`, `ReconciledIsWhole`), and publishing an event moves each of those
  published at first by at most one place (`AnotherPublished`).
* `ScreenProofs`: `PageIsOfItsAddress`, `ReadsAreNotDoubled`, `WhatIsShownStays` and
  `OperationsGoWhereOpened`. Loads share one cache that only ever learns more of an event
  (`Grows`, and `Wider` for the admin's), a load's context is about its own address, and only
  the latest load publishes; so what was published is never taken back, and the market the
  operations modal was asked for on stays the page's market while it is open.

* `FrontEndProofs`: `PartsBehave`, that the `Spec` of `MCFrontEnds` implies the specification
  of every part, by one step per part: where it has the focus it takes a step of its own,
  elsewhere it rests. With it the theorems about the parts hold of the specification that
  TLC checks, and are collected in `NothingTwice` (`OneAtATime`) and `FrontEndsAgree` (the
  other invariants and the action properties of the two front-end runs).

### Only model-checked

* `FinalizationNeverBlocked`, which is about ENABLED; that the guard holds is proved
  (`FinalizationUnblocked`).
* `LoadingEnds` and `GoogleWaitEnds`, which are liveness properties.

## Not modelled, and the plan

In this order:

1. `Exchange` with the liquidity manager set: `record_trade` in pool trades, the `*_lm` and
   `release_*` entry points (with module 2); theorems about pool steps and administration.
2. `LiquidityManager`: provider positions, totals, `record_trade`; the abstract
   specification is a pool with one share per provider; theorem: totals are sums.
3. `NegRisk`, and mint and burn of `MockUsdc`; composition with `Ctf`.
4. Backend order rows and publication retries as interleaved steps, login challenges.
5. Theorems: that the front ends' storage only ever holds views of its own event, the
   liquidity invariants.

Left out for good: wallets and factories (signature checks), the read side of the backend
(caches, feeds, price snapshots), its comments, uploads and HTTP layer.

Of the front ends: layout, formatting, styles and the wrappers around `fetch`; storage that
throws (it is assumed to work); the stages of address resolution for a market's own slug
and for feeds, which no route of the event page reaches; share and copy menus; the admin's
image uploads, error texts, result panes and the drafts of the liquidity forms; and admin
components that no route renders: AdminEventManager, AdminConsole, Navbar, NavbarPublic,
AuthModal, MarketTradePanel, useAdminSession and the AdminMarketLiquidity-, Status-,
Resolution- and AdminMarketManager panels. (The form quoted by the finding about emergency
resolutions is one of these; the endpoint it calls is live.)
