------------------------------- MODULE Exchange -------------------------------
(***************************************************************************)
(* sabi_exchange on top of sabi_ctf: signed orders filled, matched and     *)
(* matched complementarily by the operator, and a pool that trades at      *)
(* prices the admin sets.  The exchange keeps no token ledger of its own:  *)
(* it moves collateral with transfer_from and positions in the CTF         *)
(* contract, whose state and handlers come from Ctf, so that what the      *)
(* exchange issues and what the CTF contract can pay are seen together.    *)
(*                                                                         *)
(* The suite is deployed and wired as the deployment script leaves it      *)
(* before the optional liquidity manager is set.  The market contract is   *)
(* reduced to what the exchange reads of it: which markets are open, and   *)
(* when trading ends.                                                      *)
(* A handler is one transaction: it works on a copy of the books, and a    *)
(* panic on the way discards the copy.                                     *)
(***************************************************************************)
EXTENDS Ctf, Orders

CONSTANTS
    ExchangeContract,  \* the address of this contract
    MarketContract,    \* the address that the CTF contract takes reports from
    Traders,           \* the accounts that sign orders and trade with the pool
    Order,             \* the orders ever signed: a finite set of records
    FeeRecipients,     \* the addresses that are ever set as fee recipient
    EndTime,           \* [Condition -> Nat]: when trading of a market ends
    Allowances,        \* the allowances that traders give the exchange
    SetsHeld,          \* [Address -> Nat]: complete sets split before the first order
    AllowanceHeld,     \* [Address -> Nat]: the allowances given before that
    Exercised,         \* bound: which of "cancel", "pause", "open", "pool" are called
    Prices,            \* the pool prices that the admin sets
    TradeLimits,       \* the [min, max] trade amounts that the admin sets
    DefaultLimits,     \* the trade limits before that
    MaxFill,           \* bound: the largest amount of one call
    MaxMakers,         \* bound: maker orders of one match
    MaxTime            \* bound: the last ledger timestamp

ASSUME ExchangeAssumption ==
    /\ ExchangeContract \in Address \ {CtfContract}
    /\ MarketContract \in Address \ {CtfContract, ExchangeContract}
    /\ Traders \subseteq Address \ {CtfContract, ExchangeContract}
    /\ FeeRecipients \subseteq Address
    /\ Allowances \subseteq Nat /\ Prices \subseteq Nat
    /\ SetsHeld \in [Address -> Nat] /\ AllowanceHeld \in [Address -> Nat]
    /\ \A a \in Address : Cardinality(Condition) * SetsHeld[a] <= Funding[a]
    /\ MaxFill \in Nat /\ MaxMakers \in Nat /\ MaxTime \in Nat
    /\ Admins # {} /\ FeeRecipients # {}
    /\ EndTime \in [Condition -> Nat]
    /\ IsFiniteSet(Condition) /\ IsFiniteSet(Order) /\ MaxDepth # 0

\* Every condition is prepared already, which asks for as many slots.
ASSUME SlotAssumption == \A c \in Condition : SlotCount[c] \in 2..32

\* An order is signed by its maker, and its fills are by its taker.
ASSUME OrderAssumption == \A o \in Order :
    /\ o.makerAmount \in Nat /\ o.takerAmount \in Nat /\ o.expiration \in Nat
    /\ o.feeRate \in Nat /\ o.maker \in Traders /\ o.taker \in Traders

VARIABLES
    exAdmin, exPaused, \* the exchange's own Admin and IsPaused keys
    feeRecipient,      \* the FeeRecipient key
    limits,            \* the MinTradeAmount and MaxTradeAmount keys
    price,             \* position -> the Price key, 0 when not set
    filled,            \* order key -> FilledAmount
    cancelled,         \* the order keys that are Cancelled
    allowance,         \* trader -> what the exchange may transfer from it
    open,              \* the conditions whose market has status Open
    now,               \* the timestamp of the current ledger
    traded,            \* history: order -> what it gave, got and took part in
    issued             \* history: condition -> complete sets issued by the exchange

exAdminVars == <<exAdmin, exPaused, feeRecipient, limits>>
orderVars == <<filled, cancelled, traded, issued>>
marketVars == <<open, now>>
exchangeVars == <<exAdminVars, orderVars, marketVars, price, allowance>>
exVars == <<vars, exchangeVars>>

ExAccess == INSTANCE Access WITH admin <- exAdmin, isPaused <- exPaused

Keys == {Key(o) : o \in Order}

\* gave and got count the order's own side and the other side, before fees; takes
\* counts the maker orders that it was filled against as the taker's order, and
\* made says whether it was ever filled at its own price.
Dealings == [gave: Nat, got: Nat, takes: Nat, made: BOOLEAN]

OutcomePosition(c, i) == Child(Root, c, {i})

OutcomePositions == UNION {{OutcomePosition(c, i) : i \in Slots(c)} : c \in Condition}


\* The traders have split SetsHeld complete sets of every condition already.
ExInit ==
    /\ prepared = Condition
    /\ numerators = [c \in Condition |-> << >>]
    /\ denominator = [c \in Condition |-> 0]
    /\ admin \in Admins /\ isPaused = FALSE
    /\ wiring = [exchange |-> ExchangeContract, market |-> MarketContract,
                 liquidityManager |-> NoAddress]
    /\ balance = [p \in Position |->
                    IF p \in OutcomePositions THEN SetsHeld ELSE [a \in Address |-> 0]]
    /\ supply = [p \in Position |-> TotalOf(balance[p])]
    /\ usdc = [a \in Address |->
                IF a = CtfContract
                THEN Funding[a] + Cardinality(Condition) * TotalOf(SetsHeld)
                ELSE Funding[a] - Cardinality(Condition) * SetsHeld[a]]
    /\ exAdmin \in Admins /\ exPaused = FALSE
    /\ feeRecipient \in FeeRecipients
    /\ limits = DefaultLimits
    /\ price = [p \in OutcomePositions |-> 0]
    /\ filled = [k \in Keys |-> 0]
    /\ cancelled = {}
    /\ allowance = AllowanceHeld
    /\ open = Condition
    /\ now = 0
    /\ traded = [o \in Order |-> [gave |-> 0, got |-> 0, takes |-> 0, made |-> FALSE]]
    /\ issued = [c \in Condition |-> 0]

-----------------------------------------------------------------------------
(* The books a handler works on *)

Books == [usdc |-> usdc, allowance |-> allowance, balance |-> balance, supply |-> supply,
          filled |-> filled, traded |-> traded, spent |-> 0, ok |-> TRUE]

Panic(s) == [s EXCEPT !.ok = FALSE]

\* The collateral token's transfer_from, the exchange spending the allowance.  A
\* transfer to oneself uses up allowance and asks for no balance.
Pull(s, from, to, n) ==
    IF s.allowance[from] >= n /\ (from = to \/ s.usdc[from] >= n)
    THEN [s EXCEPT !.allowance = Debit(@, from, n), !.usdc = Move(@, from, to, n)]
    ELSE Panic(s)

\* The collateral token's transfer.
Transfer(s, from, to, n) ==
    IF from = to \/ s.usdc[from] >= n
    THEN [s EXCEPT !.usdc = Move(@, from, to, n)]
    ELSE Panic(s)

Pay(s, to, n) == Transfer(s, ExchangeContract, to, n)

\* The CTF contract's transfer_position, refused like every one of its handlers
\* while that contract is paused.
Give(s, from, to, p, n) ==
    IF ~isPaused /\ s.balance[p][from] >= n /\ s.supply[p] >= n
    THEN [s EXCEPT !.balance[p] = Move(@, from, to, n)]
    ELSE Panic(s)

\* The CTF contract's mint_position.
Issue(s, to, p, n) ==
    IF ~isPaused
    THEN [s EXCEPT !.balance[p] = Credit(@, to, n), !.supply[p] = @ + n]
    ELSE Panic(s)

\* The CTF contract's merge_positions on the exchange's own tokens of two slots.
Merge(s, c, p, q, n) ==
    IF /\ ~isPaused
       /\ ValidPartition(c, {p[1][2], q[1][2]})
       /\ \A x \in {p, q} : s.balance[x][ExchangeContract] >= n /\ s.supply[x] >= n
       /\ s.usdc[CtfContract] >= n
    THEN [s EXCEPT !.balance = Burned(@, {p, q}, ExchangeContract, n),
                   !.supply = SupplyDown(@, {p, q}, n),
                   !.usdc = Move(@, CtfContract, ExchangeContract, n)]
    ELSE Panic(s)

\* FilledAmount of an order's key is written; the history follows.
Record(s, o, total, gave, got, takes) ==
    [s EXCEPT !.filled[Key(o)] = total,
              !.traded[o] = [gave |-> @.gave + gave, got |-> @.got + got,
                             takes |-> @.takes + takes, made |-> @.made \/ takes = 0]]

\* The transaction went through: the books become the state.
Commit(s) ==
    /\ s.ok
    /\ usdc' = s.usdc /\ allowance' = s.allowance
    /\ balance' = s.balance /\ supply' = s.supply
    /\ filled' = s.filled /\ traded' = s.traded
    /\ UNCHANGED <<conditionVars, accessVars, exAdminVars, marketVars, price, cancelled>>

-----------------------------------------------------------------------------
(* Checks *)

\* assert_market_tradeable.
Tradeable(c, i) ==
    /\ c \in open
    /\ now < EndTime[c]
    /\ i \in Slots(c)

\* assert_valid_trade_amount.
ValidAmount(n) == n # 0 /\ limits.min <= n /\ n <= limits.max

\* Mutant of Accepted: a cancelled order is accepted.
AcceptedCancelled(o, before, fill) ==
    /\ o.makerAmount # 0 /\ o.takerAmount # 0
    /\ o.feeRate <= FullRate
    /\ now < o.expiration
    /\ Tradeable(o.condition, o.outcome)
    /\ FillAllowed(o, fill)
    /\ before + fill <= o.makerAmount

\* What is asked of every order before a fill: validate_order, enforce_order_type,
\* assert_order_available and no overfill.  The maker authorizes each fill, which
\* a maker that signed the order can.
Accepted(o, before, fill) ==
    /\ o.makerAmount # 0 /\ o.takerAmount # 0
    /\ o.feeRate <= FullRate
    /\ now < o.expiration
    /\ Tradeable(o.condition, o.outcome)
    /\ FillAllowed(o, fill)
    /\ Key(o) \notin cancelled
    /\ before + fill <= o.makerAmount

-----------------------------------------------------------------------------
(* Orders *)

PositionOf(o) == OutcomePosition(o.condition, o.outcome)

\* execute_trade: the buyer pays the seller and the fee recipient out of the same
\* cash, then the seller delivers.
ExecuteTrade(s, o, before, fill) ==
    LET counter == CounterAmount(o, before, fill)
        buys    == o.side = "Buy"
        cash    == IF buys THEN fill ELSE counter
        tokens  == IF buys THEN counter ELSE fill
        buyer   == IF buys THEN o.maker ELSE o.taker
        seller  == IF buys THEN o.taker ELSE o.maker
        fee     == FeeAmount(cash, o.feeRate)
        paid    == Pull(s, buyer, seller, cash - fee)
        charged == IF fee = 0 THEN paid ELSE Pull(paid, buyer, feeRecipient, fee)
    IN  IF counter = 0 THEN Panic(s)
                       ELSE Give(charged, seller, buyer, PositionOf(o), tokens)

FillOrder(o, fill) ==
    LET before == filled[Key(o)]
    IN  /\ ~exPaused
        /\ ValidAmount(fill)
        /\ Accepted(o, before, fill)
        /\ Commit(Record(ExecuteTrade(Books, o, before, fill), o, before + fill,
                         fill, CounterAmount(o, before, fill), 0))
        /\ UNCHANGED issued

\* Mutant of FillMaker: the maker's fill is written without what came before.
FillMakerForgetful(s, taker, o, fill) ==
    LET before  == s.filled[Key(o)]
        counter == CounterAmount(o, before, fill)
        settled == ExecuteTrade(s, o, before, fill)
    IN  IF ValidAmount(fill) /\ LimitMatch(taker, o) /\ Accepted(o, before, fill)
        THEN [Record(settled, o, fill, fill, counter, 0) EXCEPT !.spent = @ + counter]
        ELSE Panic(s)

\* One turn of the loop of match_orders: a maker's order is filled against the
\* taker's, and the taker's fill adds up in spent.
FillMaker(s, taker, o, fill) ==
    LET before  == s.filled[Key(o)]
        counter == CounterAmount(o, before, fill)
        settled == ExecuteTrade(s, o, before, fill)
    IN  IF ValidAmount(fill) /\ LimitMatch(taker, o) /\ Accepted(o, before, fill)
        THEN [Record(settled, o, before + fill, fill, counter, 0)
                EXCEPT !.spent = @ + counter]
        ELSE Panic(s)

\* match_orders: the taker's filled amount is read before the loop and written
\* after it.  A maker fill of 0 is skipped, so it is left out of the vectors.
MatchOrders(taker, makers, fills, takerFill) ==
    LET before == filled[Key(taker)]
        after[k \in 0..Len(makers)] ==
            IF k = 0 THEN Books ELSE FillMaker(after[k - 1], taker, makers[k], fills[k])
        last   == after[Len(makers)]
        tokens == TotalOf(fills)
    IN  /\ ~exPaused
        /\ ValidAmount(takerFill)
        /\ Accepted(taker, before, takerFill)
        /\ last.spent = takerFill
        /\ Commit(Record(last, taker, before + takerFill, takerFill, tokens, Len(makers)))
        /\ UNCHANGED issued

\* Mutant of ComplementaryMatch: two orders for one outcome are matched.
SameOutcomeMatch(left, right) ==
    /\ left.condition = right.condition
    /\ left.side = right.side
    /\ SlotCount[left.condition] = 2

\* validate_complementary_match: two orders on the same side of a binary market's
\* two outcomes.  The orders' takers are not looked at.
ComplementaryMatch(left, right) ==
    /\ left.condition = right.condition
    /\ left.outcome # right.outcome
    /\ left.side = right.side
    /\ SlotCount[left.condition] = 2

\* A payment that is made only when there is something to pay.
PullIfAny(s, from, to, n) == IF n = 0 THEN s ELSE Pull(s, from, to, n)

\* Mutant of PayIfAny: what is left over stays in the exchange.
PayNothing(s, to, n) == s

PayIfAny(s, to, n) == IF n = 0 THEN s ELSE Pay(s, to, n)

\* execute_complementary_buy: two bids that together pay for complete sets get one
\* outcome each, issued by the CTF contract's mint_position.  The fees and what
\* the bids exceed the sets by go to the fee recipient; the price of the sets
\* stays in the exchange.
ComplementaryBuy(s, left, leftFill, right, rightFill) ==
    LET sets     == CounterAmount(left, filled[Key(left)], leftFill)
        leftFee  == FeeAmount(leftFill, left.feeRate)
        rightFee == FeeAmount(rightFill, right.feeRate)
        fees     == PullIfAny(PullIfAny(s, left.maker, feeRecipient, leftFee),
                              right.maker, feeRecipient, rightFee)
        net      == leftFill - leftFee + rightFill - rightFee
        bids     == Pull(Pull(fees, left.maker, ExchangeContract, leftFill - leftFee),
                         right.maker, ExchangeContract, rightFill - rightFee)
        tokens   == Issue(Issue(bids, left.maker, PositionOf(left), sets),
                          right.maker, PositionOf(right), sets)
    IN  IF /\ sets # 0 /\ sets = CounterAmount(right, filled[Key(right)], rightFill)
           /\ net >= sets
        THEN PayIfAny(tokens, feeRecipient, net - sets)
        ELSE Panic(s)

\* execute_complementary_sell: two asks deliver one outcome each, the exchange
\* merges the sets into collateral and pays it out; what the asks leave over goes
\* to the fee recipient with the fees.
ComplementarySell(s, left, leftFill, right, rightFill) ==
    LET leftQuote  == CounterAmount(left, filled[Key(left)], leftFill)
        rightQuote == CounterAmount(right, filled[Key(right)], rightFill)
        leftPaid   == leftQuote - FeeAmount(leftQuote, left.feeRate)
        rightPaid  == rightQuote - FeeAmount(rightQuote, right.feeRate)
        taken      == Give(Give(s, left.maker, ExchangeContract, PositionOf(left), leftFill),
                           right.maker, ExchangeContract, PositionOf(right), rightFill)
        merged     == Merge(taken, left.condition, PositionOf(left), PositionOf(right), leftFill)
        paid       == Pay(Pay(merged, left.maker, leftPaid), right.maker, rightPaid)
    IN  IF /\ leftFill = rightFill
           /\ leftQuote # 0 /\ rightQuote # 0
           /\ leftQuote + rightQuote <= leftFill
        THEN PayIfAny(paid, feeRecipient, leftFill - leftPaid - rightPaid)
        ELSE Panic(s)

\* match_complementary_orders: both filled amounts are read first and written last.
MatchComplementaryOrders(left, leftFill, right, rightFill) ==
    LET buys    == left.side = "Buy"
        settled == IF buys
                   THEN ComplementaryBuy(Books, left, leftFill, right, rightFill)
                   ELSE ComplementarySell(Books, left, leftFill, right, rightFill)
        lBefore == filled[Key(left)]
        rBefore == filled[Key(right)]
        lGot    == CounterAmount(left, lBefore, leftFill)
        rGot    == CounterAmount(right, rBefore, rightFill)
    IN  /\ ~exPaused
        /\ ValidAmount(leftFill) /\ ValidAmount(rightFill)
        /\ Accepted(left, lBefore, leftFill) /\ Accepted(right, rBefore, rightFill)
        /\ ComplementaryMatch(left, right)
        /\ Commit(Record(Record(settled, left, lBefore + leftFill, leftFill, lGot, 0),
                         right, rBefore + rightFill, rightFill, rGot, 0))
        /\ issued' = IF buys THEN Credit(issued, left.condition, lGot) ELSE issued

CancelOrderByNonce(key) ==
    /\ cancelled' = cancelled \cup {key}
    /\ UNCHANGED <<vars, exAdminVars, marketVars, price, filled, allowance, traded, issued>>

-----------------------------------------------------------------------------
(* The pool: the exchange's own tokens and collateral *)

Inventory(c, i) == balance[OutcomePosition(c, i)][ExchangeContract]

SetPrice(c, i, p) ==
    /\ Tradeable(c, i)
    /\ 0 < p /\ p < FullRate
    /\ price' = [price EXCEPT ![OutcomePosition(c, i)] = p]
    /\ UNCHANGED <<vars, exAdminVars, orderVars, marketVars, allowance>>

DepositInventory(provider, c, i, n) ==
    /\ ~exPaused
    /\ Tradeable(c, i)
    /\ Commit(Give(Books, provider, ExchangeContract, OutcomePosition(c, i), n))
    /\ UNCHANGED issued

WithdrawInventory(c, i, n, recipient) ==
    /\ ~exPaused
    /\ Tradeable(c, i)
    /\ Inventory(c, i) >= n
    /\ Commit(Give(Books, ExchangeContract, recipient, OutcomePosition(c, i), n))
    /\ UNCHANGED issued

DepositCollateral(provider, n) ==
    /\ ~exPaused
    /\ ValidAmount(n)
    /\ Commit(Transfer(Books, provider, ExchangeContract, n))
    /\ UNCHANGED issued

WithdrawCollateral(n, recipient) ==
    /\ ~exPaused
    /\ ValidAmount(n)
    /\ usdc[ExchangeContract] >= n
    /\ Commit(Pay(Books, recipient, n))
    /\ UNCHANGED issued

\* buy_outcome: no liquidity manager is told of the trade.
BuyOutcome(buyer, c, i, n) ==
    LET p      == OutcomePosition(c, i)
        tokens == TokensFor(n, price[p])
    IN  /\ ~exPaused
        /\ ValidAmount(n)
        /\ Tradeable(c, i)
        /\ price[p] # 0 /\ tokens # 0
        /\ Inventory(c, i) >= tokens
        /\ Commit(Give(Transfer(Books, buyer, ExchangeContract, n),
                       ExchangeContract, buyer, p, tokens))
        /\ UNCHANGED issued

\* sell_outcome: it is paid from all the collateral the exchange holds.
SellOutcome(seller, c, i, n) ==
    LET p   == OutcomePosition(c, i)
        due == UsdcFor(n, price[p])
    IN  /\ ~exPaused
        /\ Tradeable(c, i)
        /\ price[p] # 0
        /\ ValidAmount(due)
        /\ usdc[ExchangeContract] >= due
        /\ Commit(Pay(Give(Books, seller, ExchangeContract, p, n), seller, due))
        /\ UNCHANGED issued

-----------------------------------------------------------------------------
(* Administration *)

ExAdminister ==
    /\ \/ \E a \in Admins : ExAccess!HandOver(a)
       \/ "pause" \in Exercised /\ \E flag \in BOOLEAN : ExAccess!SetPaused(flag)
    /\ UNCHANGED <<vars, feeRecipient, limits, orderVars, marketVars, price, allowance>>

SetFeeRecipient(a) ==
    /\ feeRecipient' = a
    /\ UNCHANGED <<vars, exAdmin, exPaused, limits, orderVars, marketVars, price, allowance>>

\* set_min_trade_amount and set_max_trade_amount; nothing relates the two.
SetTradeLimits(l) ==
    /\ limits' = l
    /\ UNCHANGED <<vars, exAdmin, exPaused, feeRecipient, orderVars, marketVars, price,
                   allowance>>

-----------------------------------------------------------------------------
(* The surroundings: the traders, the CTF contract's own handlers, the market *)

Approve(a, n) ==
    /\ allowance' = [allowance EXCEPT ![a] = n]
    /\ UNCHANGED <<vars, exAdminVars, orderVars, marketVars, price>>

\* A trader splits, merges or redeems whole collateral, the oracle reports, the
\* CTF contract is paused.
CtfStep ==
    /\ \E c \in Condition :
        \/ \E user \in Traders, n \in Amounts :
            \E partition \in {{{i} : i \in Slots(c)}} :
                \/ SplitPosition(user, Root, c, partition, n)
                \/ MergePositions(user, Root, c, partition, n)
        \/ \E user \in Traders, i \in Slots(c) : RedeemPositions(user, Root, c, {{i}})
        \/ \E v \in Payouts : ReportPayoutsByCondition(c, v)
        \/ "pause" \in Exercised /\ Administer
    /\ UNCHANGED exchangeVars

\* The market contract stops a market trading, or lets it trade again: even with
\* a resolved condition, when the oracle reported past the market contract.
SetOpen(c, flag) ==
    /\ "open" \in Exercised
    /\ open' = IF flag THEN open \cup {c} ELSE open \ {c}
    /\ UNCHANGED <<vars, exAdminVars, orderVars, price, allowance, now>>

Tick ==
    /\ now < MaxTime
    /\ now' = now + 1
    /\ UNCHANGED <<vars, exAdminVars, orderVars, price, allowance, open>>

-----------------------------------------------------------------------------

Fills == 1..MaxFill

OrderNext ==
    \/ \E o \in Order, fill \in Fills : FillOrder(o, fill)
    \/ \E taker \in Order, k \in 1..MaxMakers, takerFill \in Fills :
        \E makers \in [1..k -> {o \in Order : LimitMatch(taker, o)}], fills \in [1..k -> Fills] :
            MatchOrders(taker, makers, fills, takerFill)
    \/ \E left, right \in Order, leftFill, rightFill \in Fills :
        MatchComplementaryOrders(left, leftFill, right, rightFill)
    \/ "cancel" \in Exercised /\ \E key \in Keys : CancelOrderByNonce(key)

PoolNext ==
    /\ "pool" \in Exercised
    /\ \/ \E c \in Condition : \E i \in Slots(c) :
            \/ \E p \in Prices : SetPrice(c, i, p)
            \/ \E a \in Traders, n \in Fills :
                \/ DepositInventory(a, c, i, n)
                \/ WithdrawInventory(c, i, n, a)
                \/ BuyOutcome(a, c, i, n)
                \/ SellOutcome(a, c, i, n)
       \/ \E a \in Traders, n \in Fills :
            \/ DepositCollateral(a, n)
            \/ WithdrawCollateral(n, a)

ExAdminNext ==
    \/ ExAdminister
    \/ \E a \in FeeRecipients : SetFeeRecipient(a)
    \/ \E l \in TradeLimits : SetTradeLimits(l)

SurroundingsNext ==
    \/ \E a \in Traders, n \in Allowances : Approve(a, n)
    \/ CtfStep
    \/ \E c \in Condition, flag \in BOOLEAN : SetOpen(c, flag)
    \/ Tick

ExNext ==
    \/ OrderNext
    \/ PoolNext
    \/ ExAdminNext
    \/ SurroundingsNext

ExSpec == ExInit /\ [][ExNext]_exVars

-----------------------------------------------------------------------------
(* Properties *)

\* No call can fill two orders of the key: neither is the other's limit match nor
\* its complement.
MeetsAlone(k) ==
    \A x, y \in Order :
        Key(x) = k /\ Key(y) = k => ~LimitMatch(x, y) /\ ~ComplementaryMatch(x, y)

GivenUnder(k) == TotalOf([o \in {x \in Order : Key(x) = k} |-> traded[o].gave])

\* The filled amount of a nonce is what all the orders that share it have given,
\* whichever handler filled them, as a maker's or as a taker's order: match_orders
\* reads the taker's entry before the loop that writes the makers' entries.  Where
\* two orders of the nonce meet in a call, one fill is written over the other and
\* forgotten, and no other handler makes it more than what they gave.
FilledIsGiven ==
    \A k \in Keys :
        /\ filled[k] <= GivenUnder(k)
        /\ MeetsAlone(k) => filled[k] = GivenUnder(k)

\* The order has its nonce to itself.
Alone(o) == \A x \in Order : Key(x) = Key(o) => x = o

\* A maker gets what its limit price says, rounded down once, however many
\* partial fills there were, and never gives more than the order offers.
MakersGetTheirLimit ==
    \A o \in Order :
        Alone(o) /\ o.makerAmount # 0 /\ traded[o].takes = 0 =>
            /\ traded[o].gave <= o.makerAmount
            /\ traded[o].got = Quote(o, traded[o].gave)

\* A taker pays more than its limit price by less than one unit for each maker
\* order that it was matched with.
TakersPayTheirLimit ==
    \A o \in Order :
        LET t == traded[o]
        IN  ~t.made /\ t.takes > 0 =>
                t.gave * o.takerAmount < t.got * o.makerAmount + t.takes * o.takerAmount

\* An order that is cancelled, expired, or in a market that does not trade is not
\* filled any more, by any of the handlers, as whichever side.
DeadOrdersStayDead ==
    [][\A o \in Order :
        \/ Key(o) \in cancelled
        \/ now >= o.expiration
        \/ ~Tradeable(o.condition, o.outcome)
        => traded'[o] = traded[o]]_exVars

\* Settling orders neither takes from the pool nor adds to it: the exchange keeps
\* exactly the collateral of the complete sets that it issues, and no tokens.
MatchingLeavesPoolAlone ==
    [][filled' # filled =>
        /\ \A p \in OutcomePositions :
                balance'[p][ExchangeContract] = balance[p][ExchangeContract]
        /\ feeRecipient # ExchangeContract =>
                usdc'[ExchangeContract] - usdc[ExchangeContract] =
                    TotalOf(issued') - TotalOf(issued)]_exVars

\* The outcomes of an open condition have equally many tokens, and as long as no
\* condition is resolved there is collateral in the CTF contract for all of them but
\* the sets issued by the exchange: an issued set is a whole one, and merging it
\* takes the collateral of a set that was split.
OpenOutcomesCovered ==
    /\ \A c \in Condition : ~Resolved(c) =>
        \A i \in Slots(c) : supply[OutcomePosition(c, i)] = supply[OutcomePosition(c, 1)]
    /\ (\A c \in Condition : ~Resolved(c)) =>
        TotalOf([c \in Condition |-> supply[OutcomePosition(c, 1)]])
            = usdc[CtfContract] + TotalOf(issued)

\* What the outcome tokens of a resolved condition are due, times its denominator.
Claims(c) == TotalOf([i \in Slots(c) |-> supply[OutcomePosition(c, i)] * numerators[c][i]])

\* Once a condition is resolved, its tokens can be redeemed from the collateral in the
\* CTF contract but for one unit per set issued: redeeming, merging and matching in
\* other conditions never take what is due here, and only issues do.
ResolvedOutcomesCovered ==
    \A c \in Condition : Resolved(c) =>
        Claims(c) <= (usdc[CtfContract] + TotalOf(issued)) * denominator[c]

\* Before and after a resolution, only the sets that the exchange issued can be missing.
EveryOutcomeIsCovered == OpenOutcomesCovered /\ ResolvedOutcomesCovered

\* What the pool is worth at the admin's prices, in units of FullRate.
PoolWorth ==
    usdc[ExchangeContract] * FullRate
        + TotalOf([p \in OutcomePositions |-> balance[p][ExchangeContract] * price[p]])

\* A trade with the pool is a step that moves its collateral and its tokens in
\* opposite directions.
PoolTrade ==
    LET collateral == usdc'[ExchangeContract] - usdc[ExchangeContract]
        tokens(p)  == balance'[p][ExchangeContract] - balance[p][ExchangeContract]
    IN  \E p \in OutcomePositions : collateral * tokens(p) < 0

\* The pool never loses by a trade at its own prices: both quotes round in its favour.
PoolNeverLosesByTrading ==
    [][PoolTrade => PoolWorth' >= PoolWorth]_exVars

\* When a condition is resolved, all the claims on it can be redeemed: the CTF
\* contract holds the collateral that the winning tokens are due.
WinningClaimsRedeemable ==
    \A c \in Condition : Resolved(c) => Claims(c) <= usdc[CtfContract] * denominator[c]
=============================================================================
