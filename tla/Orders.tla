-------------------------------- MODULE Orders --------------------------------
(***************************************************************************)
(* The signed orders of sabi_exchange and the arithmetic on them: no state *)
(* is kept here.  An order offers makerAmount for takerAmount: a Buy order *)
(* offers collateral for position tokens, a Sell order tokens for          *)
(* collateral.  Amounts are whole units and every division rounds down.    *)
(* The salt and the signature only tell orders apart; each order here is a *)
(* record of its own.  Outcome i of the code is slot i + 1.                *)
(***************************************************************************)
EXTENDS Integers

CONSTANT FullRate     \* 10_000 basis points: the rate and the price of one

ASSUME OrdersAssumption == FullRate \in Nat \ {0}

Side == {"Buy", "Sell"}

\* Only Fok is told apart by the code; Gtd asks for an expiration that
\* validate_order has already found to lie in the future.
OrderType == {"Gtc", "Gtd", "Fok", "Fak"}

\* What FilledAmount and Cancelled are stored under: orders of one maker with
\* the same nonce share an entry.
Key(o) == <<o.maker, o.nonce>>

\* What the taker's side of a fill comes to, after `filled` units before it.
Quote(o, filled) == (filled * o.takerAmount) \div o.makerAmount

\* Mutant of CounterAmount: each fill is converted by itself.
CounterAmountAlone(o, filled, fill) == Quote(o, fill)

\* counter_amount; the code panics where it is 0.
CounterAmount(o, filled, fill) == Quote(o, filled + fill) - Quote(o, filled)

\* fee_amount.
FeeAmount(amount, rate) == (amount * rate) \div FullRate

\* enforce_order_type.
FillAllowed(o, fill) == o.type = "Fok" => fill = o.makerAmount

\* Mutant of Crosses: the two sides of a taker's sell order are swapped.
CrossesSwapped(taker, maker) ==
    IF taker.side = "Buy"
    THEN taker.makerAmount * maker.makerAmount >= taker.takerAmount * maker.takerAmount
    ELSE maker.makerAmount * taker.makerAmount <= maker.takerAmount * taker.takerAmount

\* The bid is no lower than the ask.
Crosses(taker, maker) ==
    IF taker.side = "Buy"
    THEN taker.makerAmount * maker.makerAmount >= taker.takerAmount * maker.takerAmount
    ELSE maker.makerAmount * taker.makerAmount >= maker.takerAmount * taker.takerAmount

\* validate_limit_match: the maker's order names the taker it may be filled by.
LimitMatch(taker, maker) ==
    /\ taker.condition = maker.condition
    /\ taker.outcome = maker.outcome
    /\ taker.side # maker.side
    /\ maker.taker = taker.maker
    /\ Crosses(taker, maker)

\* Mutants of TokensFor and UsdcFor: rounded up.
TokensForRoundedUp(usdc, price) == (usdc * FullRate + price - 1) \div price

UsdcForRoundedUp(tokens, price) == (tokens * price + FullRate - 1) \div FullRate

\* quote_token_amount and quote_usdc_amount of the pool.
TokensFor(usdc, price) == (usdc * FullRate) \div price

UsdcFor(tokens, price) == (tokens * price) \div FullRate
=============================================================================
