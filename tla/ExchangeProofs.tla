---------------------------- MODULE ExchangeProofs ----------------------------
(***************************************************************************)
(* The orders of the exchange and the funds behind them, for any orders,   *)
(* amounts and number of maker orders in one match.                        *)
(*                                                                         *)
(* A handler works on a copy of the books.  What settles a trade (moving   *)
(* collateral, moving, issuing or merging tokens) leaves the entries of    *)
(* the orders alone, and Record writes one of them; so a handler is a      *)
(* chain of records.  The loop of match_orders is a function of its turn,  *)
(* and what holds after each turn is shown by the least turn where it      *)
(* would not hold.                                                         *)
(*                                                                         *)
(* The same chains are followed for the funds: Moved says what a payment   *)
(* or a delivery between traders leaves of the exchange's own accounts,    *)
(* Settled what a settlement with complete sets does to them.  With the    *)
(* CTF contract's invariant they give FundsInv, and from its steps follow  *)
(* what the pool keeps, what covers the outcomes and what pays the claims. *)
(* Spares follows them once more, for the accounts that have no order in   *)
(* a call, and Delivers for the pause of the CTF contract.                 *)
(***************************************************************************)
EXTENDS Exchange, CtfProofs

-----------------------------------------------------------------------------
(* What the arithmetic of Orders guarantees, for every order and amount. *)

LEMMA DivisionBounds ==
    ASSUME NEW a \in Nat, NEW b \in Nat \ {0}
    PROVE  /\ a \div b \in Nat
           /\ (a \div b) * b <= a
           /\ a < (a \div b) * b + b
  OBVIOUS

LEMMA DivisionMonotone ==
    ASSUME NEW a \in Nat, NEW c \in Nat, a <= c, NEW b \in Nat \ {0}
    PROVE  a \div b <= c \div b
  OBVIOUS

LEMMA QuoteBounds ==
    ASSUME NEW m \in Nat \ {0}, NEW t \in Nat \ {0}, NEW f \in Nat
    PROVE  /\ f * t \in Nat
           /\ (f * t) \div m \in Nat
           /\ ((f * t) \div m) * m <= f * t
           /\ f * t < ((f * t) \div m) * m + m
  <1>1. f * t \in Nat
    OBVIOUS
  <1> QED BY <1>1, DivisionBounds

\* Two partial fills in a row come to what one fill of their sum comes to:
\* counter_amount neither loses nor gains a unit between them.
THEOREM FillsTelescope ==
    ASSUME NEW o, o.makerAmount \in Nat \ {0}, o.takerAmount \in Nat \ {0},
           NEW before \in Nat, NEW f \in Nat, NEW g \in Nat
    PROVE  CounterAmount(o, before, f) + CounterAmount(o, before + f, g)
               = CounterAmount(o, before, f + g)
  <1> DEFINE t == o.takerAmount
             m == o.makerAmount
             q(x) == (x * t) \div m
  <1>1. \A x \in Nat : q(x) \in Nat
    BY QuoteBounds
  <1>2. before + f \in Nat /\ before + (f + g) \in Nat /\ (before + f) + g = before + (f + g)
    OBVIOUS
  <1>3. q(before) \in Nat /\ q(before + f) \in Nat /\ q(before + (f + g)) \in Nat
    BY <1>1, <1>2
  <1> HIDE DEF q
  <1>4. (q(before + f) - q(before)) + (q(before + (f + g)) - q(before + f))
            = q(before + (f + g)) - q(before)
    BY <1>3
  <1> QED BY <1>2, <1>4 DEF CounterAmount, Quote, q

\* A fill at the maker's price is short of, or over, the exact amount by less
\* than one unit.
LEMMA CounterWithinUnit ==
    ASSUME NEW o, o.makerAmount \in Nat \ {0}, o.takerAmount \in Nat \ {0},
           NEW before \in Nat, NEW fill \in Nat
    PROVE  LET counter == CounterAmount(o, before, fill)
           IN  /\ counter \in Int
               /\ (counter - 1) * o.makerAmount < fill * o.takerAmount
               /\ fill * o.takerAmount < (counter + 1) * o.makerAmount
  <1> DEFINE t == o.takerAmount
             m == o.makerAmount
             q == (before * t) \div m
             r == ((before + fill) * t) \div m
  <1>1. m \in Nat \ {0} /\ t \in Nat \ {0} /\ before + fill \in Nat
    OBVIOUS
  <1>2. /\ before * t \in Nat /\ q \in Nat
        /\ q * m <= before * t /\ before * t < q * m + m
    BY <1>1, QuoteBounds
  <1>3. /\ (before + fill) * t \in Nat /\ r \in Nat
        /\ r * m <= (before + fill) * t /\ (before + fill) * t < r * m + m
    BY <1>1, QuoteBounds
  <1>4. CounterAmount(o, before, fill) = r - q
    BY DEF CounterAmount, Quote
  <1>5. (before + fill) * t = before * t + fill * t /\ fill * t \in Nat
    BY <1>1
  <1> HIDE DEF q, r, m, t
  <1>6. (r - q - 1) * m = r * m - q * m - m /\ (r - q + 1) * m = r * m - q * m + m
    BY <1>1, <1>2, <1>3
  <1>6a. r * m \in Int /\ q * m \in Int /\ m \in Int
    BY <1>1, <1>2, <1>3
  <1>7. (r - q - 1) * m < fill * t /\ fill * t < (r - q + 1) * m
    BY <1>2, <1>3, <1>5, <1>6, <1>6a
  <1>8. r - q \in Int
    BY <1>2, <1>3
  <1> QED BY <1>4, <1>7, <1>8 DEF m, t

\* Cancelling a positive factor.
LEMMA CancelFactor ==
    ASSUME NEW a \in Int, NEW b \in Int, NEW m \in Nat \ {0}, a * m < b * m
    PROVE  a < b
  OBVIOUS

LEMMA ScaleUp ==
    ASSUME NEW a \in Int, NEW b \in Int, NEW m \in Nat \ {0}, a < b
    PROVE  a * m < b * m
  OBVIOUS

LEMMA ScaleUpWeak ==
    ASSUME NEW a \in Int, NEW b \in Int, NEW m \in Nat, a <= b
    PROVE  a * m <= b * m
  OBVIOUS

\* A taker, buying or selling, pays in each fill by a maker whose price its limit
\* crosses less than one unit over that limit, whatever was filled before.
THEOREM TakerPaysItsLimit ==
    ASSUME NEW taker, NEW maker, NEW before \in Nat, NEW fill \in Nat,
           taker.makerAmount \in Nat \ {0}, taker.takerAmount \in Nat \ {0},
           maker.makerAmount \in Nat \ {0}, maker.takerAmount \in Nat \ {0},
           Crosses(taker, maker)
    PROVE  CounterAmount(maker, before, fill) * taker.takerAmount
               < fill * taker.makerAmount + taker.takerAmount
  <1> DEFINE c == CounterAmount(maker, before, fill)
             m == maker.makerAmount
             t == maker.takerAmount
             M == taker.makerAmount
             T == taker.takerAmount
  <1>1. m \in Nat \ {0} /\ t \in Nat \ {0} /\ M \in Nat \ {0} /\ T \in Nat \ {0}
    OBVIOUS
  <1>2. c \in Int /\ (c - 1) * m < fill * t
    BY CounterWithinUnit
  <1>3. T * t <= M * m
    <2>1. /\ M * m \in Nat /\ T * t \in Nat
          /\ m * M = M * m /\ t * T = T * t
      BY <1>1
    <2>2. M * m >= T * t \/ m * M >= t * T
      BY DEF Crosses
    <2> QED BY <2>1, <2>2
  <1> HIDE DEF c, m, t, M, T
  <1>4. ((c - 1) * m) * T < (fill * t) * T
    BY <1>1, <1>2, ScaleUp
  <1>5. (T * t) * fill <= (M * m) * fill
    BY <1>1, <1>3, ScaleUpWeak
  <1>6. /\ ((c - 1) * m) * T = ((c - 1) * T) * m
        /\ (fill * t) * T = (T * t) * fill
        /\ (M * m) * fill = (fill * M) * m
    BY <1>1, <1>2
  <1>6a. /\ ((c - 1) * T) * m \in Int /\ (T * t) * fill \in Int
         /\ (fill * M) * m \in Int
    BY <1>1, <1>2
  <1>7. ((c - 1) * T) * m < (fill * M) * m
    BY <1>4, <1>5, <1>6, <1>6a
  <1>8. (c - 1) * T < fill * M
    BY <1>1, <1>2, <1>7, CancelFactor
  <1>9. (c - 1) * T = c * T - T /\ c * T \in Int /\ fill * M \in Int
    BY <1>1, <1>2
  <1>10. c * T < fill * M + T
    BY <1>1, <1>8, <1>9
  <1> QED BY <1>10 DEF c, M, T

\* Buying from the pool and selling back at the same price never pays more than
\* was put in: both quotes are rounded against the trader.
THEOREM PoolQuotesFavourThePool ==
    ASSUME NEW p \in Nat \ {0}, NEW n \in Nat
    PROVE  /\ TokensFor(n, p) * p <= n * FullRate
           /\ UsdcFor(n, p) * FullRate <= n * p
           /\ UsdcFor(TokensFor(n, p), p) <= n
  <1>1. FullRate \in Nat \ {0}
    BY OrdersAssumption
  <1>2. /\ TokensFor(n, p) \in Nat
        /\ TokensFor(n, p) * p <= n * FullRate
    BY <1>1, QuoteBounds DEF TokensFor
  <1>3. \A k \in Nat : UsdcFor(k, p) \in Nat /\ UsdcFor(k, p) * FullRate <= k * p
    BY <1>1, QuoteBounds DEF UsdcFor
  <1> DEFINE u == UsdcFor(TokensFor(n, p), p)
             k == TokensFor(n, p)
  <1>4. u \in Nat /\ u * FullRate <= k * p /\ k * p <= n * FullRate
    BY <1>2, <1>3
  <1> HIDE DEF u, k
  <1>5. ~(n < u)
    <2>1. SUFFICES ASSUME n < u PROVE FALSE
      OBVIOUS
    <2>2. n * FullRate < u * FullRate
      BY <1>1, <1>4, <2>1, ScaleUp
    <2>3. k \in Nat
      BY <1>2 DEF k
    <2>4. k * p \in Int /\ n * FullRate \in Int /\ u * FullRate \in Int
      BY <1>1, <1>4, <2>3
    <2> QED BY <1>4, <2>2, <2>4
  <1>6. u <= n
    BY <1>4, <1>5
  <1> QED BY <1>2, <1>3, <1>6 DEF u

-----------------------------------------------------------------------------
(* The orders in the books *)

BookFields ==
    {"usdc", "allowance", "balance", "supply", "filled", "traded", "spent", "ok"}

\* A record with the fields of the books, whatever they hold.
IsBooks(s) == s = [f \in BookFields |-> s[f]]

\* The books t are the books s as far as the orders go.
SameOrders(s, t) ==
    IsBooks(t) /\ t.filled = s.filled /\ t.traded = s.traded /\ t.spent = s.spent

-----------------------------------------------------------------------------
(* Settling *)

LEMMA PanicOrders == ASSUME NEW s, IsBooks(s) PROVE SameOrders(s, Panic(s))
BY DEF Panic, SameOrders, IsBooks, BookFields

LEMMA PullOrders ==
    ASSUME NEW s, IsBooks(s), NEW from, NEW to, NEW n
    PROVE  SameOrders(s, Pull(s, from, to, n))
<1>1. \A a, u : SameOrders(s, [s EXCEPT !.allowance = a, !.usdc = u])
  BY DEF SameOrders, IsBooks, BookFields
<1>2. SameOrders(s, [s EXCEPT !.allowance = Debit(@, from, n), !.usdc = Move(@, from, to, n)])
  BY <1>1
<1> QED
  BY <1>2, PanicOrders DEF Pull

LEMMA TransferOrders ==
    ASSUME NEW s, IsBooks(s), NEW from, NEW to, NEW n
    PROVE  SameOrders(s, Transfer(s, from, to, n)) /\ SameOrders(s, Pay(s, to, n))
<1>1. \A u : SameOrders(s, [s EXCEPT !.usdc = u])
  BY DEF SameOrders, IsBooks, BookFields
<1> QED
  BY <1>1, PanicOrders DEF Transfer, Pay

LEMMA GiveOrders ==
    ASSUME NEW s, IsBooks(s), NEW from, NEW to, NEW p, NEW n
    PROVE  SameOrders(s, Give(s, from, to, p, n))
<1> DEFINE b == Move(s.balance[p], from, to, n)
           t == [s EXCEPT !.balance[p] = b]
<1>1. SameOrders(s, t)
  <2> HIDE DEF b
  <2> QED
    BY DEF SameOrders, IsBooks, BookFields
<1>2. Give(s, from, to, p, n) = t \/ Give(s, from, to, p, n) = Panic(s)
  BY DEF Give
<1> QED
  BY <1>1, <1>2, PanicOrders

LEMMA IssueOrders ==
    ASSUME NEW s, IsBooks(s), NEW to, NEW p, NEW n
    PROVE  SameOrders(s, Issue(s, to, p, n))
<1> DEFINE b == Credit(s.balance[p], to, n)
           u == s.supply[p] + n
           t == [s EXCEPT !.balance[p] = b, !.supply[p] = u]
<1>1. SameOrders(s, t)
  <2> HIDE DEF b, u
  <2> QED
    BY DEF SameOrders, IsBooks, BookFields
<1>2. Issue(s, to, p, n) = t \/ Issue(s, to, p, n) = Panic(s)
  BY DEF Issue
<1> QED
  BY <1>1, <1>2, PanicOrders

LEMMA MergeOrders ==
    ASSUME NEW s, IsBooks(s), NEW c, NEW p, NEW q, NEW n
    PROVE  SameOrders(s, Merge(s, c, p, q, n))
<1>1. \A b, v, u : SameOrders(s, [s EXCEPT !.balance = b, !.supply = v, !.usdc = u])
  BY ZenonT(60) DEF SameOrders, IsBooks, BookFields
<1> QED
  BY <1>1, PanicOrders DEF Merge

LEMMA SameOrdersTransitive ==
    ASSUME NEW s, NEW t, NEW u, SameOrders(s, t), SameOrders(t, u)
    PROVE  SameOrders(s, u)
BY DEF SameOrders

LEMMA ExecuteTradeOrders ==
    ASSUME NEW s, IsBooks(s), NEW o, NEW before, NEW fill
    PROVE  SameOrders(s, ExecuteTrade(s, o, before, fill))
<1> DEFINE counter == CounterAmount(o, before, fill)
           buys    == o.side = "Buy"
           cash    == IF buys THEN fill ELSE counter
           tokens  == IF buys THEN counter ELSE fill
           buyer   == IF buys THEN o.maker ELSE o.taker
           seller  == IF buys THEN o.taker ELSE o.maker
           fee     == FeeAmount(cash, o.feeRate)
           paid    == Pull(s, buyer, seller, cash - fee)
           charged == IF fee = 0 THEN paid ELSE Pull(paid, buyer, feeRecipient, fee)
           given   == Give(charged, seller, buyer, PositionOf(o), tokens)
<1>1. ExecuteTrade(s, o, before, fill) = IF counter = 0 THEN Panic(s) ELSE given
  BY DEF ExecuteTrade
<1> HIDE DEF counter, cash, tokens, buyer, seller, fee
<1>2. SameOrders(s, paid)
  BY PullOrders
<1>3. SameOrders(s, charged)
  <2> HIDE DEF paid
  <2>1. SameOrders(paid, Pull(paid, buyer, feeRecipient, fee))
    BY <1>2, PullOrders DEF SameOrders
  <2> QED
    BY <1>2, <2>1, SameOrdersTransitive
<1>4. SameOrders(s, given)
  <2> HIDE DEF charged
  <2>1. SameOrders(charged, given)
    BY <1>3, GiveOrders DEF SameOrders
  <2> QED
    BY <1>3, <2>1, SameOrdersTransitive
<1> QED
  BY <1>1, <1>4, PanicOrders

\* A chain of two settlements.
LEMMA PullIfAnyOrders ==
    ASSUME NEW r, NEW s, SameOrders(r, s), NEW from, NEW to, NEW n
    PROVE  SameOrders(r, PullIfAny(s, from, to, n)) /\ SameOrders(r, Pull(s, from, to, n))
<1>1. SameOrders(s, Pull(s, from, to, n))
  BY PullOrders DEF SameOrders
<1> QED
  BY <1>1, SameOrdersTransitive DEF PullIfAny

LEMMA PayIfAnyOrders ==
    ASSUME NEW r, NEW s, SameOrders(r, s), NEW to, NEW n
    PROVE  SameOrders(r, PayIfAny(s, to, n)) /\ SameOrders(r, Pay(s, to, n))
<1>1. SameOrders(s, Pay(s, to, n))
  BY TransferOrders DEF SameOrders
<1> QED
  BY <1>1, SameOrdersTransitive DEF PayIfAny

LEMMA ComplementaryBuyOrders ==
    ASSUME NEW s, IsBooks(s), NEW left, NEW leftFill, NEW right, NEW rightFill
    PROVE  SameOrders(s, ComplementaryBuy(s, left, leftFill, right, rightFill))
<1> DEFINE sets     == CounterAmount(left, filled[Key(left)], leftFill)
           leftFee  == FeeAmount(leftFill, left.feeRate)
           rightFee == FeeAmount(rightFill, right.feeRate)
           lNet     == leftFill - leftFee
           rNet     == rightFill - rightFee
           net      == leftFill - leftFee + rightFill - rightFee
           rest     == net - sets
           one      == PullIfAny(s, left.maker, feeRecipient, leftFee)
           fees     == PullIfAny(one, right.maker, feeRecipient, rightFee)
           bid      == Pull(fees, left.maker, ExchangeContract, lNet)
           bids     == Pull(bid, right.maker, ExchangeContract, rNet)
           token    == Issue(bids, left.maker, PositionOf(left), sets)
           tokens   == Issue(token, right.maker, PositionOf(right), sets)
           paid     == PayIfAny(tokens, feeRecipient, rest)
<1>1. \/ ComplementaryBuy(s, left, leftFill, right, rightFill) = paid
      \/ ComplementaryBuy(s, left, leftFill, right, rightFill) = Panic(s)
  BY DEF ComplementaryBuy
<1> HIDE DEF sets, leftFee, rightFee, lNet, rNet, rest, net
<1>2. SameOrders(s, s)
  BY DEF SameOrders
<1>3. SameOrders(s, one)
  BY <1>2, PullIfAnyOrders
<1>4. SameOrders(s, fees)
  <2> HIDE DEF one
  <2> QED
    BY <1>3, PullIfAnyOrders
<1>5. SameOrders(s, bid)
  <2> HIDE DEF fees
  <2> QED
    BY <1>4, PullIfAnyOrders
<1>6. SameOrders(s, bids)
  <2> HIDE DEF bid
  <2> QED
    BY <1>5, PullIfAnyOrders
<1>7. SameOrders(s, token)
  <2> HIDE DEF bids
  <2>1. SameOrders(bids, token)
    BY <1>6, IssueOrders DEF SameOrders
  <2> QED
    BY <1>6, <2>1, SameOrdersTransitive
<1>8. SameOrders(s, tokens)
  <2> HIDE DEF token
  <2>1. SameOrders(token, tokens)
    BY <1>7, IssueOrders DEF SameOrders
  <2> QED
    BY <1>7, <2>1, SameOrdersTransitive
<1>9. SameOrders(s, paid)
  <2> HIDE DEF tokens
  <2> QED
    BY <1>8, PayIfAnyOrders
<1> QED
  BY <1>1, <1>9, PanicOrders

LEMMA ComplementarySellOrders ==
    ASSUME NEW s, IsBooks(s), NEW left, NEW leftFill, NEW right, NEW rightFill
    PROVE  SameOrders(s, ComplementarySell(s, left, leftFill, right, rightFill))
<1> DEFINE leftQuote  == CounterAmount(left, filled[Key(left)], leftFill)
           rightQuote == CounterAmount(right, filled[Key(right)], rightFill)
           leftPaid   == leftQuote - FeeAmount(leftQuote, left.feeRate)
           rightPaid  == rightQuote - FeeAmount(rightQuote, right.feeRate)
           rest       == leftFill - leftPaid - rightPaid
           one        == Give(s, left.maker, ExchangeContract, PositionOf(left), leftFill)
           taken      == Give(one, right.maker, ExchangeContract, PositionOf(right), rightFill)
           merged     == Merge(taken, left.condition, PositionOf(left), PositionOf(right), leftFill)
           half       == Pay(merged, left.maker, leftPaid)
           paid       == Pay(half, right.maker, rightPaid)
           all        == PayIfAny(paid, feeRecipient, rest)
<1>1. \/ ComplementarySell(s, left, leftFill, right, rightFill) = all
      \/ ComplementarySell(s, left, leftFill, right, rightFill) = Panic(s)
  BY DEF ComplementarySell
<1> HIDE DEF leftQuote, rightQuote, leftPaid, rightPaid, rest
<1>2. SameOrders(s, one)
  BY GiveOrders
<1>3. SameOrders(s, taken)
  <2> HIDE DEF one
  <2>1. SameOrders(one, taken)
    BY <1>2, GiveOrders DEF SameOrders
  <2> QED
    BY <1>2, <2>1, SameOrdersTransitive
<1>4. SameOrders(s, merged)
  <2> HIDE DEF taken
  <2>1. SameOrders(taken, merged)
    BY <1>3, MergeOrders DEF SameOrders
  <2> QED
    BY <1>3, <2>1, SameOrdersTransitive
<1>5. SameOrders(s, half)
  <2> HIDE DEF merged
  <2> QED
    BY <1>4, PayIfAnyOrders
<1>6. SameOrders(s, paid)
  <2> HIDE DEF half
  <2> QED
    BY <1>5, PayIfAnyOrders
<1>7. SameOrders(s, all)
  <2> HIDE DEF paid
  <2> QED
    BY <1>6, PayIfAnyOrders
<1> QED
  BY <1>1, <1>7, PanicOrders

-----------------------------------------------------------------------------
(* Recording *)

\* Books whose entries for the orders are well typed.
OrdersTyped(s) ==
    IsBooks(s) /\ s.filled \in [Keys -> Nat] /\ s.traded \in [Order -> Dealings]

\* The books t are the books s with a fill of o recorded.
Recorded(t, s, o, total, gave, got, takes) ==
    /\ OrdersTyped(t)
    /\ t.spent = s.spent
    /\ t.filled[Key(o)] = total
    /\ \A k \in Keys : k # Key(o) => t.filled[k] = s.filled[k]
    /\ \A x \in Order : x # o => t.traded[x] = s.traded[x]
    /\ t.traded[o].gave = s.traded[o].gave + gave
    /\ t.traded[o].got = s.traded[o].got + got
    /\ t.traded[o].takes = s.traded[o].takes + takes
    /\ t.traded[o].made <=> s.traded[o].made \/ takes = 0

LEMMA RecordOrders ==
    ASSUME NEW s, OrdersTyped(s), NEW o \in Order,
           NEW total \in Nat, NEW gave \in Nat, NEW got \in Nat, NEW takes \in Nat
    PROVE  Recorded(Record(s, o, total, gave, got, takes), s, o, total, gave, got, takes)
<1> DEFINE d == s.traded[o]
           e == [gave |-> d.gave + gave, got |-> d.got + got, takes |-> d.takes + takes,
                 made |-> d.made \/ takes = 0]
           t == [s EXCEPT !.filled[Key(o)] = total, !.traded[o] = e]
<1>1. t = Record(s, o, total, gave, got, takes)
  BY DEF Record
<1>2. e \in Dealings /\ Key(o) \in Keys
  <2>1. d \in Dealings
    BY DEF OrdersTyped
  <2>2. d.gave + gave \in Nat /\ d.got + got \in Nat /\ d.takes + takes \in Nat
    BY <2>1 DEF Dealings
  <2> QED
    BY <2>2 DEF Dealings, Keys
<1> HIDE DEF e
<1>3. /\ IsBooks(t) /\ t.spent = s.spent
      /\ t.filled = [s.filled EXCEPT ![Key(o)] = total]
      /\ t.traded = [s.traded EXCEPT ![o] = e]
  BY DEF OrdersTyped, IsBooks, BookFields
<1> HIDE DEF t
<1>4. OrdersTyped(t) /\ t.filled[Key(o)] = total /\ t.traded[o] = e
  BY <1>2, <1>3 DEF OrdersTyped
<1>5. /\ \A k \in Keys : k # Key(o) => t.filled[k] = s.filled[k]
      /\ \A x \in Order : x # o => t.traded[x] = s.traded[x]
  BY <1>3 DEF OrdersTyped
<1>6. /\ e.gave = d.gave + gave /\ e.got = d.got + got /\ e.takes = d.takes + takes
      /\ e.made = (d.made \/ takes = 0)
  BY DEF e
<1>7. Recorded(t, s, o, total, gave, got, takes)
  BY <1>3, <1>4, <1>5, <1>6 DEF Recorded
<1> QED
  BY <1>1, <1>7

-----------------------------------------------------------------------------
(* What the books keep of every order *)

\* An order with its nonce to itself: its filled amount is what it gave, and it
\* got its limit price for it unless it took.
MakerKept(s, o) ==
    Alone(o) =>
        /\ s.filled[Key(o)] = s.traded[o].gave
        /\ s.traded[o].gave <= o.makerAmount
        /\ o.makerAmount # 0 /\ s.traded[o].takes = 0 =>
               s.traded[o].got = Quote(o, s.traded[o].gave)

\* An order that was only ever the taker's.
TakerKept(d, o) ==
    ~d.made =>
        /\ d.takes = 0 => d.gave = 0 /\ d.got = 0
        /\ d.takes > 0 =>
               d.gave * o.takerAmount < d.got * o.makerAmount + d.takes * o.takerAmount

Kept(s) == \A o \in Order : MakerKept(s, o) /\ TakerKept(s.traded[o], o)

\* A counter amount is a difference of quotes that grow.
LEMMA CounterType ==
    ASSUME NEW o \in Order, o.makerAmount # 0, NEW before \in Nat, NEW fill \in Nat
    PROVE  /\ CounterAmount(o, before, fill) \in Nat
           /\ Quote(o, before) \in Nat
           /\ Quote(o, before) + CounterAmount(o, before, fill) = Quote(o, before + fill)
<1> DEFINE m == o.makerAmount
           t == o.takerAmount
           a == before * t
           c == (before + fill) * t
<1>1. m \in Nat \ {0} /\ t \in Nat
  BY OrderAssumption
<1>2. a \in Nat /\ c \in Nat /\ c = a + fill * t /\ fill * t \in Nat
  BY <1>1
<1>3. a <= c
  <2> DEFINE d == fill * t
  <2> HIDE DEF a, c, d
  <2> QED
    BY <1>2 DEF d
<1>4. Quote(o, before) = a \div m /\ Quote(o, before + fill) = c \div m
  BY DEF Quote
<1> HIDE DEF a, c, m, t
<1>5. a \div m \in Nat /\ c \div m \in Nat /\ a \div m <= c \div m
  BY <1>1, <1>2, <1>3, DivisionBounds, DivisionMonotone
<1> DEFINE q == a \div m
           r == c \div m
<1> HIDE DEF q, r
<1>6. q \in Nat /\ r \in Nat /\ q <= r
  BY <1>5 DEF q, r
<1>7. CounterAmount(o, before, fill) = r - q /\ Quote(o, before) = q /\ Quote(o, before + fill) = r
  BY <1>4 DEF CounterAmount, q, r
<1> QED
  BY <1>6, <1>7

\* Another order's entries do not change when o's do.
LEMMA OthersKept ==
    ASSUME NEW s, NEW t, Kept(s), OrdersTyped(s), NEW o \in Order,
           \A k \in Keys : k # Key(o) => t.filled[k] = s.filled[k],
           \A x \in Order : x # o => t.traded[x] = s.traded[x]
    PROVE  \A x \in Order \ {o} : MakerKept(t, x) /\ TakerKept(t.traded[x], x)
<1> SUFFICES ASSUME NEW x \in Order \ {o}
             PROVE  MakerKept(t, x) /\ TakerKept(t.traded[x], x)
  OBVIOUS
<1>1. t.traded[x] = s.traded[x] /\ MakerKept(s, x) /\ TakerKept(s.traded[x], x)
  BY DEF Kept
<1>2. Alone(x) => t.filled[Key(x)] = s.filled[Key(x)]
  <2>1. Alone(x) => Key(o) # Key(x)
    BY DEF Alone
  <2> QED
    BY <2>1 DEF Keys
<1> QED
  BY <1>1, <1>2 DEF MakerKept

\* A fill at the order's own price.
LEMMA MakerRecord ==
    ASSUME NEW s, OrdersTyped(s), Kept(s), NEW o \in Order, o.makerAmount # 0,
           NEW before \in Nat, NEW fill \in Nat,
           Alone(o) => before = s.filled[Key(o)], before + fill <= o.makerAmount
    PROVE  LET t == Record(s, o, before + fill, fill, CounterAmount(o, before, fill), 0)
           IN  OrdersTyped(t) /\ Kept(t)
<1> DEFINE c == CounterAmount(o, before, fill)
           t == Record(s, o, before + fill, fill, c, 0)
           d == s.traded[o]
<1>1. /\ c \in Nat /\ Quote(o, before) \in Nat /\ before + fill \in Nat
      /\ Quote(o, before) + c = Quote(o, before + fill)
  BY CounterType
<1>2. d \in Dealings /\ MakerKept(s, o)
  BY DEF OrdersTyped, Kept
<1> HIDE DEF c
<1>3. /\ OrdersTyped(t) /\ t.filled[Key(o)] = before + fill
      /\ \A k \in Keys : k # Key(o) => t.filled[k] = s.filled[k]
      /\ \A x \in Order : x # o => t.traded[x] = s.traded[x]
      /\ t.traded[o].gave = d.gave + fill /\ t.traded[o].got = d.got + c
      /\ t.traded[o].takes = d.takes + 0 /\ (t.traded[o].made <=> d.made \/ 0 = 0)
  <2> DEFINE total == before + fill
  <2>1. total \in Nat
    OBVIOUS
  <2> HIDE DEF total
  <2>2. Recorded(Record(s, o, total, fill, c, 0), s, o, total, fill, c, 0)
    BY <1>1, <2>1, RecordOrders
  <2> QED
    BY <2>2 DEF total, Recorded
<1> HIDE DEF t
<1>4. MakerKept(t, o)
  <2> SUFFICES ASSUME Alone(o)
               PROVE  /\ before + fill = d.gave + fill
                      /\ d.gave + fill <= o.makerAmount
                      /\ d.takes + 0 = 0 => d.got + c = Quote(o, d.gave + fill)
    BY <1>3 DEF MakerKept
  <2>1. d.gave = before /\ (d.takes = 0 => d.got = Quote(o, before))
    BY <1>2 DEF MakerKept
  <2>2. d.takes \in Nat
    BY <1>2 DEF Dealings
  <2> QED
    BY <1>1, <2>1, <2>2
<1>5. TakerKept(t.traded[o], o)
  BY <1>3 DEF TakerKept
<1>6. \A x \in Order \ {o} : MakerKept(t, x) /\ TakerKept(t.traded[x], x)
  BY <1>3, OthersKept
<1> QED
  BY <1>3, <1>4, <1>5, <1>6 DEF Kept, t, c

\* The fill of a taker's order by n maker orders, at no more than its limit and
\* less than one unit for each.
LEMMA TakerRecord ==
    ASSUME NEW s, OrdersTyped(s), Kept(s), NEW o \in Order, o.makerAmount # 0,
           NEW before \in Nat, NEW fill \in Nat, NEW tokens \in Nat, NEW n \in Nat \ {0},
           Alone(o) => before = s.filled[Key(o)], before + fill <= o.makerAmount,
           fill * o.takerAmount < tokens * o.makerAmount + n * o.takerAmount
    PROVE  LET t == Record(s, o, before + fill, fill, tokens, n)
           IN  OrdersTyped(t) /\ Kept(t)
<1> DEFINE t == Record(s, o, before + fill, fill, tokens, n)
           d == s.traded[o]
           M == o.makerAmount
           T == o.takerAmount
<1>1. d \in Dealings /\ MakerKept(s, o) /\ TakerKept(d, o) /\ M \in Nat /\ T \in Nat
  BY OrderAssumption DEF OrdersTyped, Kept
<1>2. d.gave \in Nat /\ d.got \in Nat /\ d.takes \in Nat
  BY <1>1 DEF Dealings
<1>3. /\ OrdersTyped(t) /\ t.filled[Key(o)] = before + fill
      /\ \A k \in Keys : k # Key(o) => t.filled[k] = s.filled[k]
      /\ \A x \in Order : x # o => t.traded[x] = s.traded[x]
      /\ t.traded[o].gave = d.gave + fill /\ t.traded[o].got = d.got + tokens
      /\ t.traded[o].takes = d.takes + n /\ (t.traded[o].made <=> d.made \/ n = 0)
  <2> DEFINE total == before + fill
  <2>1. total \in Nat
    OBVIOUS
  <2> HIDE DEF total
  <2>2. Recorded(Record(s, o, total, fill, tokens, n), s, o, total, fill, tokens, n)
    BY <2>1, RecordOrders
  <2> QED
    BY <2>2 DEF total, Recorded
<1> HIDE DEF t
<1>4. MakerKept(t, o)
  <2> SUFFICES ASSUME Alone(o)
               PROVE  /\ before + fill = d.gave + fill
                      /\ d.gave + fill <= o.makerAmount
                      /\ d.takes + n # 0
    BY <1>3 DEF MakerKept
  <2>1. d.gave = before
    BY <1>1 DEF MakerKept
  <2> QED
    BY <1>2, <2>1
<1>5. TakerKept(t.traded[o], o)
  <2> SUFFICES ASSUME ~d.made
               PROVE  /\ d.takes + n # 0
                      /\ (d.gave + fill) * T < (d.got + tokens) * M + (d.takes + n) * T
    BY <1>3 DEF TakerKept
  <2> HIDE DEF M, T
  <2>1. /\ (d.gave + fill) * T = d.gave * T + fill * T
        /\ (d.got + tokens) * M = d.got * M + tokens * M
        /\ (d.takes + n) * T = d.takes * T + n * T
    BY <1>1, <1>2
  <2>2. /\ d.gave * T \in Nat /\ fill * T \in Nat /\ d.got * M \in Nat /\ tokens * M \in Nat
        /\ d.takes * T \in Nat /\ n * T \in Nat
    BY <1>1, <1>2
  <2>3. fill * T < tokens * M + n * T
    BY DEF M, T
  <2>4. d.gave * T <= d.got * M + d.takes * T
    <3>1. CASE d.takes = 0
      <4>1. d.gave = 0 /\ d.got = 0
        BY <1>1, <3>1 DEF TakerKept
      <4> QED
        BY <1>1, <3>1, <4>1
    <3>2. CASE d.takes > 0
      <4>1. d.gave * T < d.got * M + d.takes * T
        BY <1>1, <3>2 DEF TakerKept, M, T
      <4> QED
        BY <2>2, <4>1
    <3> QED
      BY <1>2, <3>1, <3>2
  <2>5. (d.gave + fill) * T < (d.got + tokens) * M + (d.takes + n) * T
    BY <2>1, <2>2, <2>3, <2>4
  <2>6. d.takes + n # 0
    BY <1>2
  <2> QED
    BY <2>5, <2>6
<1>6. \A x \in Order \ {o} : MakerKept(t, x) /\ TakerKept(t.traded[x], x)
  BY <1>3, OthersKept
<1> QED
  BY <1>3, <1>4, <1>5, <1>6 DEF Kept, t

LEMMA SameKept ==
    ASSUME NEW s, NEW t, Kept(s), t.filled = s.filled, t.traded = s.traded
    PROVE  Kept(t)
BY DEF Kept, MakerKept

LEMMA SameTyped ==
    ASSUME NEW s, NEW t, OrdersTyped(s), SameOrders(s, t)
    PROVE  OrdersTyped(t)
BY DEF OrdersTyped, SameOrders

-----------------------------------------------------------------------------
(* The loop of match_orders *)

\* An order that can be filled.
Live(o) ==
    /\ Key(o) \notin cancelled
    /\ now < o.expiration
    /\ Tradeable(o.condition, o.outcome)

\* The books after k turns in which the makers gave so many tokens: the taker's
\* side is as it was, and so are the orders that cannot be filled.
Turned(s, taker, k, tokens) ==
    /\ OrdersTyped(s) /\ Kept(s) /\ s.spent \in Nat
    /\ s.spent * taker.takerAmount + k
          <= tokens * taker.makerAmount + k * taker.takerAmount
    /\ \A o \in Order : o.side = taker.side \/ ~Live(o) => s.traded[o] = traded[o]
    /\ \A o \in Order : o.side = taker.side /\ Alone(o) =>
           s.filled[Key(o)] = filled[Key(o)]

\* One turn adds up, in numbers.
LEMMA TurnBound ==
    ASSUME NEW spent \in Nat, NEW counter \in Nat, NEW tokens \in Nat, NEW fill \in Nat,
           NEW k \in Nat, NEW M \in Nat, NEW T \in Nat,
           spent * T + k <= tokens * M + k * T, counter * T < fill * M + T
    PROVE  (spent + counter) * T + (k + 1) <= (tokens + fill) * M + (k + 1) * T
<1>1. /\ (spent + counter) * T = spent * T + counter * T
      /\ (tokens + fill) * M = tokens * M + fill * M
      /\ (k + 1) * T = k * T + T
  OBVIOUS
<1>2. /\ spent * T \in Nat /\ counter * T \in Nat /\ tokens * M \in Nat /\ fill * M \in Nat
      /\ k * T \in Nat
  OBVIOUS
<1> QED
  BY <1>1, <1>2

LEMMA TurnStep ==
    ASSUME NEW taker \in Order, taker.makerAmount # 0, taker.takerAmount # 0,
           NEW s, NEW k \in Nat, NEW tokens \in Nat, Turned(s, taker, k, tokens),
           NEW o \in Order, NEW fill \in Nat
    PROVE  Turned(FillMaker(s, taker, o, fill), taker, k + 1, tokens + fill)
<1> DEFINE before  == s.filled[Key(o)]
           counter == CounterAmount(o, before, fill)
           settled == ExecuteTrade(s, o, before, fill)
           guard   == ValidAmount(fill) /\ LimitMatch(taker, o) /\ Accepted(o, before, fill)
           r       == Record(settled, o, before + fill, fill, counter, 0)
           t       == [r EXCEPT !.spent = @ + counter]
           M == taker.makerAmount
           T == taker.takerAmount
<1>1. M \in Nat \ {0} /\ T \in Nat \ {0} /\ before \in Nat
      /\ OrdersTyped(s) /\ Kept(s) /\ s.spent \in Nat
      /\ s.spent * T + k <= tokens * M + k * T
  BY OrderAssumption DEF Turned, OrdersTyped, Keys
<1>2. FillMaker(s, taker, o, fill) = IF guard THEN t ELSE Panic(s)
  BY DEF FillMaker
<1>3. CASE ~guard
  <2>1. SameOrders(s, Panic(s))
    BY <1>1, PanicOrders DEF OrdersTyped
  <2>2. OrdersTyped(Panic(s)) /\ Kept(Panic(s))
    BY <1>1, <2>1, SameKept, SameTyped DEF SameOrders
  <2>3. (s.spent + 0) * T + (k + 1) <= (tokens + fill) * M + (k + 1) * T
    <3> HIDE DEF M, T
    <3>1. 0 * T < fill * M + T
      <4>1. 0 * T = 0 /\ fill * M \in Nat
        BY <1>1
      <4> QED
        BY <1>1, <4>1
    <3> QED
      BY <1>1, <3>1, TurnBound
  <2>4. Turned(Panic(s), taker, k + 1, tokens + fill)
    BY <1>1, <2>1, <2>2, <2>3 DEF Turned, SameOrders
  <2> HIDE DEF guard
  <2> QED
    BY <1>2, <1>3, <2>4
<1>4. CASE guard
  <2>1. /\ LimitMatch(taker, o) /\ Accepted(o, before, fill)
        /\ o.makerAmount \in Nat \ {0} /\ o.takerAmount \in Nat \ {0}
        /\ before + fill <= o.makerAmount /\ Live(o) /\ o.side # taker.side
        /\ Crosses(taker, o)
    BY <1>4, OrderAssumption DEF Accepted, LimitMatch, Live
  <2>2. FillMaker(s, taker, o, fill) = t
    BY <1>2, <1>4
  <2>3. counter \in Nat
    BY <1>1, <2>1, CounterType
  <2>4. counter * T < fill * M + T
    BY <1>1, <2>1, TakerPaysItsLimit
  <2> HIDE DEF guard
  <2>5. SameOrders(s, settled)
    BY <1>1, ExecuteTradeOrders DEF OrdersTyped
  <2> HIDE DEF settled
  <2>6. OrdersTyped(settled) /\ Kept(settled) /\ settled.filled[Key(o)] = before
    BY <1>1, <2>5, SameKept, SameTyped DEF SameOrders
  <2>7. OrdersTyped(r) /\ Kept(r)
    BY <1>1, <2>1, <2>6, MakerRecord
  <2>8. Recorded(r, settled, o, before + fill, fill, counter, 0)
    <3> DEFINE total == before + fill
    <3>1. total \in Nat
      BY <1>1
    <3> HIDE DEF total, counter, before
    <3>2. Recorded(Record(settled, o, total, fill, counter, 0), settled, o, total, fill, counter, 0)
      BY <2>3, <2>6, <3>1, RecordOrders
    <3> QED
      BY <3>2 DEF total
  <2> HIDE DEF r, counter, before
  <2>9. /\ IsBooks(t) /\ t.filled = r.filled /\ t.traded = r.traded
        /\ t.spent = s.spent + counter
    BY <2>5, <2>7, <2>8 DEF Recorded, OrdersTyped, IsBooks, BookFields, SameOrders
  <2> HIDE DEF t
  <2>10. OrdersTyped(t) /\ Kept(t)
    BY <2>7, <2>9, SameKept DEF OrdersTyped
  <2>11. /\ t.spent \in Nat
         /\ t.spent * T + (k + 1) <= (tokens + fill) * M + (k + 1) * T
    <3> HIDE DEF M, T
    <3>1. (s.spent + counter) * T + (k + 1) <= (tokens + fill) * M + (k + 1) * T
      BY <1>1, <2>3, <2>4, TurnBound
    <3> QED
      BY <1>1, <2>3, <2>9, <3>1
  <2>12. \A x \in Order : x # o => t.traded[x] = s.traded[x]
    BY <2>5, <2>8, <2>9 DEF Recorded, SameOrders
  <2>13. \A x \in Order : x # o /\ Alone(x) => t.filled[Key(x)] = s.filled[Key(x)]
    <3>1. \A x \in Order : x # o /\ Alone(x) => Key(x) \in Keys /\ Key(x) # Key(o)
      BY DEF Alone, Keys
    <3> QED
      BY <2>5, <2>8, <2>9, <3>1 DEF Recorded, SameOrders
  <2>14. Turned(t, taker, k + 1, tokens + fill)
    BY <2>1, <2>10, <2>11, <2>12, <2>13 DEF Turned
  <2> QED
    BY <2>2, <2>14
<1> QED
  BY <1>3, <1>4

\* The books after each turn of the loop, as a function of the turn.
Turns(f, taker, makers, fills, n) ==
    f = [k \in 0..n |->
            IF k = 0 THEN Books ELSE FillMaker(f[k - 1], taker, makers[k], fills[k])]

LEMMA TurnsExist ==
    ASSUME NEW taker, NEW makers, NEW fills, NEW n \in Nat
    PROVE  \E f : Turns(f, taker, makers, fills, n)
<1> DEFINE Is(f, m) == Turns(f, taker, makers, fills, m)
           T == {m \in Nat : ~\E f : Is(f, m)}
           G(s, k) == FillMaker(s, taker, makers[k], fills[k])
<1>1. SUFFICES ASSUME T # {} PROVE FALSE
  OBVIOUS
<1>2. PICK m \in T : \A k \in T : m <= k
  BY <1>1, Least
<1>3. CASE m = 0
  <2>1. Is([k \in {0} |-> Books], 0)
    BY DEF Turns
  <2> QED
    BY <1>2, <1>3, <2>1
<1>4. CASE m # 0
  <2>1. m - 1 \in Nat /\ m - 1 \notin T /\ m \in Nat
    BY <1>2, <1>4
  <2>2. PICK f : Is(f, m - 1)
    BY <2>1
  <2> DEFINE g == [k \in 0..m |-> IF k = m THEN G(f[m - 1], m) ELSE f[k]]
  <2>3. \A k \in 0..(m - 1) : f[k] = IF k = 0 THEN Books ELSE G(f[k - 1], k)
    BY <2>2 DEF Turns
  <2> HIDE DEF G
  <2>4. \A k \in 0..(m - 1) : g[k] = f[k]
    BY <2>1
  <2>5. g[m] = G(f[m - 1], m)
    BY <2>1
  <2>6. ASSUME NEW k \in 0..m PROVE g[k] = IF k = 0 THEN Books ELSE G(g[k - 1], k)
    <3>1. CASE k = m
      BY <1>4, <2>1, <2>4, <2>5, <3>1
    <3>2. CASE k # m
      BY <2>1, <2>3, <2>4, <3>2
    <3> QED
      BY <3>1, <3>2
  <2>7. g = [k \in 0..m |-> IF k = 0 THEN Books ELSE G(g[k - 1], k)]
    BY <2>6
  <2>8. Is(g, m)
    BY <2>7 DEF Turns, G
  <2> QED
    BY <1>2, <2>8
<1> QED
  BY <1>3, <1>4

\* match_orders, with its loop as that function.
LEMMA MatchTurns ==
    ASSUME NEW taker, NEW makers, NEW fills, NEW takerFill, Len(makers) \in Nat,
           MatchOrders(taker, makers, fills, takerFill)
    PROVE  LET n == Len(makers)
               before == filled[Key(taker)]
           IN  \E f :
                  /\ Turns(f, taker, makers, fills, n)
                  /\ Accepted(taker, before, takerFill)
                  /\ f[n].spent = takerFill
                  /\ Commit(Record(f[n], taker, before + takerFill, takerFill,
                                   TotalOf(fills), n))
<1> DEFINE n == Len(makers)
           before == filled[Key(taker)]
           after[k \in 0..n] ==
              IF k = 0 THEN Books ELSE FillMaker(after[k - 1], taker, makers[k], fills[k])
<1>1. after = CHOOSE f : f = [k \in 0..n |->
                 IF k = 0 THEN Books ELSE FillMaker(f[k - 1], taker, makers[k], fills[k])]
  OBVIOUS
<1>2. /\ Accepted(taker, before, takerFill)
      /\ after[n].spent = takerFill
      /\ Commit(Record(after[n], taker, before + takerFill, takerFill, TotalOf(fills), n))
  BY DEF MatchOrders
<1> HIDE DEF after
<1>3. Turns(after, taker, makers, fills, n)
  BY <1>1, TurnsExist DEF Turns
<1> QED
  BY <1>2, <1>3

\* What the first k of the fills add up to.
Sum(fills, k) == TotalOf([j \in 1..k |-> fills[j]])

LEMMA SumStep ==
    ASSUME NEW n \in Nat, NEW fills \in [1..n -> Nat], NEW k \in Nat, k < n
    PROVE  Sum(fills, k) \in Nat /\ Sum(fills, k + 1) = Sum(fills, k) + fills[k + 1]
<1> DEFINE x == k + 1
           f == [j \in 1..k |-> fills[j]]
           g == [j \in 1..x |-> IF j = x THEN 0 ELSE fills[j]]
           h == [j \in 1..x |-> fills[j]]
<1>1. k + 1 \in 1..(k + 1) /\ k + 1 \in 1..n /\ fills[k + 1] \in Nat
  OBVIOUS
<1>2. f \in [1..k -> Nat] /\ g \in [1..(k + 1) -> Nat]
  OBVIOUS
<1>3. IsFiniteSet(1..k) /\ IsFiniteSet(1..(k + 1))
  BY FS_Interval
<1>4. Units(f) = Units(g)
  <2>1. ASSUME NEW u PROVE u \in Units(f) <=> u \in Units(g)
    <3>1. u \in Units(f) <=> \E j \in 1..k : u \in {j} \X (1..fills[j])
      BY DEF Units
    <3>2. u \in Units(g) <=> \E j \in 1..(k + 1) : u \in {j} \X (1..g[j])
      BY DEF Units
    <3>3. \A j \in 1..(k + 1) : j = k + 1 \/ j \in 1..k
      OBVIOUS
    <3>4. \A j \in 1..k : j \in 1..(k + 1) /\ g[j] = fills[j]
      OBVIOUS
    <3>5. g[k + 1] = 0 /\ 1..0 = {}
      BY <1>1
    <3> HIDE DEF f, g
    <3> QED
      BY <3>1, <3>2, <3>3, <3>4, <3>5
  <2> QED
    BY <2>1
<1>5. TotalOf(f) = TotalOf(g) /\ TotalOf(f) \in Nat
  BY <1>2, <1>3, <1>4, TotalType DEF TotalOf
<1>6. h = Credit(g, k + 1, fills[k + 1])
  <2> DEFINE e == [g EXCEPT ![x] = fills[x]]
  <2>1. g[x] = 0 /\ 0 + fills[x] = fills[x] /\ x \in 1..x
    BY <1>1
  <2>2. Credit(g, x, fills[x]) = e
    BY <2>1 DEF Credit
  <2>3. h = e
    <3> HIDE DEF x
    <3> QED
      BY <2>1
  <2> QED
    BY <2>2, <2>3
<1>7. TotalOf(Credit(g, k + 1, fills[k + 1])) = TotalOf(g) + fills[k + 1]
  <2> HIDE DEF g
  <2> DEFINE S == 1..(k + 1)
             v == fills[k + 1]
  <2>1. IsFiniteSet(S) /\ g \in [S -> Nat] /\ x \in S /\ v \in Nat
    BY <1>1, <1>2, <1>3
  <2> HIDE DEF S, x, v
  <2>2. TotalOf(Credit(g, x, v)) = TotalOf(g) + v
    BY <2>1, CreditTotal
  <2> QED
    BY <2>2 DEF x, v
<1> QED
  BY <1>5, <1>6, <1>7 DEF Sum

-----------------------------------------------------------------------------
(* The invariant *)

ExInv == OrdersTyped(Books) /\ Kept(Books)

LEMMA BooksFields == IsBooks(Books) /\ Books.filled = filled /\ Books.traded = traded
                        /\ Books.spent = 0
BY DEF Books, IsBooks, BookFields

\* The loop keeps what one turn keeps.
LEMMA TurnsKept ==
    ASSUME ExInv, NEW taker \in Order, taker.makerAmount # 0, taker.takerAmount # 0,
           NEW n \in Nat, NEW makers \in [1..n -> Order], NEW fills \in [1..n -> Nat], NEW f,
           Turns(f, taker, makers, fills, n)
    PROVE  Turned(f[n], taker, n, Sum(fills, n)) /\ Sum(fills, n) \in Nat
<1> DEFINE P(k) == Turned(f[k], taker, k, Sum(fills, k)) /\ Sum(fills, k) \in Nat
           T == {k \in 0..n : ~P(k)}
<1>1. SUFFICES ASSUME T # {} PROVE FALSE
  OBVIOUS
<1>2. PICK k \in T : \A j \in T : k <= j
  <2>1. T \subseteq Nat
    OBVIOUS
  <2> HIDE DEF T
  <2> QED
    BY <1>1, <2>1, Least
<1>3. k \in 0..n /\ ~P(k)
  OBVIOUS
<1>4. CASE k = 0
  <2>1. f[0] = Books
    BY DEF Turns
  <2>2. Sum(fills, 0) = 0
    <3>1. [j \in 1..0 |-> fills[j]] = [j \in 1..0 |-> 0]
      OBVIOUS
    <3> QED
      BY <3>1, EmptyTotal DEF Sum
  <2>3. 0 * taker.takerAmount = 0 /\ 0 * taker.makerAmount = 0
    BY OrderAssumption
  <2>4. Turned(Books, taker, 0, 0)
    BY <2>3, BooksFields DEF ExInv, Turned
  <2> QED
    BY <1>3, <1>4, <2>1, <2>2, <2>4
<1>5. CASE k # 0
  <2> DEFINE j == k - 1
  <2>1. j \in 0..n /\ j \notin T /\ j \in Nat /\ j < n /\ k = j + 1 /\ k \in 1..n
    BY <1>2, <1>3, <1>5
  <2>2. P(j)
    BY <2>1
  <2>3. f[k] = FillMaker(f[j], taker, makers[k], fills[k])
    BY <2>1, <1>3, <1>5 DEF Turns
  <2>4. Sum(fills, k) = Sum(fills, j) + fills[k] /\ fills[k] \in Nat /\ makers[k] \in Order
    BY <2>1, SumStep
  <2> HIDE DEF j
  <2>5. Turned(FillMaker(f[j], taker, makers[k], fills[k]), taker, j + 1, Sum(fills, j) + fills[k])
    BY <2>1, <2>2, <2>4, TurnStep
  <2> QED
    BY <1>3, <2>1, <2>2, <2>3, <2>4, <2>5
<1> QED
  BY <1>4, <1>5

-----------------------------------------------------------------------------
(* The actions *)

\* The invariant again, and orders that cannot be filled are not.
Preserved == ExInv' /\ \A o \in Order : ~Live(o) => traded'[o] = traded[o]

LEMMA UnchangedOrders == ASSUME ExInv, UNCHANGED <<filled, traded>> PROVE Preserved
<1>1. Books'.filled = filled' /\ Books'.traded = traded' /\ IsBooks(Books')
  BY DEF Books, IsBooks, BookFields
<1>2. Books.filled = filled /\ Books.traded = traded
  BY BooksFields
<1>3. OrdersTyped(Books')
  BY <1>1, <1>2 DEF ExInv, OrdersTyped
<1>4. Kept(Books')
  BY <1>1, <1>2, SameKept DEF ExInv
<1> QED
  BY <1>3, <1>4 DEF ExInv, Preserved, OrdersTyped, Kept, MakerKept, TakerKept, IsBooks

\* A transaction that records fills.
LEMMA CommitStep ==
    ASSUME ExInv, NEW s, OrdersTyped(s), Kept(s), Commit(s),
           \A o \in Order : ~Live(o) => s.traded[o] = traded[o]
    PROVE  Preserved
<1>1. filled' = s.filled /\ traded' = s.traded
  BY DEF Commit
<1>2. Books'.filled = filled' /\ Books'.traded = traded' /\ IsBooks(Books')
  BY DEF Books, IsBooks, BookFields
<1>3. OrdersTyped(Books')
  BY <1>1, <1>2 DEF OrdersTyped
<1>4. Kept(Books')
  BY <1>1, <1>2, SameKept
<1> QED
  BY <1>1, <1>3, <1>4 DEF ExInv, Preserved, OrdersTyped, Kept, MakerKept, TakerKept, IsBooks

\* A transaction that only settles.
LEMMA SettledOrders ==
    ASSUME NEW s, SameOrders(Books, s), Commit(s)
    PROVE  UNCHANGED <<filled, traded>>
BY BooksFields DEF SameOrders, Commit

LEMMA AcceptedLive ==
    ASSUME NEW o \in Order, NEW before, NEW fill, Accepted(o, before, fill)
    PROVE  /\ Live(o) /\ o.makerAmount \in Nat \ {0} /\ o.takerAmount \in Nat \ {0}
           /\ before + fill <= o.makerAmount
BY OrderAssumption DEF Accepted, Live

LEMMA FilledType == ASSUME ExInv, NEW o \in Order PROVE filled[Key(o)] \in Nat
BY BooksFields DEF ExInv, OrdersTyped, Keys

LEMMA FillStep ==
    ASSUME ExInv, NEW o \in Order, NEW fill \in Nat, FillOrder(o, fill)
    PROVE  Preserved
<1> DEFINE before  == filled[Key(o)]
           settled == ExecuteTrade(Books, o, before, fill)
           t == Record(settled, o, before + fill, fill, CounterAmount(o, before, fill), 0)
<1>1. Accepted(o, before, fill) /\ Commit(t)
  BY DEF FillOrder
<1>2. /\ before \in Nat /\ Live(o) /\ o.makerAmount \in Nat \ {0}
      /\ before + fill <= o.makerAmount
  BY <1>1, FilledType, AcceptedLive
<1>3. SameOrders(Books, settled)
  BY BooksFields, ExecuteTradeOrders
<1> HIDE DEF settled
<1>4. /\ OrdersTyped(settled) /\ Kept(settled)
      /\ settled.filled = filled /\ settled.traded = traded
  BY <1>3, BooksFields, SameKept, SameTyped DEF ExInv, SameOrders
<1>5. OrdersTyped(t) /\ Kept(t)
  BY <1>2, <1>4, MakerRecord
<1>6. \A x \in Order : x # o => t.traded[x] = traded[x]
  <2> DEFINE total == before + fill
             counter == CounterAmount(o, before, fill)
  <2>1. total \in Nat /\ counter \in Nat
    <3> HIDE DEF before
    <3>1. counter \in Nat
      BY <1>2, CounterType
    <3> QED
      BY <1>2, <3>1
  <2> HIDE DEF total, counter
  <2>2. Recorded(Record(settled, o, total, fill, counter, 0), settled, o, total, fill, counter, 0)
    BY <1>4, <2>1, RecordOrders
  <2> QED
    BY <1>4, <2>2 DEF total, counter, Recorded
<1> QED
  BY <1>1, <1>2, <1>5, <1>6, CommitStep

LEMMA MatchStep ==
    ASSUME ExInv, NEW taker \in Order, NEW k \in Nat \ {0}, NEW takerFill \in Nat,
           NEW makers \in [1..k -> Order], NEW fills \in [1..k -> Nat],
           MatchOrders(taker, makers, fills, takerFill)
    PROVE  Preserved
<1> DEFINE before == filled[Key(taker)]
           tokens == TotalOf(fills)
           M == taker.makerAmount
           T == taker.takerAmount
<1>1. Len(makers) = k
  <2>1. k \in Nat /\ DOMAIN makers = 1..k
    OBVIOUS
  <2>2. makers \in Seq(Order)
    BY <2>1
  <2> QED
    BY <2>1, <2>2, LenProperties
<1>2. PICK f :
          /\ Turns(f, taker, makers, fills, k)
          /\ Accepted(taker, before, takerFill)
          /\ f[k].spent = takerFill
          /\ Commit(Record(f[k], taker, before + takerFill, takerFill, tokens, k))
  BY <1>1, MatchTurns
<1>3. /\ before \in Nat /\ Live(taker) /\ M \in Nat \ {0} /\ T \in Nat \ {0}
      /\ before + takerFill <= M
  BY <1>2, FilledType, AcceptedLive
<1>4. Sum(fills, k) = tokens
  BY DEF Sum
<1> DEFINE s == f[k]
           t == Record(s, taker, before + takerFill, takerFill, tokens, k)
<1>5. Turned(s, taker, k, tokens) /\ tokens \in Nat
  <2>1. Turned(f[k], taker, k, Sum(fills, k)) /\ Sum(fills, k) \in Nat
    BY <1>2, <1>3, TurnsKept
  <2> QED
    BY <1>4, <2>1
<1> HIDE DEF tokens
<1>6. /\ OrdersTyped(s) /\ Kept(s)
      /\ takerFill * T + k <= tokens * M + k * T
      /\ \A o \in Order : o.side = taker.side \/ ~Live(o) => s.traded[o] = traded[o]
      /\ Alone(taker) => s.filled[Key(taker)] = before
  BY <1>2, <1>5 DEF Turned
<1> HIDE DEF s
<1>7. takerFill * T < tokens * M + k * T
  <2> HIDE DEF M, T
  <2>1. takerFill * T \in Nat /\ tokens * M \in Nat /\ k * T \in Nat
    BY <1>3, <1>5
  <2> QED
    BY <1>6, <2>1
<1>8. OrdersTyped(t) /\ Kept(t)
  BY <1>3, <1>5, <1>6, <1>7, TakerRecord
<1>9. \A x \in Order : x # taker => t.traded[x] = s.traded[x]
  <2> DEFINE total == before + takerFill
  <2>1. total \in Nat
    BY <1>3
  <2> HIDE DEF total
  <2>2. Recorded(Record(s, taker, total, takerFill, tokens, k), s, taker, total, takerFill,
                 tokens, k)
    BY <1>5, <1>6, <2>1, RecordOrders
  <2> QED
    BY <2>2 DEF total, Recorded
<1>10. Commit(t)
  BY <1>2 DEF s
<1> QED
  BY <1>3, <1>6, <1>8, <1>9, <1>10, CommitStep

LEMMA ComplementaryStep ==
    ASSUME ExInv, NEW left \in Order, NEW right \in Order,
           NEW leftFill \in Nat, NEW rightFill \in Nat,
           MatchComplementaryOrders(left, leftFill, right, rightFill)
    PROVE  Preserved
<1> DEFINE buys    == left.side = "Buy"
           settled == IF buys
                      THEN ComplementaryBuy(Books, left, leftFill, right, rightFill)
                      ELSE ComplementarySell(Books, left, leftFill, right, rightFill)
           lBefore == filled[Key(left)]
           rBefore == filled[Key(right)]
           lGot    == CounterAmount(left, lBefore, leftFill)
           rGot    == CounterAmount(right, rBefore, rightFill)
           one     == Record(settled, left, lBefore + leftFill, leftFill, lGot, 0)
           t       == Record(one, right, rBefore + rightFill, rightFill, rGot, 0)
<1>1. /\ Accepted(left, lBefore, leftFill) /\ Accepted(right, rBefore, rightFill)
      /\ left # right /\ Commit(t)
  BY DEF MatchComplementaryOrders, ComplementaryMatch
<1>2. /\ lBefore \in Nat /\ Live(left) /\ left.makerAmount \in Nat \ {0}
      /\ lBefore + leftFill <= left.makerAmount
      /\ rBefore \in Nat /\ Live(right) /\ right.makerAmount \in Nat \ {0}
      /\ rBefore + rightFill <= right.makerAmount
  BY <1>1, FilledType, AcceptedLive
<1>3. SameOrders(Books, settled)
  BY BooksFields, ComplementaryBuyOrders, ComplementarySellOrders
<1> HIDE DEF settled
<1>4. /\ OrdersTyped(settled) /\ Kept(settled)
      /\ settled.filled = filled /\ settled.traded = traded
  BY <1>3, BooksFields, SameKept, SameTyped DEF ExInv, SameOrders
<1>5. OrdersTyped(one) /\ Kept(one)
  BY <1>2, <1>4, MakerRecord
<1>6. lGot \in Nat /\ rGot \in Nat
  BY <1>2, CounterType
<1>7. Recorded(one, settled, left, lBefore + leftFill, leftFill, lGot, 0)
  <2> DEFINE total == lBefore + leftFill
  <2>1. total \in Nat
    BY <1>2
  <2> HIDE DEF total, lGot
  <2>2. Recorded(Record(settled, left, total, leftFill, lGot, 0), settled, left, total, leftFill,
                 lGot, 0)
    BY <1>4, <1>6, <2>1, RecordOrders
  <2> QED
    BY <2>2 DEF total, lGot
<1> HIDE DEF one
<1>8. Alone(right) => one.filled[Key(right)] = rBefore
  <2>1. Alone(right) => Key(right) # Key(left) /\ Key(right) \in Keys
    BY <1>1 DEF Alone, Keys
  <2> QED
    BY <1>4, <1>7, <2>1 DEF Recorded
<1>9. OrdersTyped(t) /\ Kept(t)
  BY <1>2, <1>5, <1>8, MakerRecord
<1>10. Recorded(t, one, right, rBefore + rightFill, rightFill, rGot, 0)
  <2> DEFINE total == rBefore + rightFill
  <2>1. total \in Nat
    BY <1>2
  <2> HIDE DEF total, rGot
  <2>2. Recorded(Record(one, right, total, rightFill, rGot, 0), one, right, total, rightFill,
                 rGot, 0)
    BY <1>5, <1>6, <2>1, RecordOrders
  <2> QED
    BY <2>2 DEF total, rGot
<1> HIDE DEF t
<1>11. \A x \in Order : x # left /\ x # right => t.traded[x] = traded[x]
  BY <1>4, <1>7, <1>10 DEF Recorded
<1> QED
  BY <1>1, <1>2, <1>9, <1>11, CommitStep

\* Handlers of the pool, which only settle.
LEMMA PoolOrders == ASSUME PoolNext PROVE UNCHANGED <<filled, traded>>
<1> DEFINE Left == UNCHANGED <<filled, traded>>
<1>1. ASSUME NEW c \in Condition, NEW i \in Slots(c), NEW p \in Prices, SetPrice(c, i, p)
      PROVE  Left
  BY <1>1, Zenon DEF SetPrice, orderVars
<1>2. ASSUME NEW c \in Condition, NEW i \in Slots(c), NEW a \in Traders, NEW n \in Fills,
             DepositInventory(a, c, i, n) \/ WithdrawInventory(c, i, n, a)
      PROVE  Left
  <2>1. \A from, to, q : SameOrders(Books, Give(Books, from, to, q, n))
    BY BooksFields, GiveOrders
  <2>2. \E from, to, q : Commit(Give(Books, from, to, q, n))
    BY <1>2 DEF DepositInventory, WithdrawInventory
  <2> QED
    BY <2>1, <2>2, SettledOrders
<1>3. ASSUME NEW a \in Traders, NEW n \in Fills, DepositCollateral(a, n) \/ WithdrawCollateral(n, a)
      PROVE  Left
  <2>1. /\ \A from, to : SameOrders(Books, Transfer(Books, from, to, n))
        /\ \A to : SameOrders(Books, Pay(Books, to, n))
    BY BooksFields, TransferOrders
  <2>2. \/ \E from, to : Commit(Transfer(Books, from, to, n))
        \/ \E to : Commit(Pay(Books, to, n))
    BY <1>3 DEF DepositCollateral, WithdrawCollateral
  <2> QED
    BY <2>1, <2>2, SettledOrders
<1>4. ASSUME NEW c \in Condition, NEW i \in Slots(c), NEW a \in Traders, NEW n \in Fills,
             BuyOutcome(a, c, i, n)
      PROVE  Left
  <2> DEFINE s == Transfer(Books, a, ExchangeContract, n)
  <2>1. SameOrders(Books, s)
    BY BooksFields, TransferOrders
  <2>2. \E q, m : Commit(Give(s, ExchangeContract, a, q, m))
    BY <1>4 DEF BuyOutcome
  <2> HIDE DEF s
  <2>3. PICK q, m : Commit(Give(s, ExchangeContract, a, q, m))
    BY <2>2
  <2>4. SameOrders(s, Give(s, ExchangeContract, a, q, m))
    BY <2>1, GiveOrders DEF SameOrders
  <2> QED
    BY <2>1, <2>3, <2>4, SameOrdersTransitive, SettledOrders
<1>5. ASSUME NEW c \in Condition, NEW i \in Slots(c), NEW a \in Traders, NEW n \in Fills,
             SellOutcome(a, c, i, n)
      PROVE  Left
  <2> DEFINE s == Give(Books, a, ExchangeContract, OutcomePosition(c, i), n)
  <2>1. SameOrders(Books, s)
    BY BooksFields, GiveOrders
  <2>2. \E m : Commit(Pay(s, a, m))
    BY <1>5 DEF SellOutcome
  <2> HIDE DEF s
  <2>3. PICK m : Commit(Pay(s, a, m))
    BY <2>2
  <2>4. SameOrders(s, Pay(s, a, m))
    BY <2>1, TransferOrders DEF SameOrders
  <2> QED
    BY <2>1, <2>3, <2>4, SameOrdersTransitive, SettledOrders
<1> QED
  BY <1>1, <1>2, <1>3, <1>4, <1>5 DEF PoolNext

LEMMA PoolStep == ASSUME ExInv, PoolNext PROVE Preserved
BY PoolOrders, UnchangedOrders

LEMMA ExchangeStep == ASSUME ExInv, [ExNext]_exVars PROVE Preserved
<1>1. CASE OrderNext
  <2>1. \A n \in Fills : n \in Nat
    BY DEF Fills
  <2>2. ASSUME NEW o \in Order, NEW fill \in Fills, FillOrder(o, fill)
        PROVE  Preserved
    BY <2>1, <2>2, FillStep
  <2>3. ASSUME NEW taker \in Order, NEW k \in 1..MaxMakers, NEW takerFill \in Fills,
               NEW makers \in [1..k -> {o \in Order : LimitMatch(taker, o)}],
               NEW fills \in [1..k -> Fills],
               MatchOrders(taker, makers, fills, takerFill)
        PROVE  Preserved
    <3>1. /\ k \in Nat \ {0} /\ makers \in [1..k -> Order] /\ fills \in [1..k -> Nat]
          /\ takerFill \in Nat
      BY <2>1, ExchangeAssumption
    <3> QED
      BY <2>3, <3>1, MatchStep
  <2>4. ASSUME NEW left \in Order, NEW right \in Order,
               NEW leftFill \in Fills, NEW rightFill \in Fills,
               MatchComplementaryOrders(left, leftFill, right, rightFill)
        PROVE  Preserved
    BY <2>1, <2>4, ComplementaryStep
  <2>5. ASSUME NEW key \in Keys, CancelOrderByNonce(key)
        PROVE  Preserved
    BY <2>5, UnchangedOrders DEF CancelOrderByNonce
  <2> QED
    BY <1>1, <2>2, <2>3, <2>4, <2>5 DEF OrderNext
<1>2. CASE PoolNext
  BY <1>2, PoolStep
<1>3. CASE ExAdminNext
  BY <1>3, UnchangedOrders
  DEF ExAdminNext, ExAdminister, SetFeeRecipient, SetTradeLimits, orderVars
<1>4. CASE SurroundingsNext
  BY <1>4, UnchangedOrders
  DEF SurroundingsNext, Approve, CtfStep, SetOpen, Tick, exchangeVars, orderVars
<1>5. CASE UNCHANGED exVars
  BY <1>5, UnchangedOrders DEF exVars, exchangeVars, orderVars
<1> QED
  BY <1>1, <1>2, <1>3, <1>4, <1>5 DEF ExNext

LEMMA ExchangeStart == ExInit => ExInv
<1> SUFFICES ASSUME ExInit PROVE ExInv
  OBVIOUS
<1>1. /\ filled = [k \in Keys |-> 0]
      /\ traded = [o \in Order |-> [gave |-> 0, got |-> 0, takes |-> 0, made |-> FALSE]]
  BY DEF ExInit
<1>2. OrdersTyped(Books)
  BY <1>1, BooksFields DEF OrdersTyped, Dealings
<1>3. ASSUME NEW o \in Order
      PROVE  MakerKept(Books, o) /\ TakerKept(Books.traded[o], o)
  <2>1. Key(o) \in Keys /\ o.makerAmount \in Nat /\ o.takerAmount \in Nat
    BY OrderAssumption DEF Keys
  <2>2. o.makerAmount # 0 => Quote(o, 0) = 0
    BY <2>1 DEF Quote
  <2> QED
    BY <1>1, <2>1, <2>2, BooksFields DEF MakerKept, TakerKept
<1> QED
  BY <1>2, <1>3 DEF ExInv, Kept

\* Only Tick moves the clock.
LEMMA ClockStep == ASSUME now \in Nat, [ExNext]_exVars PROVE now' \in Nat
<1> DEFINE Committed == \E s : Commit(s)
<1>0. Committed => now' = now
  BY DEF Commit, marketVars
<1>1. CASE OrderNext
  <2>1. CASE \E o \in Order, fill \in Fills : FillOrder(o, fill)
    <3>1. Committed
      BY <2>1 DEF FillOrder
    <3> QED
      BY <1>0, <3>1
  <2>2. CASE \E taker \in Order, k \in 1..MaxMakers, takerFill \in Fills :
              \E makers \in [1..k -> {o \in Order : LimitMatch(taker, o)}],
                 fills \in [1..k -> Fills] :
                  MatchOrders(taker, makers, fills, takerFill)
    <3>1. Committed
      BY <2>2 DEF MatchOrders
    <3> QED
      BY <1>0, <3>1
  <2>3. CASE \E left, right \in Order, leftFill, rightFill \in Fills :
              MatchComplementaryOrders(left, leftFill, right, rightFill)
    <3>1. Committed
      BY <2>3 DEF MatchComplementaryOrders
    <3> QED
      BY <1>0, <3>1
  <2>4. CASE \E key \in Keys : CancelOrderByNonce(key)
    BY <2>4 DEF CancelOrderByNonce, marketVars
  <2> QED
    BY <1>1, <2>1, <2>2, <2>3, <2>4 DEF OrderNext
<1>2. CASE PoolNext
  <2>1. now' = now
    BY <1>2 DEF PoolNext, SetPrice, DepositInventory, WithdrawInventory, DepositCollateral,
                WithdrawCollateral, BuyOutcome, SellOutcome, Commit, marketVars
  <2> QED
    BY <2>1
<1>3. CASE ExAdminNext \/ SurroundingsNext
  BY <1>3 DEF ExAdminNext, ExAdminister, SetFeeRecipient, SetTradeLimits, SurroundingsNext,
              Approve, CtfStep, SetOpen, Tick, exchangeVars, marketVars
<1>4. CASE UNCHANGED exVars
  BY <1>4 DEF exVars, exchangeVars, marketVars
<1> QED
  BY <1>1, <1>2, <1>3, <1>4 DEF ExNext

LEMMA Clock == ExSpec => [](now \in Nat)
<1>1. ExInit => now \in Nat
  BY DEF ExInit
<1>2. now \in Nat /\ [ExNext]_exVars => (now \in Nat)'
  BY ClockStep
<1> QED
  BY <1>1, <1>2, PTL DEF ExSpec

-----------------------------------------------------------------------------
(* Theorems *)

\* The books of the orders are well typed, and what every order gave and got is
\* within its limit price, for the maker with its nonce to itself and for the taker.
THEOREM OrdersInvariance == ExSpec => []ExInv
<1>1. ExInv /\ [ExNext]_exVars => ExInv'
  BY ExchangeStep DEF Preserved
<1> QED
  BY <1>1, ExchangeStart, PTL DEF ExSpec

\* However an order's fills are spread over fill_order, match_orders with any
\* number of makers, and complementary matches, its maker gets the limit price
\* rounded down once, and never gives more than it offers.
THEOREM MakersLimit == ExSpec => []MakersGetTheirLimit
<1>1. ExInv => MakersGetTheirLimit
  BY BooksFields DEF ExInv, Kept, MakerKept, MakersGetTheirLimit
<1> QED
  BY <1>1, OrdersInvariance, PTL

\* A taker's order pays more than its limit price by less than one unit for each
\* maker order, whatever the makers' prices and earlier fills.
THEOREM TakersLimit == ExSpec => []TakersPayTheirLimit
<1>1. ExInv => TakersPayTheirLimit
  BY BooksFields DEF ExInv, Kept, TakerKept, TakersPayTheirLimit
<1> QED
  BY <1>1, OrdersInvariance, PTL

\* No handler fills an order that is cancelled, expired, or in a market that does
\* not trade, as whichever of the sides it takes part in.
THEOREM DeadOrders == ExSpec => DeadOrdersStayDead
<1>1. ExInv /\ now \in Nat /\ [ExNext]_exVars =>
          [\A o \in Order :
              \/ Key(o) \in cancelled
              \/ now >= o.expiration
              \/ ~Tradeable(o.condition, o.outcome)
              => traded'[o] = traded[o]]_exVars
  <2> SUFFICES ASSUME ExInv, now \in Nat, [ExNext]_exVars, NEW o \in Order,
                      \/ Key(o) \in cancelled
                      \/ now >= o.expiration
                      \/ ~Tradeable(o.condition, o.outcome)
               PROVE  traded'[o] = traded[o]
    OBVIOUS
  <2>1. ~Live(o)
    BY OrderAssumption DEF Live
  <2> QED
    BY <2>1, ExchangeStep DEF Preserved
<1> QED
  BY <1>1, OrdersInvariance, Clock, PTL DEF ExSpec, DeadOrdersStayDead

-----------------------------------------------------------------------------
(* What the orders under one nonce gave *)

Sharing(k) == {x \in Order : Key(x) = k}

Given(s, k) == [o \in Sharing(k) |-> s.traded[o].gave]

GivenAdds(s) ==
    \A k \in Keys : /\ s.filled[k] <= TotalOf(Given(s, k))
                    /\ MeetsAlone(k) => s.filled[k] = TotalOf(Given(s, k))

\* A fill that was read before is no more than what there is, and that if no other
\* order of its nonce was filled since.
ReadOf(n, s, k) == n \in Nat /\ n <= s.filled[k] /\ (MeetsAlone(k) => n = s.filled[k])

LEMMA GivenRecord ==
    ASSUME NEW s, OrdersTyped(s), GivenAdds(s), NEW o \in Order, NEW before \in Nat,
           NEW fill \in Nat, NEW got \in Nat, NEW takes \in Nat, ReadOf(before, s, Key(o)),
           NEW total \in Nat, total = before + fill,
           NEW t, t = Record(s, o, total, fill, got, takes)
    PROVE  OrdersTyped(t) /\ GivenAdds(t)
<1>2. Recorded(t, s, o, total, fill, got, takes)
  BY RecordOrders
<1>3. ASSUME NEW k \in Keys
      PROVE  /\ t.filled[k] <= TotalOf(Given(t, k))
             /\ MeetsAlone(k) => t.filled[k] = TotalOf(Given(t, k))
  <2>1. /\ s.filled[k] <= TotalOf(Given(s, k))
        /\ MeetsAlone(k) => s.filled[k] = TotalOf(Given(s, k))
    BY DEF GivenAdds
  <2>2. CASE k # Key(o)
    <3>1. \A x \in Sharing(k) : x \in Order /\ x # o
      BY <2>2 DEF Sharing
    <3>2. \A x \in Sharing(k) : t.traded[x].gave = s.traded[x].gave
      BY <1>2, <3>1 DEF Recorded
    <3>3. Given(t, k) = Given(s, k)
      BY <3>2 DEF Given
    <3> QED
      BY <1>2, <2>1, <2>2, <3>3 DEF Recorded
  <2>3. CASE k = Key(o)
    <3>1. o \in Sharing(k) /\ Sharing(k) \subseteq Order
      BY <2>3 DEF Sharing
    <3>2. IsFiniteSet(Sharing(k))
      BY <3>1, ExchangeAssumption, FS_Subset
    <3>3. Given(s, k) \in [Sharing(k) -> Nat]
      BY <3>1 DEF OrdersTyped, Dealings, Given
    <3>4. /\ t.traded[o].gave = s.traded[o].gave + fill
          /\ \A x \in Sharing(k) : x # o => t.traded[x].gave = s.traded[x].gave
      BY <1>2, <3>1 DEF Recorded
    <3>5. Given(t, k) = Credit(Given(s, k), o, fill)
      BY <3>1, <3>4 DEF Given, Credit
    <3>6. TotalOf(Given(t, k)) = TotalOf(Given(s, k)) + fill
      BY <3>1, <3>2, <3>3, <3>5, CreditTotal
    <3>7. TotalOf(Given(s, k)) \in Nat
      BY <3>2, <3>3, TotalType
    <3>8. s.filled[k] \in Nat /\ t.filled[k] = before + fill
      BY <1>2, <2>3 DEF Recorded, OrdersTyped
    <3>9. before <= s.filled[k] /\ (MeetsAlone(k) => before = s.filled[k])
      BY <2>3 DEF ReadOf
    <3> QED
      BY <2>1, <3>6, <3>7, <3>8, <3>9
  <2> QED
    BY <2>2, <2>3
<1> QED
  BY <1>2, <1>3 DEF Recorded, GivenAdds

LEMMA SameGiven ==
    ASSUME NEW s, NEW t, GivenAdds(s), t.filled = s.filled, t.traded = s.traded
    PROVE  GivenAdds(t)
BY DEF GivenAdds, Given

\* The books in the loop of match_orders: the taker's nonce waits.
TurnGiven(s, taker) ==
    OrdersTyped(s) /\ GivenAdds(s) /\ ReadOf(filled[Key(taker)], s, Key(taker))

LEMMA TurnGivenStep ==
    ASSUME NEW taker \in Order, NEW s, TurnGiven(s, taker),
           NEW o \in Order, NEW fill \in Nat
    PROVE  TurnGiven(FillMaker(s, taker, o, fill), taker)
<1> DEFINE before  == s.filled[Key(o)]
           counter == CounterAmount(o, before, fill)
           settled == ExecuteTrade(s, o, before, fill)
           guard   == ValidAmount(fill) /\ LimitMatch(taker, o) /\ Accepted(o, before, fill)
           r       == Record(settled, o, before + fill, fill, counter, 0)
           t       == [r EXCEPT !.spent = @ + counter]
<1>1. /\ before \in Nat /\ OrdersTyped(s) /\ GivenAdds(s)
      /\ Key(o) \in Keys /\ Key(taker) \in Keys
  BY DEF TurnGiven, OrdersTyped, Keys
<1>2. FillMaker(s, taker, o, fill) = IF guard THEN t ELSE Panic(s)
  BY DEF FillMaker
<1>3. CASE ~guard
  <2>1. SameOrders(s, Panic(s))
    BY <1>1, PanicOrders DEF OrdersTyped
  <2>2. OrdersTyped(Panic(s)) /\ GivenAdds(Panic(s))
    BY <1>1, <2>1, SameGiven, SameTyped DEF SameOrders
  <2>3. TurnGiven(Panic(s), taker)
    BY <2>1, <2>2 DEF TurnGiven, SameOrders, ReadOf
  <2> HIDE DEF guard
  <2> QED
    BY <1>2, <1>3, <2>3
<1>4. CASE guard
  <2>1. LimitMatch(taker, o) /\ o.makerAmount # 0 /\ FillMaker(s, taker, o, fill) = t
    BY <1>2, <1>4 DEF Accepted
  <2>2. MeetsAlone(Key(taker)) => Key(taker) # Key(o)
    BY <2>1 DEF MeetsAlone
  <2>3. counter \in Nat
    BY <1>1, <2>1, CounterType
  <2>4. SameOrders(s, settled)
    BY <1>1, ExecuteTradeOrders DEF OrdersTyped
  <2> HIDE DEF settled, guard
  <2>5. OrdersTyped(settled) /\ GivenAdds(settled) /\ settled.filled = s.filled
    BY <1>1, <2>4, SameGiven, SameTyped DEF SameOrders
  <2>6. /\ OrdersTyped(r) /\ GivenAdds(r)
        /\ \A k \in Keys : k # Key(o) => r.filled[k] = s.filled[k]
        /\ r.filled[Key(o)] = before + fill
    <3> DEFINE total == before + fill
    <3>1. /\ 0 \in Nat /\ ReadOf(before, settled, Key(o)) /\ total \in Nat
          /\ r = Record(settled, o, total, fill, counter, 0) /\ total = before + fill
      BY <1>1, <2>5 DEF ReadOf
    <3> HIDE DEF before, counter, r, t, total
    <3>2. OrdersTyped(r) /\ GivenAdds(r)
      BY <1>1, <2>3, <2>5, <3>1, GivenRecord
    <3>3. Recorded(r, settled, o, total, fill, counter, 0)
      BY <2>3, <2>5, <3>1, RecordOrders
    <3> QED
      BY <1>1, <2>5, <3>1, <3>2, <3>3 DEF Recorded
  <2> HIDE DEF r
  <2>7. IsBooks(t) /\ t.filled = r.filled /\ t.traded = r.traded
    <3> HIDE DEF counter
    <3> QED
      BY <2>6 DEF OrdersTyped, IsBooks, BookFields
  <2> HIDE DEF t
  <2>8. OrdersTyped(t) /\ GivenAdds(t)
    BY <2>6, <2>7, SameGiven DEF OrdersTyped
  <2>9. ReadOf(filled[Key(taker)], t, Key(taker))
    <3> HIDE DEF counter
    <3> QED
      BY <1>1, <2>2, <2>6, <2>7 DEF TurnGiven, ReadOf, OrdersTyped
  <2> QED
    BY <2>1, <2>8, <2>9 DEF TurnGiven
<1> QED
  BY <1>3, <1>4

LEMMA TurnsGiven ==
    ASSUME OrdersTyped(Books), GivenAdds(Books), NEW taker \in Order,
           NEW n \in Nat, NEW makers \in [1..n -> Order], NEW fills \in [1..n -> Nat], NEW f,
           Turns(f, taker, makers, fills, n)
    PROVE  TurnGiven(f[n], taker)
<1> DEFINE T == {k \in 0..n : ~TurnGiven(f[k], taker)}
<1>1. SUFFICES ASSUME T # {} PROVE FALSE
  OBVIOUS
<1>2. PICK k \in T : \A j \in T : k <= j
  <2>1. T \subseteq Nat
    OBVIOUS
  <2> HIDE DEF T
  <2> QED
    BY <1>1, <2>1, Least
<1>3. k \in 0..n /\ ~TurnGiven(f[k], taker)
  OBVIOUS
<1>4. CASE k = 0
  <2>1. f[0] = Books
    BY DEF Turns
  <2>2. filled[Key(taker)] \in Nat /\ Books.filled = filled
    BY BooksFields DEF OrdersTyped, Keys
  <2> QED
    BY <1>3, <1>4, <2>1, <2>2 DEF TurnGiven, ReadOf
<1>5. CASE k # 0
  <2> DEFINE j == k - 1
  <2>1. j \in 0..n /\ j \notin T /\ k \in 1..n
    BY <1>2, <1>3, <1>5
  <2>2. TurnGiven(f[j], taker)
    BY <2>1
  <2>3. f[k] = FillMaker(f[j], taker, makers[k], fills[k])
    BY <2>1, <1>3, <1>5 DEF Turns
  <2>4. makers[k] \in Order /\ fills[k] \in Nat
    BY <2>1
  <2> HIDE DEF j
  <2> QED
    BY <1>3, <2>2, <2>3, <2>4, TurnGivenStep
<1> QED
  BY <1>4, <1>5

GivenInv == GivenAdds(Books)

LEMMA GivenCommit == ASSUME NEW s, GivenAdds(s), Commit(s) PROVE GivenInv'
<1>1. filled' = s.filled /\ traded' = s.traded
  BY DEF Commit
<1>2. Books'.filled = filled' /\ Books'.traded = traded'
  BY DEF Books
<1>3. GivenAdds(Books')
  BY <1>1, <1>2, SameGiven
<1> QED
  BY <1>3 DEF GivenInv, GivenAdds, Given

LEMMA GivenUnchanged == ASSUME GivenInv, UNCHANGED <<filled, traded>> PROVE GivenInv'
<1>1. Books'.filled = filled' /\ Books'.traded = traded'
  BY DEF Books
<1>2. GivenAdds(Books')
  BY <1>1, BooksFields, SameGiven DEF GivenInv
<1> QED
  BY <1>2 DEF GivenInv, GivenAdds, Given

LEMMA GivenFill ==
    ASSUME ExInv, GivenInv, NEW o \in Order, NEW fill \in Nat, FillOrder(o, fill)
    PROVE  GivenInv'
<1> DEFINE before  == filled[Key(o)]
           counter == CounterAmount(o, before, fill)
           settled == ExecuteTrade(Books, o, before, fill)
           t == Record(settled, o, before + fill, fill, counter, 0)
<1>1. o.makerAmount # 0 /\ Commit(t)
  BY DEF FillOrder, Accepted
<1>2. before \in Nat /\ 0 \in Nat
  BY FilledType
<1>3. counter \in Nat
  BY <1>1, <1>2, CounterType
<1>4. SameOrders(Books, settled)
  BY BooksFields, ExecuteTradeOrders
<1> HIDE DEF settled
<1>5. OrdersTyped(settled) /\ GivenAdds(settled) /\ ReadOf(before, settled, Key(o))
  BY <1>2, <1>4, BooksFields, SameGiven, SameTyped DEF ExInv, GivenInv, SameOrders, ReadOf
<1> DEFINE total == before + fill
<1>6. total = before + fill /\ total \in Nat /\ t = Record(settled, o, total, fill, counter, 0)
  BY <1>2
<1> HIDE DEF before, counter, t, total
<1>7. GivenAdds(t)
  BY <1>2, <1>3, <1>5, <1>6, GivenRecord
<1> QED
  BY <1>1, <1>7, GivenCommit

LEMMA GivenMatch ==
    ASSUME ExInv, GivenInv, NEW taker \in Order, NEW k \in Nat \ {0},
           NEW takerFill \in Nat,
           NEW makers \in [1..k -> Order], NEW fills \in [1..k -> Nat],
           MatchOrders(taker, makers, fills, takerFill)
    PROVE  GivenInv'
<1> DEFINE before == filled[Key(taker)]
           tokens == TotalOf(fills)
<1>1. Len(makers) = k
  <2>1. k \in Nat /\ DOMAIN makers = 1..k
    OBVIOUS
  <2>2. makers \in Seq(Order)
    BY <2>1
  <2> QED
    BY <2>1, <2>2, LenProperties
<1>2. PICK f :
          /\ Turns(f, taker, makers, fills, k)
          /\ Commit(Record(f[k], taker, before + takerFill, takerFill, tokens, k))
  BY <1>1, MatchTurns
<1>3. TurnGiven(f[k], taker)
  BY <1>2, TurnsGiven DEF ExInv, GivenInv
<1>4. before \in Nat /\ k \in Nat
  BY FilledType
<1>5. tokens \in Nat
  <2>1. IsFiniteSet(1..k)
    BY FS_Interval
  <2> QED
    BY <2>1, TotalType
<1>6. OrdersTyped(f[k]) /\ GivenAdds(f[k]) /\ ReadOf(before, f[k], Key(taker))
  BY <1>3 DEF TurnGiven
<1> DEFINE total == before + takerFill
           t == Record(f[k], taker, before + takerFill, takerFill, tokens, k)
<1>7. /\ total = before + takerFill /\ total \in Nat
      /\ t = Record(f[k], taker, total, takerFill, tokens, k)
  BY <1>4
<1>8. Commit(t)
  BY <1>2
<1> HIDE DEF before, tokens, total, t
<1>9. GivenAdds(t)
  BY <1>4, <1>5, <1>6, <1>7, GivenRecord
<1> QED
  BY <1>8, <1>9, GivenCommit

LEMMA GivenComplementary ==
    ASSUME ExInv, GivenInv, NEW left \in Order, NEW right \in Order,
           NEW leftFill \in Nat, NEW rightFill \in Nat,
           MatchComplementaryOrders(left, leftFill, right, rightFill)
    PROVE  GivenInv'
<1> DEFINE buys    == left.side = "Buy"
           settled == IF buys
                      THEN ComplementaryBuy(Books, left, leftFill, right, rightFill)
                      ELSE ComplementarySell(Books, left, leftFill, right, rightFill)
           lBefore == filled[Key(left)]
           rBefore == filled[Key(right)]
           lGot    == CounterAmount(left, lBefore, leftFill)
           rGot    == CounterAmount(right, rBefore, rightFill)
           one     == Record(settled, left, lBefore + leftFill, leftFill, lGot, 0)
           t       == Record(one, right, rBefore + rightFill, rightFill, rGot, 0)
<1>1. /\ left.makerAmount # 0 /\ right.makerAmount # 0
      /\ ComplementaryMatch(left, right) /\ Commit(t)
  BY DEF MatchComplementaryOrders, Accepted
<1>2. lBefore \in Nat /\ rBefore \in Nat /\ 0 \in Nat
  BY FilledType
<1>3. lGot \in Nat /\ rGot \in Nat
  BY <1>1, <1>2, CounterType
<1>4. /\ Key(left) \in Keys /\ Key(right) \in Keys
      /\ MeetsAlone(Key(right)) => Key(left) # Key(right)
  BY <1>1 DEF MeetsAlone, Keys
<1>5. SameOrders(Books, settled)
  BY BooksFields, ComplementaryBuyOrders, ComplementarySellOrders
<1> HIDE DEF settled
<1>6. OrdersTyped(settled) /\ GivenAdds(settled) /\ settled.filled = filled
  BY <1>5, BooksFields, SameGiven, SameTyped DEF ExInv, GivenInv, SameOrders
<1>7. /\ OrdersTyped(one) /\ GivenAdds(one)
      /\ \A k \in Keys : k # Key(left) => one.filled[k] = settled.filled[k]
      /\ one.filled[Key(left)] = lBefore + leftFill
  <2> DEFINE total == lBefore + leftFill
  <2>1. /\ ReadOf(lBefore, settled, Key(left)) /\ total = lBefore + leftFill /\ total \in Nat
        /\ one = Record(settled, left, total, leftFill, lGot, 0)
    BY <1>2, <1>6 DEF ReadOf
  <2> HIDE DEF lBefore, lGot, one, t, total
  <2>2. OrdersTyped(one) /\ GivenAdds(one)
    BY <1>2, <1>3, <1>6, <2>1, GivenRecord
  <2>3. Recorded(one, settled, left, total, leftFill, lGot, 0)
    BY <1>2, <1>3, <1>6, <2>1, RecordOrders
  <2> QED
    BY <1>4, <2>1, <2>2, <2>3 DEF Recorded
<1> HIDE DEF one
<1>8. ReadOf(rBefore, one, Key(right))
  <2> HIDE DEF lGot, rGot
  <2> QED
    BY <1>2, <1>4, <1>6, <1>7 DEF ReadOf
<1>9. GivenAdds(t)
  <2> DEFINE total == rBefore + rightFill
  <2>1. total = rBefore + rightFill /\ total \in Nat
        /\ t = Record(one, right, total, rightFill, rGot, 0)
    BY <1>2
  <2> HIDE DEF rBefore, rGot, t, total
  <2> QED
    BY <1>2, <1>3, <1>7, <1>8, <2>1, GivenRecord
<1> QED
  BY <1>1, <1>9, GivenCommit

LEMMA GivenStep == ASSUME ExInv, GivenInv, [ExNext]_exVars PROVE GivenInv'
<1>1. CASE OrderNext
  <2>1. \A n \in Fills : n \in Nat
    BY DEF Fills
  <2>2. ASSUME NEW o \in Order, NEW fill \in Fills, FillOrder(o, fill)
        PROVE  GivenInv'
    BY <2>1, <2>2, GivenFill
  <2>3. ASSUME NEW taker \in Order, NEW k \in 1..MaxMakers, NEW takerFill \in Fills,
               NEW makers \in [1..k -> {o \in Order : LimitMatch(taker, o)}],
               NEW fills \in [1..k -> Fills],
               MatchOrders(taker, makers, fills, takerFill)
        PROVE  GivenInv'
    <3>1. /\ k \in Nat \ {0} /\ makers \in [1..k -> Order] /\ fills \in [1..k -> Nat]
          /\ takerFill \in Nat
      BY <2>1, ExchangeAssumption
    <3> QED
      BY <2>3, <3>1, GivenMatch
  <2>4. ASSUME NEW left \in Order, NEW right \in Order,
               NEW leftFill \in Fills, NEW rightFill \in Fills,
               MatchComplementaryOrders(left, leftFill, right, rightFill)
        PROVE  GivenInv'
    BY <2>1, <2>4, GivenComplementary
  <2>5. ASSUME NEW key \in Keys, CancelOrderByNonce(key)
        PROVE  GivenInv'
    BY <2>5, GivenUnchanged DEF CancelOrderByNonce
  <2> QED
    BY <1>1, <2>2, <2>3, <2>4, <2>5 DEF OrderNext
<1>2. CASE PoolNext
  <2>1. UNCHANGED <<filled, traded>>
    BY <1>2, PoolOrders
  <2> QED
    BY <2>1, GivenUnchanged
<1>3. CASE ExAdminNext
  BY <1>3, GivenUnchanged
  DEF ExAdminNext, ExAdminister, SetFeeRecipient, SetTradeLimits, orderVars
<1>4. CASE SurroundingsNext
  BY <1>4, GivenUnchanged
  DEF SurroundingsNext, Approve, CtfStep, SetOpen, Tick, exchangeVars, orderVars
<1>5. CASE UNCHANGED exVars
  BY <1>5, GivenUnchanged DEF exVars, exchangeVars, orderVars
<1> QED
  BY <1>1, <1>2, <1>3, <1>4, <1>5 DEF ExNext

\* The FilledAmount of a nonce is never more than what its orders gave, whichever
\* handlers filled them, and is just that where no two of them meet in a call:
\* match_orders writes the taker's entry as it read it before the loop, and loses
\* what the loop wrote under that nonce and nothing else.
THEOREM NonceIsGiven == ExSpec => []FilledIsGiven
<1>1. ExInit => GivenInv
  <2> SUFFICES ASSUME ExInit, NEW k \in Keys
               PROVE  filled[k] = 0 /\ TotalOf(Given(Books, k)) = 0
    BY BooksFields DEF GivenInv, GivenAdds
  <2>1. filled[k] = 0 /\ \A o \in Sharing(k) : traded[o].gave = 0
    BY DEF ExInit, Sharing
  <2>2. Given(Books, k) = [o \in Sharing(k) |-> 0]
    BY <2>1, BooksFields DEF Given
  <2> QED
    BY <2>1, <2>2, EmptyTotal
<1>2. ExInv /\ GivenInv /\ [ExNext]_exVars => GivenInv'
  BY GivenStep
<1>3. GivenInv => FilledIsGiven
  <2> SUFFICES ASSUME GivenInv, NEW k \in Keys
               PROVE  /\ filled[k] <= GivenUnder(k)
                      /\ MeetsAlone(k) => filled[k] = GivenUnder(k)
    BY DEF FilledIsGiven
  <2>1. GivenUnder(k) = TotalOf(Given(Books, k))
    BY BooksFields DEF GivenUnder, Given, Sharing
  <2> QED
    BY <2>1, BooksFields DEF GivenInv, GivenAdds
<1> QED
  BY <1>1, <1>2, <1>3, OrdersInvariance, PTL DEF ExSpec

-----------------------------------------------------------------------------
(* What the settlements do to the funds *)

\* Books whose collateral, allowances and tokens are well typed, the supplies being
\* the sums of the balances.
FundsTyped(s) ==
    /\ IsBooks(s)
    /\ s.usdc \in [Address -> Nat] /\ s.allowance \in [Address -> Nat]
    /\ Balanced(s.balance, s.supply)

LEMMA PanicFunds ==
    ASSUME NEW s, FundsTyped(s), NEW t, t = Panic(s)
    PROVE  FundsTyped(t) /\ ~t.ok
BY DEF Panic, FundsTyped, IsBooks, BookFields

\* A move between holders, at each of them.
LEMMA MoveEffect ==
    ASSUME NEW S, NEW u \in [S -> Nat], NEW x \in S, NEW y \in S, NEW n \in Nat,
           x = y \/ n <= u[x]
    PROVE  /\ Move(u, x, y, n) \in [S -> Nat]
           /\ \A a \in S : Move(u, x, y, n)[a] =
                  u[a] + (IF a = y THEN n ELSE 0) - (IF a = x THEN n ELSE 0)
BY DEF Move, Credit, Debit

LEMMA PullFunds ==
    ASSUME NEW s, FundsTyped(s), NEW from \in Address, NEW to \in Address, NEW n \in Nat,
           NEW t, t = Pull(s, from, to, n), t # Panic(s)
    PROVE  /\ (t.ok => s.ok) /\ FundsTyped(t)
           /\ t.usdc = Move(s.usdc, from, to, n) /\ (from = to \/ n <= s.usdc[from])
           /\ t.balance = s.balance /\ t.supply = s.supply
           /\ t.allowance = Debit(s.allowance, from, n)
<1> DEFINE a == Debit(s.allowance, from, n)
           u == Move(s.usdc, from, to, n)
           e == [s EXCEPT !.allowance = a, !.usdc = u]
           guard == s.allowance[from] >= n /\ (from = to \/ s.usdc[from] >= n)
<1>1. Pull(s, from, to, n) = IF guard THEN e ELSE Panic(s)
  BY DEF Pull
<1>2. guard /\ t = e
  <2> HIDE DEF guard, e
  <2> QED
    BY <1>1
<1>3. s.usdc \in [Address -> Nat] /\ s.allowance \in [Address -> Nat]
  BY DEF FundsTyped
<1>4. n <= s.allowance[from] /\ (from = to \/ n <= s.usdc[from])
  BY <1>2, <1>3
<1>5. u \in [Address -> Nat] /\ a \in [Address -> Nat]
  BY <1>3, <1>4, MoveEffect, DebitType
<1> HIDE DEF a, u, guard
<1>6. /\ IsBooks(t) /\ t.usdc = u /\ t.allowance = a /\ t.balance = s.balance
      /\ t.supply = s.supply /\ t.ok = s.ok
  BY <1>2 DEF FundsTyped, IsBooks, BookFields
<1> HIDE DEF e
<1> QED
  BY <1>4, <1>5, <1>6 DEF FundsTyped, a, u

LEMMA TransferFunds ==
    ASSUME NEW s, FundsTyped(s), NEW from \in Address, NEW to \in Address, NEW n \in Nat,
           NEW t, t = Transfer(s, from, to, n), t # Panic(s)
    PROVE  /\ (t.ok => s.ok) /\ FundsTyped(t)
           /\ t.usdc = Move(s.usdc, from, to, n) /\ (from = to \/ n <= s.usdc[from])
           /\ t.balance = s.balance /\ t.supply = s.supply
           /\ t.allowance = s.allowance
<1> DEFINE u == Move(s.usdc, from, to, n)
           e == [s EXCEPT !.usdc = u]
           guard == from = to \/ s.usdc[from] >= n
<1>1. Transfer(s, from, to, n) = IF guard THEN e ELSE Panic(s)
  BY DEF Transfer
<1>2. guard /\ t = e
  <2> HIDE DEF guard, e
  <2> QED
    BY <1>1
<1>3. s.usdc \in [Address -> Nat]
  BY DEF FundsTyped
<1>4. from = to \/ n <= s.usdc[from]
  BY <1>2, <1>3
<1>5. u \in [Address -> Nat]
  BY <1>3, <1>4, MoveEffect
<1> HIDE DEF u, guard
<1>6. /\ IsBooks(t) /\ t.usdc = u /\ t.allowance = s.allowance /\ t.balance = s.balance
      /\ t.supply = s.supply /\ t.ok = s.ok
  BY <1>2 DEF FundsTyped, IsBooks, BookFields
<1> HIDE DEF e
<1> QED
  BY <1>4, <1>5, <1>6 DEF FundsTyped, u

\* A transfer of tokens moves them at one position and creates none.
LEMMA GiveFunds ==
    ASSUME NEW s, FundsTyped(s), NEW from \in Address, NEW to \in Address,
           NEW p \in Position, NEW n \in Nat,
           NEW t, t = Give(s, from, to, p, n), t # Panic(s)
    PROVE  /\ (t.ok => s.ok) /\ FundsTyped(t) /\ n <= s.balance[p][from]
           /\ t.balance = [s.balance EXCEPT ![p] = Move(s.balance[p], from, to, n)]
           /\ t.supply = s.supply /\ t.usdc = s.usdc
           /\ t.allowance = s.allowance /\ ~isPaused
<1> DEFINE b == Move(s.balance[p], from, to, n)
           e == [s EXCEPT !.balance[p] = b]
           guard == ~isPaused /\ s.balance[p][from] >= n /\ s.supply[p] >= n
<1>1. Give(s, from, to, p, n) = IF guard THEN e ELSE Panic(s)
  BY DEF Give
<1>2. guard /\ t = e
  <2> HIDE DEF guard, e
  <2> QED
    BY <1>1
<1>3. /\ s.balance \in [Position -> [Address -> Nat]] /\ s.supply \in [Position -> Nat]
      /\ \A q \in Position : s.supply[q] = TotalOf(s.balance[q])
  BY DEF FundsTyped, Balanced
<1>4. s.balance[p] \in [Address -> Nat] /\ n <= s.balance[p][from] /\ ~isPaused
  BY <1>2, <1>3
<1>5. b \in [Address -> Nat] /\ TotalOf(b) = TotalOf(s.balance[p])
  <2>1. IsFiniteSet(Address)
    BY CtfAssumption DEF CtfAssumption
  <2> DEFINE f == s.balance[p]
  <2>2. f \in [Address -> Nat] /\ n <= f[from]
    BY <1>4
  <2> HIDE DEF f
  <2>3. Move(f, from, to, n) \in [Address -> Nat] /\ TotalOf(Move(f, from, to, n)) = TotalOf(f)
    BY <2>1, <2>2, MoveTotal
  <2> QED
    BY <2>3 DEF f
<1> HIDE DEF b, guard
<1>6. /\ IsBooks(t) /\ t.usdc = s.usdc /\ t.allowance = s.allowance
      /\ t.balance = [s.balance EXCEPT ![p] = b]
      /\ t.supply = s.supply /\ t.ok = s.ok
  BY <1>2 DEF FundsTyped, IsBooks, BookFields
<1> HIDE DEF e
<1>7. Balanced(t.balance, t.supply)
  BY <1>3, <1>5, <1>6 DEF Balanced
<1> QED
  BY <1>4, <1>6, <1>7 DEF FundsTyped, b

LEMMA IssueFunds ==
    ASSUME NEW s, FundsTyped(s), NEW to \in Address, NEW p \in Position, NEW n \in Nat,
           NEW t, t = Issue(s, to, p, n), t # Panic(s)
    PROVE  /\ (t.ok => s.ok) /\ FundsTyped(t)
           /\ t.balance = [s.balance EXCEPT ![p] = Credit(s.balance[p], to, n)]
           /\ t.supply = [s.supply EXCEPT ![p] = s.supply[p] + n]
           /\ t.usdc = s.usdc /\ t.allowance = s.allowance /\ ~isPaused
<1> DEFINE b == Credit(s.balance[p], to, n)
           k == s.supply[p] + n
           e == [s EXCEPT !.balance[p] = b, !.supply[p] = k]
<1>1. Issue(s, to, p, n) = IF ~isPaused THEN e ELSE Panic(s)
  BY DEF Issue
<1>2. t = e /\ ~isPaused
  <2> HIDE DEF e
  <2> QED
    BY <1>1
<1>3. /\ s.balance \in [Position -> [Address -> Nat]] /\ s.supply \in [Position -> Nat]
      /\ \A q \in Position : s.supply[q] = TotalOf(s.balance[q])
  BY DEF FundsTyped, Balanced
<1>4. s.balance[p] \in [Address -> Nat] /\ k \in Nat
  BY <1>3
<1>5. b \in [Address -> Nat] /\ TotalOf(b) = k
  <2>1. IsFiniteSet(Address)
    BY CtfAssumption DEF CtfAssumption
  <2> DEFINE f == s.balance[p]
  <2>2. f \in [Address -> Nat] /\ s.supply[p] = TotalOf(f)
    BY <1>3, <1>4
  <2> HIDE DEF f
  <2>3. Credit(f, to, n) \in [Address -> Nat] /\ TotalOf(Credit(f, to, n)) = TotalOf(f) + n
    BY <2>1, <2>2, CreditType, CreditTotal
  <2> QED
    BY <2>2, <2>3 DEF f
<1> HIDE DEF b, k
<1>6. /\ IsBooks(t) /\ t.usdc = s.usdc /\ t.allowance = s.allowance
      /\ t.balance = [s.balance EXCEPT ![p] = b]
      /\ t.supply = [s.supply EXCEPT ![p] = k] /\ t.ok = s.ok
  BY <1>2 DEF FundsTyped, IsBooks, BookFields
<1> HIDE DEF e
<1>7. Balanced(t.balance, t.supply)
  BY <1>3, <1>4, <1>5, <1>6 DEF Balanced
<1> QED
  BY <1>2, <1>6, <1>7 DEF FundsTyped, b, k

LEMMA MergeFunds ==
    ASSUME NEW s, FundsTyped(s), NEW c, NEW p \in Position, NEW q \in Position, NEW n \in Nat,
           NEW t, t = Merge(s, c, p, q, n), t # Panic(s)
    PROVE  /\ (t.ok => s.ok) /\ FundsTyped(t)
           /\ t.balance = Burned(s.balance, {p, q}, ExchangeContract, n)
           /\ t.supply = SupplyDown(s.supply, {p, q}, n)
           /\ t.usdc = Move(s.usdc, CtfContract, ExchangeContract, n)
           /\ n <= s.usdc[CtfContract] /\ t.allowance = s.allowance
<1> DEFINE b == Burned(s.balance, {p, q}, ExchangeContract, n)
           k == SupplyDown(s.supply, {p, q}, n)
           u == Move(s.usdc, CtfContract, ExchangeContract, n)
           e == [s EXCEPT !.balance = b, !.supply = k, !.usdc = u]
           guard == /\ ~isPaused
                    /\ ValidPartition(c, {p[1][2], q[1][2]})
                    /\ \A x \in {p, q} : s.balance[x][ExchangeContract] >= n /\ s.supply[x] >= n
                    /\ s.usdc[CtfContract] >= n
<1>1. Merge(s, c, p, q, n) = IF guard THEN e ELSE Panic(s)
  BY DEF Merge
<1>2. guard /\ t = e
  <2> HIDE DEF guard, e
  <2> QED
    BY <1>1
<1>3. /\ s.balance \in [Position -> [Address -> Nat]] /\ s.supply \in [Position -> Nat]
      /\ s.usdc \in [Address -> Nat] /\ Balanced(s.balance, s.supply)
  BY DEF FundsTyped, Balanced
<1>4. /\ ExchangeContract \in Address /\ CtfContract \in Address /\ IsFiniteSet(Address)
  BY CtfAssumption, ExchangeAssumption DEF CtfAssumption
<1>5. /\ \A x \in {p, q} : n <= s.balance[x][ExchangeContract] /\ n <= s.supply[x]
      /\ n <= s.usdc[CtfContract]
  <2>1. ASSUME NEW x \in {p, q} PROVE n <= s.balance[x][ExchangeContract] /\ n <= s.supply[x]
    <3>1. x \in Position /\ s.balance[x][ExchangeContract] \in Nat /\ s.supply[x] \in Nat
      BY <1>3, <1>4
    <3>2. s.balance[x][ExchangeContract] >= n /\ s.supply[x] >= n
      BY <1>2
    <3> QED
      BY <3>1, <3>2
  <2>2. n <= s.usdc[CtfContract]
    BY <1>2, <1>3, <1>4
  <2> QED
    BY <2>1, <2>2
<1>6. u \in [Address -> Nat]
  BY <1>3, <1>4, <1>5, MoveEffect
<1>7. Balanced(b, k)
  BY <1>3, <1>4, <1>5, BurnBalanced
<1> HIDE DEF b, k, u, guard
<1>8. /\ IsBooks(t) /\ t.usdc = u /\ t.allowance = s.allowance
      /\ t.balance = b /\ t.supply = k /\ t.ok = s.ok
  BY <1>2 DEF FundsTyped, IsBooks, BookFields
<1> HIDE DEF e
<1>9. FundsTyped(t)
  BY <1>6, <1>7, <1>8 DEF FundsTyped
<1> QED
  BY <1>5, <1>8, <1>9 DEF b, k, u

\* Recording a fill leaves the funds alone.
LEMMA RecordFunds ==
    ASSUME NEW s, IsBooks(s), NEW o, NEW total, NEW gave, NEW got, NEW takes,
           NEW t, t = Record(s, o, total, gave, got, takes)
    PROVE  /\ IsBooks(t) /\ t.usdc = s.usdc /\ t.allowance = s.allowance
           /\ t.balance = s.balance /\ t.supply = s.supply /\ t.ok = s.ok
<1> DEFINE d == s.traded[o]
           e == [gave |-> d.gave + gave, got |-> d.got + got, takes |-> d.takes + takes,
                 made |-> d.made \/ takes = 0]
           r == [s EXCEPT !.filled[Key(o)] = total, !.traded[o] = e]
<1>1. t = r
  BY DEF Record
<1> HIDE DEF e
<1> QED
  BY <1>1 DEF IsBooks, BookFields

-----------------------------------------------------------------------------
(* The outcomes' positions *)

LEMMA RootIsParent == Root \in Parents
<1>1. MaxDepth \in Nat /\ 0 < MaxDepth
  BY CtfAssumption, ExchangeAssumption DEF CtfAssumption
<1>2. Root \in [1..0 -> Links]
  BY DEF Root
<1>3. 0 \in 0..MaxDepth
  BY <1>1
<1>4. Root \in Collections
  BY <1>2, <1>3 DEF Collections
<1>5. Len(Root) = 0
  BY EmptySeq DEF Root
<1> QED
  BY <1>1, <1>4, <1>5 DEF Parents

LEMMA OutcomePositionType ==
    ASSUME NEW c \in Condition, NEW i \in Slots(c)
    PROVE  OutcomePosition(c, i) \in Position /\ OutcomePosition(c, i) \in OutcomePositions
<1>1. MaxDepth \in Nat
  BY CtfAssumption DEF CtfAssumption
<1>2. Root \in Parents
  BY RootIsParent
<1>3. {i} \in SUBSET Slots(c) /\ {i} # {}
  OBVIOUS
<1>4. Child(Root, c, {i}) \in Position
  BY <1>1, <1>2, <1>3, ChildIsPosition
<1> QED
  BY <1>4 DEF OutcomePosition, OutcomePositions

LEMMA OutcomePositionLink ==
    ASSUME NEW c, NEW i
    PROVE  OutcomePosition(c, i)[1] = <<c, {i}>>
<1> DEFINE link == <<c, {i}>>
<1>1. << >> \in Seq({link}) /\ link \in {link}
  BY EmptySeq
<1> HIDE DEF link
<1>2. Len(<< >>) = 0
  BY EmptySeq
<1>3. Append(<< >>, link)[1] = link
  BY <1>1, <1>2, AppendProperties
<1> QED
  BY <1>3 DEF OutcomePosition, Child, Root, link

LEMMA OutcomePositionsDiffer ==
    ASSUME NEW c, NEW i, NEW d, NEW j, OutcomePosition(c, i) = OutcomePosition(d, j)
    PROVE  c = d /\ i = j
<1>1. <<c, {i}>> = <<d, {j}>>
  BY OutcomePositionLink
<1>2. c = d /\ {i} = {j}
  BY <1>1
<1> QED
  BY <1>2

LEMMA OutcomePositionsFinite == IsFiniteSet(OutcomePositions)
<1> DEFINE P(c) == {OutcomePosition(c, i) : i \in Slots(c)}
           S == {P(c) : c \in Condition}
<1>1. IsFiniteSet(Condition)
  BY ExchangeAssumption
<1>2. ASSUME NEW c \in Condition PROVE IsFiniteSet(P(c))
  <2> DEFINE f == [i \in Slots(c) |-> OutcomePosition(c, i)]
  <2>1. SlotCount[c] \in Int /\ 1 \in Int
    BY SlotAssumption
  <2>2. IsFiniteSet(Slots(c))
    BY <2>1, FS_Interval DEF Slots
  <2>3. f \in Surjection(Slots(c), P(c))
    BY DEF Surjection
  <2> QED
    BY <2>2, <2>3, FS_Surjection
<1>3. IsFiniteSet(S)
  <2> DEFINE f == [c \in Condition |-> P(c)]
  <2>1. f \in Surjection(Condition, S)
    BY DEF Surjection
  <2> QED
    BY <1>1, <2>1, FS_Surjection
<1>4. IsFiniteSet(UNION S)
  <2>1. \A u \in S : IsFiniteSet(u)
    BY <1>2
  <2> HIDE DEF S
  <2> QED
    BY <1>3, <2>1, FS_UNION
<1> QED
  BY <1>4 DEF OutcomePositions

\* A fee is part of the amount it is taken from.
LEMMA FeeBound ==
    ASSUME NEW n \in Nat, NEW rate \in Nat, rate <= FullRate
    PROVE  FeeAmount(n, rate) \in Nat /\ FeeAmount(n, rate) <= n
<1> DEFINE a == n * rate
           b == n * FullRate
<1>1. FullRate \in Nat \ {0}
  BY OrdersAssumption
<1>2. a \in Nat /\ b \in Nat /\ a = rate * n /\ b = FullRate * n
  BY <1>1
<1>3. a <= b
  <2>1. rate * n <= FullRate * n
    BY <1>1, ScaleUpWeak
  <2> QED
    BY <1>2, <2>1
<1>4. b \div FullRate = n
  BY <1>1
<1> HIDE DEF a, b
<1>5. a \div FullRate \in Nat /\ a \div FullRate <= b \div FullRate
  BY <1>1, <1>2, <1>3, DivisionBounds, DivisionMonotone
<1> QED
  BY <1>4, <1>5 DEF FeeAmount, a

-----------------------------------------------------------------------------
(* Settlements between the traders *)

\* Unless it panicked, from the books s to the books t the tokens' supplies and the exchange's own
\* tokens stay, and d units of collateral come to the exchange.  A contract that is
\* the fee recipient gets fees besides.
Moved(s, t, d) ==
    /\ FundsTyped(t)
    /\ t.ok =>
        /\ s.ok /\ t.supply = s.supply
        /\ \A p \in Position : t.balance[p][ExchangeContract] = s.balance[p][ExchangeContract]
        /\ feeRecipient # ExchangeContract =>
               t.usdc[ExchangeContract] = s.usdc[ExchangeContract] + d
        /\ feeRecipient # CtfContract => t.usdc[CtfContract] = s.usdc[CtfContract]

LEMMA Accounts ==
    /\ ExchangeContract \in Address /\ CtfContract \in Address
    /\ ExchangeContract # CtfContract
    /\ \A a \in Traders : a \in Address /\ a # ExchangeContract /\ a # CtfContract
    /\ \A a \in FeeRecipients : a \in Address
BY CtfAssumption, ExchangeAssumption DEF CtfAssumption

LEMMA MovedTransitive ==
    ASSUME NEW s, FundsTyped(s), NEW t, NEW d \in Int, Moved(s, t, d),
           NEW u, NEW e \in Int, Moved(t, u, e)
    PROVE  Moved(s, u, d + e)
<1>1. s.usdc[ExchangeContract] \in Nat /\ t.usdc[ExchangeContract] \in Nat
  BY Accounts DEF FundsTyped, Moved
<1>2. u.ok /\ feeRecipient # ExchangeContract =>
          u.usdc[ExchangeContract] = s.usdc[ExchangeContract] + (d + e)
  BY <1>1 DEF Moved
<1> QED
  BY <1>2 DEF Moved

LEMMA StillMoved ==
    ASSUME NEW s, FundsTyped(s)
    PROVE  Moved(s, s, 0)
<1>1. s.usdc[ExchangeContract] \in Nat
  BY Accounts DEF FundsTyped
<1>2. s.usdc[ExchangeContract] = s.usdc[ExchangeContract] + 0
  BY <1>1
<1>3. s.ok => s.ok
  OBVIOUS
<1> QED
  BY <1>2, <1>3 DEF Moved

\* The collateral of every account after a move.
LEMMA MoveIn ==
    ASSUME NEW s, FundsTyped(s), NEW from \in Address, NEW to \in Address, NEW n \in Nat,
           from = to \/ n <= s.usdc[from], NEW u, u = Move(s.usdc, from, to, n)
    PROVE  \A a \in Address : u[a] =
               s.usdc[a] + (IF a = to THEN n ELSE 0) - (IF a = from THEN n ELSE 0)
<1> DEFINE f == s.usdc
<1>1. f \in [Address -> Nat] /\ (from = to \/ n <= f[from]) /\ u = Move(f, from, to, n)
  BY DEF FundsTyped
<1> HIDE DEF f
<1>2. \A a \in Address : u[a] = f[a] + (IF a = to THEN n ELSE 0) - (IF a = from THEN n ELSE 0)
  BY <1>1 DEF Move, Credit, Debit
<1> QED
  BY <1>2 DEF f

\* Traders pay each other, or the fee recipient.
LEMMA PullMoved ==
    ASSUME NEW s, FundsTyped(s), NEW from \in Traders, NEW to \in Traders \cup {feeRecipient},
           feeRecipient \in Address, NEW n \in Nat, NEW t, t = Pull(s, from, to, n)
    PROVE  Moved(s, t, 0)
<1>0. t = Panic(s) => Moved(s, t, 0)
  BY PanicFunds DEF Moved
<1>a. SUFFICES ASSUME t # Panic(s) PROVE Moved(s, t, 0)
  BY <1>0
<1>1. from \in Address /\ to \in Address
  BY Accounts
<1>2. /\ (t.ok => s.ok) /\ FundsTyped(t)
      /\ t.usdc = Move(s.usdc, from, to, n) /\ (from = to \/ n <= s.usdc[from])
      /\ t.balance = s.balance /\ t.supply = s.supply
  BY <1>1, <1>a, PullFunds
<1>3. s.usdc \in [Address -> Nat]
  BY DEF FundsTyped
<1>4. \A a \in Address : t.usdc[a] =
          s.usdc[a] + (IF a = to THEN n ELSE 0) - (IF a = from THEN n ELSE 0)
  BY <1>1, <1>2, MoveIn
<1>5. ASSUME NEW a \in {ExchangeContract, CtfContract}, feeRecipient # a
      PROVE  t.usdc[a] = s.usdc[a] /\ s.usdc[a] \in Nat
  <2>1. a # from /\ a # to /\ a \in Address
    BY <1>5, Accounts
  <2> QED
    BY <1>3, <1>4, <2>1
<1> QED
  BY <1>2, <1>5 DEF Moved

\* A trader pays the exchange.
LEMMA BidMoved ==
    ASSUME NEW s, FundsTyped(s), NEW from \in Traders, NEW n \in Nat,
           NEW t, t = Pull(s, from, ExchangeContract, n)
    PROVE  Moved(s, t, n)
<1>0. t = Panic(s) => Moved(s, t, n)
  BY PanicFunds DEF Moved
<1>a. SUFFICES ASSUME t # Panic(s) PROVE Moved(s, t, n)
  BY <1>0
<1>1. from \in Address /\ ExchangeContract \in Address /\ CtfContract \in Address
      /\ from # ExchangeContract /\ from # CtfContract /\ ExchangeContract # CtfContract
  BY Accounts
<1>2. /\ (t.ok => s.ok) /\ FundsTyped(t)
      /\ t.usdc = Move(s.usdc, from, ExchangeContract, n) /\ n <= s.usdc[from]
      /\ t.balance = s.balance /\ t.supply = s.supply
  BY <1>1, <1>a, PullFunds
<1>3. s.usdc \in [Address -> Nat]
  BY DEF FundsTyped
<1>4. \A a \in Address : t.usdc[a] =
          s.usdc[a] + (IF a = ExchangeContract THEN n ELSE 0) - (IF a = from THEN n ELSE 0)
  BY <1>1, <1>2, MoveIn, SMTT(30)
<1>5. /\ t.usdc[ExchangeContract] = s.usdc[ExchangeContract] + n
      /\ t.usdc[CtfContract] = s.usdc[CtfContract]
  BY <1>1, <1>3, <1>4
<1> QED
  BY <1>2, <1>5 DEF Moved

\* The exchange pays a trader or the fee recipient.
LEMMA PayMoved ==
    ASSUME NEW s, FundsTyped(s), NEW to \in Traders \cup {feeRecipient},
           feeRecipient \in Address, NEW n \in Nat, NEW t, t = Pay(s, to, n)
    PROVE  Moved(s, t, 0 - n)
<1>0. t = Panic(s) => Moved(s, t, 0 - n)
  BY PanicFunds DEF Moved
<1>a. SUFFICES ASSUME t # Panic(s) PROVE Moved(s, t, 0 - n)
  BY <1>0
<1>1. to \in Address /\ ExchangeContract \in Address /\ CtfContract \in Address
      /\ ExchangeContract # CtfContract
  BY Accounts
<1>2. /\ (t.ok => s.ok) /\ FundsTyped(t) /\ t.usdc = Move(s.usdc, ExchangeContract, to, n)
      /\ (ExchangeContract = to \/ n <= s.usdc[ExchangeContract])
      /\ t.balance = s.balance /\ t.supply = s.supply
  BY <1>1, <1>a, TransferFunds DEF Pay
<1>3. s.usdc \in [Address -> Nat]
  BY DEF FundsTyped
<1>4. \A a \in Address : t.usdc[a] =
          s.usdc[a] + (IF a = to THEN n ELSE 0) - (IF a = ExchangeContract THEN n ELSE 0)
  <2>1. t.usdc = Move(s.usdc, ExchangeContract, to, n)
    BY <1>2
  <2>2. ExchangeContract = to \/ n <= s.usdc[ExchangeContract]
    BY <1>2
  <2>3. \A a \in Address : Move(s.usdc, ExchangeContract, to, n)[a] =
            s.usdc[a] + (IF a = to THEN n ELSE 0) - (IF a = ExchangeContract THEN n ELSE 0)
    BY <1>1, <1>3, <2>2, MoveEffect
  <2> QED
    BY <2>1, <2>3
<1>5. feeRecipient # ExchangeContract =>
          t.usdc[ExchangeContract] = s.usdc[ExchangeContract] + (0 - n)
  <2> SUFFICES ASSUME feeRecipient # ExchangeContract
               PROVE  t.usdc[ExchangeContract] = s.usdc[ExchangeContract] + (0 - n)
    OBVIOUS
  <2>1. to # ExchangeContract
    BY Accounts
  <2> QED
    BY <1>1, <1>3, <1>4, <2>1
<1>6. feeRecipient # CtfContract => t.usdc[CtfContract] = s.usdc[CtfContract]
  <2> SUFFICES ASSUME feeRecipient # CtfContract
               PROVE  t.usdc[CtfContract] = s.usdc[CtfContract]
    OBVIOUS
  <2>1. to # CtfContract
    BY Accounts
  <2> QED
    BY <1>1, <1>3, <1>4, <2>1
<1> QED
  BY <1>2, <1>5, <1>6 DEF Moved

\* Payments that are made only when there is something to pay.
LEMMA PullIfAnyMoved ==
    ASSUME NEW s, FundsTyped(s), NEW from \in Traders, NEW to \in Traders \cup {feeRecipient},
           feeRecipient \in Address, NEW n \in Nat, NEW t, t = PullIfAny(s, from, to, n)
    PROVE  Moved(s, t, 0)
BY PullMoved, StillMoved DEF PullIfAny

LEMMA PayIfAnyMoved ==
    ASSUME NEW s, FundsTyped(s), NEW to \in Traders \cup {feeRecipient},
           feeRecipient \in Address, NEW n \in Nat, NEW t, t = PayIfAny(s, to, n)
    PROVE  Moved(s, t, 0 - n)
<1>1. CASE n = 0
  <2>1. t = s /\ 0 - n = 0
    BY <1>1 DEF PayIfAny
  <2> QED
    BY <2>1, StillMoved
<1>2. CASE n # 0
  <2>1. t = Pay(s, to, n)
    BY <1>2 DEF PayIfAny
  <2> QED
    BY <2>1, PayMoved
<1> QED
  BY <1>1, <1>2

\* Traders deliver to each other.
LEMMA GiveMoved ==
    ASSUME NEW s, FundsTyped(s), NEW from \in Traders, NEW to \in Traders,
           NEW p \in Position, NEW n \in Nat, NEW t, t = Give(s, from, to, p, n)
    PROVE  Moved(s, t, 0)
<1>0. t = Panic(s) => Moved(s, t, 0)
  BY PanicFunds DEF Moved
<1>a. SUFFICES ASSUME t # Panic(s) PROVE Moved(s, t, 0)
  BY <1>0
<1>1. from \in Address /\ to \in Address /\ ExchangeContract \in Address
      /\ from # ExchangeContract /\ to # ExchangeContract
  BY Accounts
<1>2. /\ (t.ok => s.ok) /\ FundsTyped(t) /\ n <= s.balance[p][from]
      /\ t.balance = [s.balance EXCEPT ![p] = Move(s.balance[p], from, to, n)]
      /\ t.supply = s.supply /\ t.usdc = s.usdc
  BY <1>1, <1>a, GiveFunds
<1>3. s.balance \in [Position -> [Address -> Nat]] /\ s.usdc[ExchangeContract] \in Nat
  BY <1>1 DEF FundsTyped, Balanced
<1>4. \A q \in Position : t.balance[q][ExchangeContract] = s.balance[q][ExchangeContract]
  <2> DEFINE f == s.balance[p]
  <2>1. f \in [Address -> Nat] /\ n <= f[from]
    BY <1>2, <1>3
  <2> HIDE DEF f
  <2>2. Move(f, from, to, n)[ExchangeContract] = f[ExchangeContract]
    BY <1>1, <2>1 DEF Move, Credit, Debit
  <2> QED
    BY <1>2, <1>3, <2>2 DEF f
<1> QED
  BY <1>2, <1>3, <1>4 DEF Moved

\* A trade between two traders.
LEMMA TradeMoved ==
    ASSUME NEW s, FundsTyped(s), NEW o \in Order, o.makerAmount # 0, o.feeRate <= FullRate,
           o.condition \in Condition, o.outcome \in Slots(o.condition),
           feeRecipient \in Address, NEW before \in Nat, NEW fill \in Nat,
           NEW t, t = ExecuteTrade(s, o, before, fill)
    PROVE  Moved(s, t, 0)
<1> DEFINE counter == CounterAmount(o, before, fill)
           buys    == o.side = "Buy"
           cash    == IF buys THEN fill ELSE counter
           tokens  == IF buys THEN counter ELSE fill
           buyer   == IF buys THEN o.maker ELSE o.taker
           seller  == IF buys THEN o.taker ELSE o.maker
           fee     == FeeAmount(cash, o.feeRate)
           rest    == cash - fee
           paid    == Pull(s, buyer, seller, rest)
           charged == PullIfAny(paid, buyer, feeRecipient, fee)
           given   == Give(charged, seller, buyer, PositionOf(o), tokens)
<1>1. t = IF counter = 0 THEN Panic(s) ELSE given
  BY DEF ExecuteTrade, PullIfAny
<1>2. counter \in Nat
  BY CounterType
<1>3. /\ cash \in Nat /\ tokens \in Nat /\ buyer \in Traders /\ seller \in Traders
      /\ o.feeRate \in Nat
  <2> HIDE DEF counter
  <2> QED
    BY <1>2, OrderAssumption
<1>4. fee \in Nat /\ rest \in Nat
  <2> HIDE DEF cash
  <2>1. fee \in Nat /\ fee <= cash
    BY <1>3, FeeBound
  <2> HIDE DEF fee
  <2> QED
    BY <1>3, <2>1
<1>5. PositionOf(o) \in Position
  BY OutcomePositionType DEF PositionOf
<1> HIDE DEF counter, cash, tokens, buyer, seller, fee, rest
<1>6. Moved(s, paid, 0)
  BY <1>3, <1>4, PullMoved
<1>7. Moved(paid, charged, 0)
  <2> HIDE DEF paid
  <2> QED
    BY <1>3, <1>4, <1>6, PullIfAnyMoved DEF Moved
<1>8. Moved(s, charged, 0 + 0)
  <2> HIDE DEF paid, charged
  <2> QED
    BY <1>6, <1>7, MovedTransitive
<1>9. Moved(charged, given, 0)
  <2> HIDE DEF charged
  <2> QED
    BY <1>3, <1>5, <1>8, GiveMoved DEF Moved
<1>10. Moved(s, given, 0)
  <2> HIDE DEF charged, given
  <2>1. Moved(s, charged, 0)
    BY <1>8
  <2>2. Moved(s, given, 0 + 0)
    BY <1>9, <2>1, MovedTransitive
  <2> QED
    BY <2>2
<1>11. Moved(s, Panic(s), 0)
  BY PanicFunds DEF Moved
<1> HIDE DEF given
<1> QED
  BY <1>1, <1>10, <1>11

-----------------------------------------------------------------------------
(* Settlements with complete sets *)

\* Unless it panicked, from the books s to the books t each position in Q has k more
\* tokens, d units of collateral come to the exchange and m to the CTF contract; the
\* exchange's own tokens stay.
Settled(s, t, Q, k, d, m) ==
    /\ FundsTyped(t)
    /\ t.ok =>
        /\ s.ok
        /\ \A p \in Position : t.supply[p] = s.supply[p] + (IF p \in Q THEN k ELSE 0)
        /\ \A p \in Position : t.balance[p][ExchangeContract] = s.balance[p][ExchangeContract]
        /\ feeRecipient # ExchangeContract =>
               t.usdc[ExchangeContract] = s.usdc[ExchangeContract] + d
        /\ feeRecipient # CtfContract => t.usdc[CtfContract] = s.usdc[CtfContract] + m

\* The exchange's payments after it.
LEMMA SettledMoved ==
    ASSUME NEW s, FundsTyped(s), NEW t, NEW u, NEW Q, NEW k \in Int, NEW d \in Int, NEW m \in Int,
           Settled(s, t, Q, k, d, m), NEW e \in Int, Moved(t, u, e)
    PROVE  Settled(s, u, Q, k, d + e, m)
<1>1. /\ s.usdc[ExchangeContract] \in Nat /\ t.usdc[ExchangeContract] \in Nat
      /\ FundsTyped(u)
  BY Accounts DEF FundsTyped, Settled, Moved
<1>2. CASE ~u.ok
  BY <1>1, <1>2 DEF Settled
<1>3. CASE u.ok
  <2>1. /\ t.ok /\ u.supply = t.supply
        /\ \A p \in Position : u.balance[p][ExchangeContract] = t.balance[p][ExchangeContract]
        /\ feeRecipient # ExchangeContract =>
               u.usdc[ExchangeContract] = t.usdc[ExchangeContract] + e
        /\ feeRecipient # CtfContract => u.usdc[CtfContract] = t.usdc[CtfContract]
    BY <1>3 DEF Moved
  <2>2. /\ s.ok
        /\ \A p \in Position : t.supply[p] = s.supply[p] + (IF p \in Q THEN k ELSE 0)
        /\ \A p \in Position : t.balance[p][ExchangeContract] = s.balance[p][ExchangeContract]
        /\ feeRecipient # ExchangeContract =>
               t.usdc[ExchangeContract] = s.usdc[ExchangeContract] + d
        /\ feeRecipient # CtfContract => t.usdc[CtfContract] = s.usdc[CtfContract] + m
    BY <2>1 DEF Settled
  <2>3. feeRecipient # ExchangeContract =>
               u.usdc[ExchangeContract] = s.usdc[ExchangeContract] + (d + e)
    BY <1>1, <2>1, <2>2
  <2> QED
    BY <1>1, <2>1, <2>2, <2>3 DEF Settled
<1> QED
  BY <1>2, <1>3

\* The payments before it.
LEMMA MovedSettled ==
    ASSUME NEW s, FundsTyped(s), NEW t, NEW e \in Int, Moved(s, t, e),
           NEW u, NEW Q, NEW k \in Int, NEW d \in Int, NEW m \in Int, Settled(t, u, Q, k, d, m)
    PROVE  Settled(s, u, Q, k, e + d, m)
<1>1. /\ s.usdc[ExchangeContract] \in Nat /\ t.usdc[ExchangeContract] \in Nat
      /\ FundsTyped(u)
  BY Accounts DEF FundsTyped, Settled, Moved
<1>2. CASE ~u.ok
  BY <1>1, <1>2 DEF Settled
<1>3. CASE u.ok
  <2>1. /\ t.ok
        /\ \A p \in Position : u.supply[p] = t.supply[p] + (IF p \in Q THEN k ELSE 0)
        /\ \A p \in Position : u.balance[p][ExchangeContract] = t.balance[p][ExchangeContract]
        /\ feeRecipient # ExchangeContract =>
               u.usdc[ExchangeContract] = t.usdc[ExchangeContract] + d
        /\ feeRecipient # CtfContract => u.usdc[CtfContract] = t.usdc[CtfContract] + m
    BY <1>3 DEF Settled
  <2>2. /\ s.ok /\ t.supply = s.supply
        /\ \A p \in Position : t.balance[p][ExchangeContract] = s.balance[p][ExchangeContract]
        /\ feeRecipient # ExchangeContract =>
               t.usdc[ExchangeContract] = s.usdc[ExchangeContract] + e
        /\ feeRecipient # CtfContract => t.usdc[CtfContract] = s.usdc[CtfContract]
    BY <2>1 DEF Moved
  <2>3. feeRecipient # ExchangeContract =>
               u.usdc[ExchangeContract] = s.usdc[ExchangeContract] + (e + d)
    BY <1>1, <2>1, <2>2
  <2> QED
    BY <1>1, <2>1, <2>2, <2>3 DEF Settled
<1> QED
  BY <1>2, <1>3

\* A token of one outcome issued to a trader.
Issued(s, t, p, k) ==
    /\ FundsTyped(t)
    /\ t.ok =>
        /\ s.ok /\ t.usdc = s.usdc
        /\ \A q \in Position : t.supply[q] = IF q = p THEN s.supply[q] + k ELSE s.supply[q]
        /\ \A q \in Position : t.balance[q][ExchangeContract] = s.balance[q][ExchangeContract]

LEMMA IssueIssued ==
    ASSUME NEW s, FundsTyped(s), NEW to \in Traders, NEW p \in Position, NEW k \in Nat,
           NEW t, t = Issue(s, to, p, k)
    PROVE  Issued(s, t, p, k)
<1>0. t = Panic(s) => Issued(s, t, p, k)
  BY PanicFunds DEF Issued
<1>a. SUFFICES ASSUME t # Panic(s) PROVE Issued(s, t, p, k)
  BY <1>0
<1>1. to \in Address /\ ExchangeContract \in Address /\ to # ExchangeContract
  BY Accounts
<1>2. /\ (t.ok => s.ok) /\ FundsTyped(t)
      /\ t.balance = [s.balance EXCEPT ![p] = Credit(s.balance[p], to, k)]
      /\ t.supply = [s.supply EXCEPT ![p] = s.supply[p] + k]
      /\ t.usdc = s.usdc
  BY <1>1, <1>a, IssueFunds
<1>3. /\ s.balance \in [Position -> [Address -> Nat]] /\ s.supply \in [Position -> Nat]
  BY DEF FundsTyped, Balanced
<1>4. \A q \in Position : t.balance[q][ExchangeContract] = s.balance[q][ExchangeContract]
  <2> DEFINE f == s.balance[p]
  <2>1. f \in [Address -> Nat]
    BY <1>3
  <2> HIDE DEF f
  <2>2. Credit(f, to, k)[ExchangeContract] = f[ExchangeContract]
    BY <1>1, <2>1 DEF Credit
  <2> QED
    BY <1>2, <1>3, <2>2 DEF f
<1>5. \A q \in Position : t.supply[q] = IF q = p THEN s.supply[q] + k ELSE s.supply[q]
  BY <1>2, <1>3
<1> QED
  BY <1>2, <1>4, <1>5 DEF Issued

LEMMA IssuesSettled ==
    ASSUME NEW s, FundsTyped(s), NEW p \in Position, NEW q \in Position, p # q, NEW k \in Nat,
           NEW t, Issued(s, t, p, k), NEW u, Issued(t, u, q, k)
    PROVE  Settled(s, u, {p, q}, k, 0, 0)
<1>1. FundsTyped(u) /\ s.supply \in [Position -> Nat]
  BY DEF Issued, FundsTyped, Balanced
<1>2. CASE ~u.ok
  BY <1>1, <1>2 DEF Settled
<1>3. CASE u.ok
  <2>1. /\ t.ok /\ u.usdc = t.usdc
        /\ \A x \in Position : u.supply[x] = IF x = q THEN t.supply[x] + k ELSE t.supply[x]
        /\ \A x \in Position : u.balance[x][ExchangeContract] = t.balance[x][ExchangeContract]
    BY <1>3 DEF Issued
  <2>2. /\ s.ok /\ t.usdc = s.usdc
        /\ \A x \in Position : t.supply[x] = IF x = p THEN s.supply[x] + k ELSE s.supply[x]
        /\ \A x \in Position : t.balance[x][ExchangeContract] = s.balance[x][ExchangeContract]
    BY <2>1 DEF Issued
  <2>3. \A x \in Position : u.supply[x] = s.supply[x] + (IF x \in {p, q} THEN k ELSE 0)
    BY <1>1, <2>1, <2>2
  <2>4. /\ u.usdc[ExchangeContract] = s.usdc[ExchangeContract] + 0
        /\ u.usdc[CtfContract] = s.usdc[CtfContract] + 0
    <3>1. s.usdc[ExchangeContract] \in Nat /\ s.usdc[CtfContract] \in Nat
      BY Accounts DEF FundsTyped
    <3> QED
      BY <2>1, <2>2, <3>1
  <2> QED
    BY <1>1, <2>1, <2>2, <2>3, <2>4 DEF Settled
<1> QED
  BY <1>2, <1>3

\* What both sides of a complementary match are.
Complements(left, right) ==
    /\ left.makerAmount # 0 /\ right.makerAmount # 0
    /\ left.feeRate <= FullRate /\ right.feeRate <= FullRate
    /\ left.condition \in Condition /\ left.outcome \in Slots(left.condition)
    /\ right.outcome \in Slots(right.condition)
    /\ ComplementaryMatch(left, right)

LEMMA ComplementsPositions ==
    ASSUME NEW left \in Order, NEW right \in Order, Complements(left, right)
    PROVE  /\ PositionOf(left) \in Position /\ PositionOf(right) \in Position
           /\ PositionOf(left) # PositionOf(right)
<1>1. /\ left.condition = right.condition /\ left.outcome # right.outcome
      /\ left.condition \in Condition /\ left.outcome \in Slots(left.condition)
      /\ right.outcome \in Slots(right.condition)
  BY DEF Complements, ComplementaryMatch
<1>2. PositionOf(left) \in Position /\ PositionOf(right) \in Position
  BY <1>1, OutcomePositionType DEF PositionOf
<1>3. PositionOf(left) # PositionOf(right)
  BY <1>1, OutcomePositionsDiffer DEF PositionOf
<1> QED
  BY <1>2, <1>3

LEMMA ComplementaryBuySettled ==
    ASSUME NEW s, FundsTyped(s), NEW left \in Order, NEW right \in Order,
           Complements(left, right), feeRecipient \in Address,
           filled[Key(left)] \in Nat, NEW leftFill \in Nat, NEW rightFill \in Nat,
           NEW sets, sets = CounterAmount(left, filled[Key(left)], leftFill),
           NEW t, t = ComplementaryBuy(s, left, leftFill, right, rightFill)
    PROVE  /\ sets \in Nat
           /\ Settled(s, t, {PositionOf(left), PositionOf(right)}, sets, sets, 0)
<1> DEFINE leftFee  == FeeAmount(leftFill, left.feeRate)
           rightFee == FeeAmount(rightFill, right.feeRate)
           lNet     == leftFill - leftFee
           rNet     == rightFill - rightFee
           net      == leftFill - leftFee + rightFill - rightFee
           rest     == net - sets
           one      == PullIfAny(s, left.maker, feeRecipient, leftFee)
           fees     == PullIfAny(one, right.maker, feeRecipient, rightFee)
           bid      == Pull(fees, left.maker, ExchangeContract, lNet)
           bids     == Pull(bid, right.maker, ExchangeContract, rNet)
           p        == PositionOf(left)
           q        == PositionOf(right)
           token    == Issue(bids, left.maker, p, sets)
           tokens   == Issue(token, right.maker, q, sets)
           paid     == PayIfAny(tokens, feeRecipient, rest)
<1>1. \/ t = Panic(s)
      \/ t = paid /\ net >= sets
  BY DEF ComplementaryBuy
<1>2. sets \in Nat
  BY CounterType DEF Complements
<1>3. /\ left.maker \in Traders /\ right.maker \in Traders
      /\ left.feeRate \in Nat /\ right.feeRate \in Nat
      /\ left.feeRate <= FullRate /\ right.feeRate <= FullRate
  BY OrderAssumption DEF Complements
<1>4. /\ leftFee \in Nat /\ leftFee <= leftFill
      /\ rightFee \in Nat /\ rightFee <= rightFill
  BY <1>3, FeeBound
<1> HIDE DEF leftFee, rightFee
<1>5. lNet \in Nat /\ rNet \in Nat /\ net = lNet + rNet
  BY <1>4
<1>6. p \in Position /\ q \in Position /\ p # q
  BY ComplementsPositions
<1>7. CASE t = Panic(s)
  BY <1>2, <1>7, PanicFunds DEF Settled
<1>8. CASE t = paid /\ net >= sets
  <2> HIDE DEF net, lNet, rNet, p, q
  <2>1. rest \in Nat /\ net + (0 - rest) = sets
    BY <1>2, <1>5, <1>8
  <2> HIDE DEF rest
  <2>2. Moved(s, one, 0)
    BY <1>3, <1>4, PullIfAnyMoved
  <2>3. Moved(one, fees, 0)
    <3> HIDE DEF one
    <3> QED
      BY <1>3, <1>4, <2>2, PullIfAnyMoved DEF Moved
  <2>4. Moved(fees, bid, lNet)
    <3> HIDE DEF fees
    <3> QED
      BY <1>3, <1>5, <2>3, BidMoved DEF Moved
  <2>5. Moved(bid, bids, rNet)
    <3> HIDE DEF bid
    <3> QED
      BY <1>3, <1>5, <2>4, BidMoved DEF Moved
  <2>6. Moved(s, bids, net)
    <3> HIDE DEF one, fees, bid, bids
    <3>1. Moved(s, fees, 0 + 0)
      BY <2>2, <2>3, MovedTransitive
    <3>2. Moved(s, fees, 0)
      BY <3>1
    <3>3. Moved(s, bid, 0 + lNet)
      BY <1>5, <2>4, <3>2, MovedTransitive
    <3>4. Moved(s, bid, lNet)
      BY <1>5, <3>3
    <3> QED
      BY <1>5, <2>5, <3>4, MovedTransitive
  <2> HIDE DEF bids
  <2>7. FundsTyped(bids)
    BY <2>6 DEF Moved
  <2>8. Issued(bids, token, p, sets)
    BY <1>2, <1>3, <1>6, <2>7, IssueIssued
  <2>9. Issued(token, tokens, q, sets)
    <3> HIDE DEF token
    <3>1. FundsTyped(token)
      BY <2>8 DEF Issued
    <3> QED
      BY <1>2, <1>3, <1>6, <3>1, IssueIssued
  <2> HIDE DEF token, tokens
  <2>10. Settled(bids, tokens, {p, q}, sets, 0, 0)
    BY <1>2, <1>6, <2>7, <2>8, <2>9, IssuesSettled
  <2>11. Settled(s, tokens, {p, q}, sets, net, 0)
    <3>1. Settled(s, tokens, {p, q}, sets, net + 0, 0)
      BY <1>2, <1>5, <2>6, <2>10, MovedSettled
    <3> QED
      BY <1>5, <3>1
  <2>12. Moved(tokens, paid, 0 - rest)
    <3>1. FundsTyped(tokens)
      BY <2>11 DEF Settled
    <3> QED
      BY <2>1, <3>1, PayIfAnyMoved
  <2> HIDE DEF paid
  <2>13. Settled(s, paid, {p, q}, sets, net + (0 - rest), 0)
    <3> DEFINE e == 0 - rest
    <3>1. e \in Int /\ net \in Int /\ sets \in Int /\ 0 \in Int
      BY <1>2, <1>5, <2>1
    <3>2. Moved(tokens, paid, e)
      BY <2>12
    <3> HIDE DEF e
    <3>3. Settled(s, paid, {p, q}, sets, net + e, 0)
      BY <2>11, <3>1, <3>2, SettledMoved
    <3> QED
      BY <3>3 DEF e
  <2> QED
    BY <1>2, <1>8, <2>1, <2>13 DEF p, q
<1> QED
  BY <1>1, <1>7, <1>8

\* Tokens of one outcome delivered to the exchange.
Taken(s, t, p, n) ==
    /\ FundsTyped(t)
    /\ t.ok =>
        /\ s.ok /\ t.usdc = s.usdc /\ t.supply = s.supply
        /\ \A q \in Position : t.balance[q][ExchangeContract] =
               IF q = p THEN s.balance[q][ExchangeContract] + n
                        ELSE s.balance[q][ExchangeContract]

LEMMA GiveTaken ==
    ASSUME NEW s, FundsTyped(s), NEW from \in Traders, NEW p \in Position, NEW n \in Nat,
           NEW t, t = Give(s, from, ExchangeContract, p, n)
    PROVE  Taken(s, t, p, n)
<1>0. t = Panic(s) => Taken(s, t, p, n)
  BY PanicFunds DEF Taken
<1>a. SUFFICES ASSUME t # Panic(s) PROVE Taken(s, t, p, n)
  BY <1>0
<1>1. from \in Address /\ ExchangeContract \in Address /\ from # ExchangeContract
  BY Accounts
<1>2. /\ (t.ok => s.ok) /\ FundsTyped(t) /\ n <= s.balance[p][from]
      /\ t.balance = [s.balance EXCEPT ![p] = Move(s.balance[p], from, ExchangeContract, n)]
      /\ t.supply = s.supply /\ t.usdc = s.usdc
  BY <1>1, <1>a, GiveFunds
<1>3. s.balance \in [Position -> [Address -> Nat]]
  BY DEF FundsTyped, Balanced
<1>4. \A q \in Position : t.balance[q][ExchangeContract] =
          IF q = p THEN s.balance[q][ExchangeContract] + n ELSE s.balance[q][ExchangeContract]
  <2> DEFINE f == s.balance[p]
  <2>1. f \in [Address -> Nat] /\ n <= f[from]
    BY <1>2, <1>3
  <2> HIDE DEF f
  <2>2. Move(f, from, ExchangeContract, n)[ExchangeContract] = f[ExchangeContract] + n
    BY <1>1, <2>1 DEF Move, Credit, Debit
  <2> QED
    BY <1>2, <1>3, <2>2 DEF f
<1> QED
  BY <1>2, <1>4 DEF Taken

Merged(u, v, p, q, n) ==
    /\ FundsTyped(v)
    /\ v.ok =>
        /\ u.ok
        /\ v.balance = Burned(u.balance, {p, q}, ExchangeContract, n)
        /\ v.supply = SupplyDown(u.supply, {p, q}, n)
        /\ v.usdc = Move(u.usdc, CtfContract, ExchangeContract, n)

LEMMA MergeMerged ==
    ASSUME NEW u, FundsTyped(u), NEW p \in Position, NEW q \in Position, NEW n \in Nat,
           NEW c, NEW v, v = Merge(u, c, p, q, n)
    PROVE  Merged(u, v, p, q, n)
<1>1. CASE v = Panic(u)
  BY <1>1, PanicFunds DEF Merged
<1>2. CASE v # Panic(u)
  <2>1. /\ (v.ok => u.ok) /\ FundsTyped(v)
        /\ v.balance = Burned(u.balance, {p, q}, ExchangeContract, n)
        /\ v.supply = SupplyDown(u.supply, {p, q}, n)
        /\ v.usdc = Move(u.usdc, CtfContract, ExchangeContract, n)
    BY <1>2, MergeFunds, SMTT(30)
  <2> QED
    BY <2>1 DEF Merged
<1> QED
  BY <1>1, <1>2

\* Complete sets delivered and merged.
LEMMA MergeSettled ==
    ASSUME NEW s, FundsTyped(s), NEW p \in Position, NEW q \in Position, p # q, NEW n \in Nat,
           NEW t, Taken(s, t, p, n), NEW u, Taken(t, u, q, n), NEW v, Merged(u, v, p, q, n)
    PROVE  Settled(s, v, {p, q}, 0 - n, n, 0 - n)
<1>1. FundsTyped(u) /\ FundsTyped(v)
  BY DEF Taken, Merged
<1>2. CASE ~v.ok
  BY <1>1, <1>2 DEF Settled
<1>3. CASE v.ok
  <2>1. /\ u.ok
        /\ v.balance = Burned(u.balance, {p, q}, ExchangeContract, n)
        /\ v.supply = SupplyDown(u.supply, {p, q}, n)
        /\ v.usdc = Move(u.usdc, CtfContract, ExchangeContract, n)
    BY <1>3 DEF Merged
  <2>2. /\ t.ok /\ u.usdc = t.usdc /\ u.supply = t.supply
        /\ \A x \in Position : u.balance[x][ExchangeContract] =
               IF x = q THEN t.balance[x][ExchangeContract] + n
                        ELSE t.balance[x][ExchangeContract]
    BY <2>1 DEF Taken
  <2>3. /\ s.ok /\ t.usdc = s.usdc /\ t.supply = s.supply
        /\ \A x \in Position : t.balance[x][ExchangeContract] =
               IF x = p THEN s.balance[x][ExchangeContract] + n
                        ELSE s.balance[x][ExchangeContract]
    BY <2>2 DEF Taken
  <2>4. /\ s.balance \in [Position -> [Address -> Nat]] /\ s.supply \in [Position -> Nat]
        /\ u.balance \in [Position -> [Address -> Nat]]
        /\ s.usdc \in [Address -> Nat]
    BY <1>1 DEF FundsTyped, Balanced
  <2>5. ExchangeContract \in Address /\ CtfContract \in Address
        /\ ExchangeContract # CtfContract
    BY Accounts
  <2>6. \A x \in Position : v.balance[x][ExchangeContract] = s.balance[x][ExchangeContract]
    <3> SUFFICES ASSUME NEW x \in Position
                 PROVE  v.balance[x][ExchangeContract] = s.balance[x][ExchangeContract]
      OBVIOUS
    <3> DEFINE f == u.balance[x]
    <3>1. f \in [Address -> Nat] /\ s.balance[x][ExchangeContract] \in Nat
      BY <2>4, <2>5
    <3>2. v.balance[x] = IF x \in {p, q} THEN Debit(f, ExchangeContract, n) ELSE f
      BY <2>1, <2>4 DEF Burned
    <3>3. f[ExchangeContract] = s.balance[x][ExchangeContract]
                                    + (IF x \in {p, q} THEN n ELSE 0)
      BY <2>2, <2>3, <3>1
    <3> HIDE DEF f
    <3>4. Debit(f, ExchangeContract, n)[ExchangeContract] = f[ExchangeContract] - n
      BY <2>5, <3>1 DEF Debit
    <3> QED
      BY <3>1, <3>2, <3>3, <3>4
  <2>7. \A x \in Position : v.supply[x] = s.supply[x] + (IF x \in {p, q} THEN 0 - n ELSE 0)
    BY <2>1, <2>2, <2>3, <2>4 DEF SupplyDown
  <2>8. /\ v.usdc[ExchangeContract] = s.usdc[ExchangeContract] + n
        /\ v.usdc[CtfContract] = s.usdc[CtfContract] + (0 - n)
    <3> DEFINE f == s.usdc
    <3>1. f \in [Address -> Nat] /\ v.usdc = Move(f, CtfContract, ExchangeContract, n)
      BY <2>1, <2>2, <2>3, <2>4
    <3> HIDE DEF f
    <3>2. /\ v.usdc[ExchangeContract] = f[ExchangeContract] + n
          /\ v.usdc[CtfContract] = f[CtfContract] + (0 - n)
      BY <2>5, <3>1 DEF Move, Credit, Debit
    <3> QED
      BY <3>2 DEF f
  <2> QED
    BY <1>1, <2>1, <2>3, <2>6, <2>7, <2>8 DEF Settled
<1> QED
  BY <1>2, <1>3

LEMMA ComplementarySellSettled ==
    ASSUME NEW s, FundsTyped(s), NEW left \in Order, NEW right \in Order,
           Complements(left, right), feeRecipient \in Address,
           filled[Key(left)] \in Nat, filled[Key(right)] \in Nat,
           NEW leftFill \in Nat, NEW rightFill \in Nat,
           NEW t, t = ComplementarySell(s, left, leftFill, right, rightFill)
    PROVE  Settled(s, t, {PositionOf(left), PositionOf(right)}, 0 - leftFill, 0, 0 - leftFill)
<1> DEFINE leftQuote  == CounterAmount(left, filled[Key(left)], leftFill)
           rightQuote == CounterAmount(right, filled[Key(right)], rightFill)
           leftFee    == FeeAmount(leftQuote, left.feeRate)
           rightFee   == FeeAmount(rightQuote, right.feeRate)
           leftPaid   == leftQuote - leftFee
           rightPaid  == rightQuote - rightFee
           rest       == leftFill - leftPaid - rightPaid
           p          == PositionOf(left)
           q          == PositionOf(right)
           one        == Give(s, left.maker, ExchangeContract, p, leftFill)
           taken      == Give(one, right.maker, ExchangeContract, q, rightFill)
           merged     == Merge(taken, left.condition, p, q, leftFill)
           half       == Pay(merged, left.maker, leftPaid)
           paid       == Pay(half, right.maker, rightPaid)
           all        == PayIfAny(paid, feeRecipient, rest)
           Q          == {p, q}
           k          == 0 - leftFill
<1>1. \/ t = Panic(s)
      \/ /\ t = all /\ leftFill = rightFill
         /\ leftQuote + rightQuote <= leftFill
  BY DEF ComplementarySell
<1>2. leftQuote \in Nat /\ rightQuote \in Nat
  BY CounterType DEF Complements
<1>3. /\ left.maker \in Traders /\ right.maker \in Traders
      /\ left.feeRate \in Nat /\ right.feeRate \in Nat
      /\ left.feeRate <= FullRate /\ right.feeRate <= FullRate
  BY OrderAssumption DEF Complements
<1> HIDE DEF leftQuote, rightQuote
<1>4. /\ leftFee \in Nat /\ leftFee <= leftQuote
      /\ rightFee \in Nat /\ rightFee <= rightQuote
  BY <1>2, <1>3, FeeBound
<1> HIDE DEF leftFee, rightFee
<1>5. leftPaid \in Nat /\ rightPaid \in Nat /\ leftPaid <= leftQuote /\ rightPaid <= rightQuote
  BY <1>2, <1>4
<1> HIDE DEF leftPaid, rightPaid
<1>6. p \in Position /\ q \in Position /\ p # q
  BY ComplementsPositions
<1>7. CASE t = Panic(s)
  BY <1>7, PanicFunds DEF Settled
<1>8. CASE /\ t = all /\ leftFill = rightFill
           /\ leftQuote + rightQuote <= leftFill
  <2>1. /\ rest \in Nat /\ k \in Int /\ 0 - leftPaid \in Int /\ 0 - rightPaid \in Int
        /\ leftFill + (0 - leftPaid) \in Int
        /\ leftFill + (0 - leftPaid) + (0 - rightPaid) \in Int
        /\ leftFill + (0 - leftPaid) + (0 - rightPaid) + (0 - rest) = 0
    BY <1>2, <1>5, <1>8
  <2> HIDE DEF p, q, rest
  <2>2. Taken(s, one, p, leftFill)
    BY <1>3, <1>6, GiveTaken
  <2>3. Taken(one, taken, q, leftFill)
    <3> HIDE DEF one
    <3>1. FundsTyped(one) /\ taken = Give(one, right.maker, ExchangeContract, q, leftFill)
      BY <1>8, <2>2 DEF Taken
    <3> HIDE DEF taken
    <3> QED
      BY <1>3, <1>6, <3>1, GiveTaken
  <2>4. Settled(s, merged, Q, k, leftFill, k)
    <3> HIDE DEF one, taken
    <3>1. FundsTyped(taken)
      BY <2>3 DEF Taken
    <3>2. Merged(taken, merged, p, q, leftFill)
      BY <1>6, <3>1, MergeMerged
    <3> HIDE DEF merged
    <3> QED
      BY <1>6, <2>2, <2>3, <3>2, MergeSettled
  <2> HIDE DEF merged, Q, k
  <2>5. Settled(s, half, Q, k, leftFill + (0 - leftPaid), k)
    <3> DEFINE e == 0 - leftPaid
    <3>1. FundsTyped(merged)
      BY <2>4 DEF Settled
    <3>2. Moved(merged, half, e) /\ e \in Int /\ leftFill \in Int
      BY <1>3, <1>5, <2>1, <3>1, PayMoved
    <3> HIDE DEF e, half
    <3>3. Settled(s, half, Q, k, leftFill + e, k)
      BY <2>1, <2>4, <3>2, SettledMoved
    <3> QED
      BY <3>3 DEF e
  <2> DEFINE d == leftFill + (0 - leftPaid)
  <2>6. Settled(s, half, Q, k, d, k) /\ d \in Int
    BY <2>1, <2>5
  <2> HIDE DEF half
  <2>7. Settled(s, paid, Q, k, d + (0 - rightPaid), k)
    <3> DEFINE e == 0 - rightPaid
    <3>1. FundsTyped(half)
      BY <2>6 DEF Settled
    <3>2. Moved(half, paid, e) /\ e \in Int
      BY <1>3, <1>5, <2>1, <3>1, PayMoved
    <3> HIDE DEF e, d, paid
    <3>3. Settled(s, paid, Q, k, d + e, k)
      BY <2>1, <2>6, <3>2, SettledMoved
    <3> QED
      BY <3>3 DEF e
  <2> DEFINE g == d + (0 - rightPaid)
  <2>8. Settled(s, paid, Q, k, g, k) /\ g \in Int
    BY <2>1, <2>7
  <2> HIDE DEF paid
  <2>9. Settled(s, all, Q, k, g + (0 - rest), k)
    <3> DEFINE e == 0 - rest
    <3>1. FundsTyped(paid)
      BY <2>8 DEF Settled
    <3>2. Moved(paid, all, 0 - rest)
      BY <2>1, <3>1, PayIfAnyMoved
    <3>3. Moved(paid, all, e) /\ e \in Int
      BY <2>1, <3>2
    <3> HIDE DEF e, g, all
    <3>4. Settled(s, all, Q, k, g + e, k)
      BY <2>1, <2>8, <3>3, SettledMoved
    <3> QED
      BY <3>4 DEF e
  <2>10. g + (0 - rest) = 0
    BY <2>1
  <2> HIDE DEF all, g
  <2> QED
    BY <1>8, <2>9, <2>10 DEF Q, p, q, k
<1> QED
  BY <1>1, <1>7, <1>8

-----------------------------------------------------------------------------
(* The funds' invariant *)

FundsInv ==
    /\ IInv
    /\ allowance \in [Address -> Nat]
    /\ feeRecipient \in FeeRecipients
    /\ open \subseteq Condition
    /\ price \in [OutcomePositions -> Nat]
    /\ issued \in [Condition -> Nat]

LEMMA BooksFunds ==
    ASSUME FundsInv
    PROVE  /\ FundsTyped(Books) /\ feeRecipient \in Address
           /\ Books.usdc = usdc /\ Books.balance = balance /\ Books.supply = supply
           /\ Books.ok
<1>1. /\ Books.usdc = usdc /\ Books.balance = balance /\ Books.supply = supply
      /\ Books.allowance = allowance /\ Books.ok /\ IsBooks(Books)
  BY DEF Books, IsBooks, BookFields
<1>2. Balanced(balance, supply)
  BY IInvBalanced DEF FundsInv
<1>3. usdc \in [Address -> Nat] /\ allowance \in [Address -> Nat]
  BY DEF FundsInv, IInv, TypeOK
<1>4. feeRecipient \in Address
  BY Accounts DEF FundsInv
<1> QED
  BY <1>1, <1>2, <1>3, <1>4 DEF FundsTyped

LEMMA FundsCommit ==
    ASSUME FundsInv, NEW s, FundsTyped(s), Commit(s), issued' \in [Condition -> Nat]
    PROVE  FundsInv'
<1>1. /\ usdc' = s.usdc /\ allowance' = s.allowance /\ balance' = s.balance /\ supply' = s.supply
      /\ UNCHANGED <<conditionVars, accessVars>>
      /\ UNCHANGED <<feeRecipient, open, price>>
  BY DEF Commit, exAdminVars, marketVars
<1>2. Balanced(balance', supply') /\ usdc' \in [Address -> Nat] /\ allowance' \in [Address -> Nat]
  BY <1>1 DEF FundsTyped
<1>3. IInv'
  BY <1>1, <1>2, LedgerStep DEF FundsInv
<1> QED
  BY <1>1, <1>2, <1>3 DEF FundsInv

\* What a settlement between traders leaves.
PoolAlone ==
    /\ supply' = supply
    /\ \A p \in Position : balance'[p][ExchangeContract] = balance[p][ExchangeContract]
    /\ feeRecipient # ExchangeContract => usdc'[ExchangeContract] = usdc[ExchangeContract]
    /\ feeRecipient # CtfContract => usdc'[CtfContract] = usdc[CtfContract]

LEMMA MovedCommit ==
    ASSUME FundsInv, NEW s, Moved(Books, s, 0), IsBooks(s),
           NEW o, NEW total, NEW gave, NEW got, NEW takes,
           Commit(Record(s, o, total, gave, got, takes)), UNCHANGED issued
    PROVE  FundsInv' /\ PoolAlone
<1> DEFINE t == Record(s, o, total, gave, got, takes)
<1>1. /\ IsBooks(t) /\ t.usdc = s.usdc /\ t.allowance = s.allowance
      /\ t.balance = s.balance /\ t.supply = s.supply /\ t.ok = s.ok
  BY RecordFunds
<1>2. Commit(t)
  OBVIOUS
<1> HIDE DEF t
<1>3. FundsTyped(t)
  BY <1>1 DEF Moved, FundsTyped
<1>4. FundsInv'
  BY <1>2, <1>3, FundsCommit DEF FundsInv
<1>5. t.ok /\ usdc' = s.usdc /\ balance' = s.balance /\ supply' = s.supply
  BY <1>1, <1>2 DEF Commit
<1>6. /\ s.supply = Books.supply
      /\ \A p \in Position : s.balance[p][ExchangeContract] = Books.balance[p][ExchangeContract]
      /\ feeRecipient # ExchangeContract =>
             s.usdc[ExchangeContract] = Books.usdc[ExchangeContract] + 0
      /\ feeRecipient # CtfContract => s.usdc[CtfContract] = Books.usdc[CtfContract]
  BY <1>1, <1>5 DEF Moved
<1>7. usdc[ExchangeContract] \in Nat
  BY Accounts DEF FundsInv, IInv, TypeOK
<1> QED
  BY <1>4, <1>5, <1>6, <1>7, BooksFunds DEF PoolAlone

LEMMA AcceptedTradeable ==
    ASSUME FundsInv, NEW o \in Order, NEW before, NEW fill, Accepted(o, before, fill)
    PROVE  /\ o.makerAmount # 0 /\ o.feeRate <= FullRate
           /\ o.condition \in Condition /\ o.outcome \in Slots(o.condition)
BY DEF Accepted, Tradeable, FundsInv

LEMMA FundsFill ==
    ASSUME ExInv, FundsInv, NEW o \in Order, NEW fill \in Nat, FillOrder(o, fill)
    PROVE  FundsInv' /\ PoolAlone /\ UNCHANGED issued
<1> DEFINE before  == filled[Key(o)]
           counter == CounterAmount(o, before, fill)
           s == ExecuteTrade(Books, o, before, fill)
           total == before + fill
<1>1. /\ Accepted(o, before, fill) /\ UNCHANGED issued
      /\ Commit(Record(s, o, total, fill, counter, 0))
  BY DEF FillOrder
<1>2. before \in Nat
  BY FilledType
<1>3. Moved(Books, s, 0)
  BY <1>1, <1>2, AcceptedTradeable, BooksFunds, TradeMoved
<1> HIDE DEF s, counter, total
<1>4. IsBooks(s)
  BY <1>3 DEF Moved, FundsTyped
<1> QED
  BY <1>1, <1>3, <1>4, MovedCommit

\* One turn of the loop.
LEMMA TurnMoved ==
    ASSUME FundsInv, NEW taker \in Order, NEW s, OrdersTyped(s), Moved(Books, s, 0),
           NEW o \in Order, NEW fill \in Nat, NEW t, t = FillMaker(s, taker, o, fill)
    PROVE  Moved(Books, t, 0)
<1> DEFINE before  == s.filled[Key(o)]
           counter == CounterAmount(o, before, fill)
           settled == ExecuteTrade(s, o, before, fill)
           guard   == ValidAmount(fill) /\ LimitMatch(taker, o) /\ Accepted(o, before, fill)
           r       == Record(settled, o, before + fill, fill, counter, 0)
           u       == [r EXCEPT !.spent = @ + counter]
<1>1. t = IF guard THEN u ELSE Panic(s)
  BY DEF FillMaker
<1>2. before \in Nat /\ FundsTyped(s) /\ FundsTyped(Books) /\ feeRecipient \in Address
  BY BooksFunds DEF OrdersTyped, Keys, Moved
<1>3. CASE ~guard
  <2>1. t = Panic(s)
    BY <1>1, <1>3
  <2>2. FundsTyped(t) /\ ~t.ok
    BY <1>2, <2>1, PanicFunds
  <2> QED
    BY <2>2 DEF Moved
<1>4. CASE guard
  <2>1. Accepted(o, before, fill) /\ t = u
    BY <1>1, <1>4
  <2> HIDE DEF guard
  <2>2. Moved(s, settled, 0)
    BY <1>2, <2>1, AcceptedTradeable, TradeMoved
  <2> HIDE DEF settled
  <2>3. Moved(Books, settled, 0)
    <3>1. Moved(Books, settled, 0 + 0)
      BY <1>2, <2>2, MovedTransitive
    <3> QED
      BY <3>1
  <2>4. /\ IsBooks(r) /\ r.usdc = settled.usdc /\ r.allowance = settled.allowance
        /\ r.balance = settled.balance /\ r.supply = settled.supply /\ r.ok = settled.ok
    BY <2>2, RecordFunds DEF Moved, FundsTyped
  <2> HIDE DEF r, counter
  <2>5. /\ IsBooks(u) /\ u.usdc = settled.usdc /\ u.allowance = settled.allowance
        /\ u.balance = settled.balance /\ u.supply = settled.supply /\ u.ok = settled.ok
    BY <2>4 DEF IsBooks, BookFields
  <2> HIDE DEF u
  <2> QED
    BY <2>1, <2>3, <2>5 DEF Moved, FundsTyped
<1> QED
  BY <1>3, <1>4

LEMMA TurnTyped ==
    ASSUME NEW taker \in Order, NEW s, OrdersTyped(s), NEW o \in Order, NEW fill \in Nat
    PROVE  OrdersTyped(FillMaker(s, taker, o, fill))
<1> DEFINE before  == s.filled[Key(o)]
           counter == CounterAmount(o, before, fill)
           settled == ExecuteTrade(s, o, before, fill)
           guard   == ValidAmount(fill) /\ LimitMatch(taker, o) /\ Accepted(o, before, fill)
           total   == before + fill
           r       == Record(settled, o, total, fill, counter, 0)
           t       == [r EXCEPT !.spent = @ + counter]
<1>1. FillMaker(s, taker, o, fill) = IF guard THEN t ELSE Panic(s)
  BY DEF FillMaker
<1>2. before \in Nat /\ total \in Nat
  BY DEF OrdersTyped, Keys
<1>3. OrdersTyped(Panic(s))
  BY PanicOrders, SameTyped DEF OrdersTyped
<1>4. ASSUME guard PROVE OrdersTyped(t)
  <2>1. o.makerAmount # 0
    BY <1>4 DEF Accepted
  <2>2. counter \in Nat
    BY <1>2, <2>1, CounterType
  <2>3. OrdersTyped(settled)
    BY ExecuteTradeOrders, SameTyped DEF OrdersTyped
  <2> HIDE DEF settled, counter, total
  <2>4. OrdersTyped(r)
    BY <1>2, <2>2, <2>3, RecordOrders DEF Recorded
  <2> HIDE DEF r
  <2> QED
    BY <2>4 DEF OrdersTyped, IsBooks, BookFields
<1> HIDE DEF guard, t
<1> QED
  BY <1>1, <1>3, <1>4

LEMMA TurnsMoved ==
    ASSUME ExInv, FundsInv, NEW taker \in Order, taker.makerAmount # 0, taker.takerAmount # 0,
           NEW n \in Nat, NEW makers \in [1..n -> Order], NEW fills \in [1..n -> Nat], NEW f,
           Turns(f, taker, makers, fills, n)
    PROVE  Moved(Books, f[n], 0) /\ OrdersTyped(f[n])
<1> DEFINE P(k) == Moved(Books, f[k], 0) /\ OrdersTyped(f[k])
           T == {k \in 0..n : ~P(k)}
<1>1. SUFFICES ASSUME T # {} PROVE FALSE
  OBVIOUS
<1>2. PICK k \in T : \A j \in T : k <= j
  <2>1. T \subseteq Nat
    OBVIOUS
  <2> HIDE DEF T
  <2> QED
    BY <1>1, <2>1, Least
<1>3. k \in 0..n /\ ~P(k)
  OBVIOUS
<1>4. CASE k = 0
  <2>1. f[0] = Books
    BY DEF Turns
  <2>2. Moved(Books, Books, 0)
    BY BooksFunds, StillMoved
  <2> QED
    BY <1>3, <1>4, <2>1, <2>2 DEF ExInv
<1>5. CASE k # 0
  <2> DEFINE j == k - 1
  <2>1. j \in 0..n /\ j \notin T /\ k \in 1..n
    BY <1>2, <1>3, <1>5
  <2>2. P(j)
    BY <2>1
  <2>3. f[k] = FillMaker(f[j], taker, makers[k], fills[k])
    BY <2>1, <1>3, <1>5 DEF Turns
  <2>4. makers[k] \in Order /\ fills[k] \in Nat
    BY <2>1
  <2> HIDE DEF j
  <2>5. Moved(Books, f[k], 0)
    BY <2>2, <2>3, <2>4, TurnMoved
  <2>6. OrdersTyped(f[k])
    BY <2>2, <2>3, <2>4, TurnTyped
  <2> QED
    BY <1>3, <2>5, <2>6
<1> QED
  BY <1>4, <1>5

LEMMA FundsMatch ==
    ASSUME ExInv, FundsInv, NEW taker \in Order, NEW k \in Nat \ {0}, NEW takerFill \in Nat,
           NEW makers \in [1..k -> Order], NEW fills \in [1..k -> Nat],
           MatchOrders(taker, makers, fills, takerFill)
    PROVE  FundsInv' /\ PoolAlone /\ UNCHANGED issued
<1> DEFINE before == filled[Key(taker)]
           tokens == TotalOf(fills)
           total  == before + takerFill
<1>1. Len(makers) = k
  <2>1. k \in Nat /\ DOMAIN makers = 1..k
    OBVIOUS
  <2>2. makers \in Seq(Order)
    BY <2>1
  <2> QED
    BY <2>1, <2>2, LenProperties
<1>2. PICK f :
          /\ Turns(f, taker, makers, fills, k)
          /\ Accepted(taker, before, takerFill)
          /\ Commit(Record(f[k], taker, total, takerFill, tokens, k))
  BY <1>1, MatchTurns
<1>3. UNCHANGED issued
  BY DEF MatchOrders
<1>4. taker.makerAmount # 0 /\ taker.takerAmount # 0
  BY <1>2 DEF Accepted
<1>5. Moved(Books, f[k], 0) /\ OrdersTyped(f[k])
  BY <1>2, <1>4, TurnsMoved
<1> DEFINE s == f[k]
<1>6. Moved(Books, s, 0) /\ IsBooks(s) /\ Commit(Record(s, taker, total, takerFill, tokens, k))
  BY <1>2, <1>5 DEF OrdersTyped
<1> HIDE DEF s, total, tokens
<1> QED
  BY <1>3, <1>6, MovedCommit

\* What a complementary match leaves: complete sets of one condition are issued
\* for collateral, or merged.
SetsSettled(c, i, j, n) ==
    /\ \A p \in Position : balance'[p][ExchangeContract] = balance[p][ExchangeContract]
    /\ \/ /\ issued' = Credit(issued, c, n)
          /\ \A p \in Position : supply'[p] =
                supply[p] + (IF p \in {OutcomePosition(c, i), OutcomePosition(c, j)} THEN n ELSE 0)
          /\ feeRecipient # ExchangeContract =>
                usdc'[ExchangeContract] = usdc[ExchangeContract] + n
          /\ feeRecipient # CtfContract => usdc'[CtfContract] = usdc[CtfContract]
       \/ /\ issued' = issued
          /\ \A p \in Position : supply'[p] =
                supply[p] + (IF p \in {OutcomePosition(c, i), OutcomePosition(c, j)}
                             THEN 0 - n ELSE 0)
          /\ feeRecipient # ExchangeContract =>
                usdc'[ExchangeContract] = usdc[ExchangeContract]
          /\ feeRecipient # CtfContract => usdc'[CtfContract] = usdc[CtfContract] + (0 - n)

\* The books of a complementary match become the state.
LEMMA SettledCommit ==
    ASSUME FundsInv, NEW s, NEW Q, NEW n \in Int, NEW d \in Int, NEW m \in Int,
           Settled(Books, s, Q, n, d, m), NEW t, IsBooks(t), t.usdc = s.usdc,
           t.allowance = s.allowance, t.balance = s.balance, t.supply = s.supply, t.ok = s.ok,
           Commit(t), issued' \in [Condition -> Nat]
    PROVE  /\ FundsInv'
           /\ \A p \in Position : balance'[p][ExchangeContract] = balance[p][ExchangeContract]
           /\ \A p \in Position : supply'[p] = supply[p] + (IF p \in Q THEN n ELSE 0)
           /\ feeRecipient # ExchangeContract =>
                 usdc'[ExchangeContract] = usdc[ExchangeContract] + d
           /\ feeRecipient # CtfContract => usdc'[CtfContract] = usdc[CtfContract] + m
<1>1. FundsTyped(t)
  BY DEF Settled, FundsTyped
<1>2. FundsInv'
  BY <1>1, FundsCommit
<1>3. t.ok /\ usdc' = s.usdc /\ balance' = s.balance /\ supply' = s.supply
  BY DEF Commit
<1>4. /\ \A p \in Position : s.supply[p] = Books.supply[p] + (IF p \in Q THEN n ELSE 0)
      /\ \A p \in Position : s.balance[p][ExchangeContract] = Books.balance[p][ExchangeContract]
      /\ feeRecipient # ExchangeContract =>
             s.usdc[ExchangeContract] = Books.usdc[ExchangeContract] + d
      /\ feeRecipient # CtfContract => s.usdc[CtfContract] = Books.usdc[CtfContract] + m
  BY <1>3 DEF Settled
<1> QED
  BY <1>2, <1>3, <1>4, BooksFunds

LEMMA FundsComplementary ==
    ASSUME ExInv, FundsInv, NEW left \in Order, NEW right \in Order,
           NEW leftFill \in Nat, NEW rightFill \in Nat,
           MatchComplementaryOrders(left, leftFill, right, rightFill)
    PROVE  /\ FundsInv' /\ Complements(left, right)
           /\ \E n \in Nat : SetsSettled(left.condition, left.outcome, right.outcome, n)
<1> DEFINE buys    == left.side = "Buy"
           bought  == ComplementaryBuy(Books, left, leftFill, right, rightFill)
           sold    == ComplementarySell(Books, left, leftFill, right, rightFill)
           settled == IF buys THEN bought ELSE sold
           lBefore == filled[Key(left)]
           rBefore == filled[Key(right)]
           lGot    == CounterAmount(left, lBefore, leftFill)
           rGot    == CounterAmount(right, rBefore, rightFill)
           one     == Record(settled, left, lBefore + leftFill, leftFill, lGot, 0)
           t       == Record(one, right, rBefore + rightFill, rightFill, rGot, 0)
           c       == left.condition
           Q       == {PositionOf(left), PositionOf(right)}
<1>1. /\ Accepted(left, lBefore, leftFill) /\ Accepted(right, rBefore, rightFill)
      /\ ComplementaryMatch(left, right) /\ Commit(t)
      /\ issued' = IF buys THEN Credit(issued, c, lGot) ELSE issued
  BY DEF MatchComplementaryOrders
<1>2. lBefore \in Nat /\ rBefore \in Nat
  BY FilledType
<1>3. Complements(left, right)
  BY <1>1, AcceptedTradeable DEF Complements
<1>4. /\ c \in Condition /\ right.condition = c
      /\ Q = {OutcomePosition(c, left.outcome), OutcomePosition(c, right.outcome)}
  BY <1>3 DEF Complements, ComplementaryMatch, PositionOf
<1>5. issued \in [Condition -> Nat]
  BY DEF FundsInv
<1>6. IsBooks(settled) =>
          /\ IsBooks(t) /\ t.usdc = settled.usdc /\ t.allowance = settled.allowance
          /\ t.balance = settled.balance /\ t.supply = settled.supply /\ t.ok = settled.ok
  <2> HIDE DEF settled, lGot, rGot
  <2> SUFFICES ASSUME IsBooks(settled)
               PROVE  /\ IsBooks(t) /\ t.usdc = settled.usdc /\ t.allowance = settled.allowance
                      /\ t.balance = settled.balance /\ t.supply = settled.supply
                      /\ t.ok = settled.ok
    OBVIOUS
  <2>1. /\ IsBooks(one) /\ one.usdc = settled.usdc /\ one.allowance = settled.allowance
        /\ one.balance = settled.balance /\ one.supply = settled.supply /\ one.ok = settled.ok
    BY RecordFunds
  <2> HIDE DEF one
  <2>2. /\ IsBooks(t) /\ t.usdc = one.usdc /\ t.allowance = one.allowance
        /\ t.balance = one.balance /\ t.supply = one.supply /\ t.ok = one.ok
    BY <2>1, RecordFunds
  <2> QED
    BY <2>1, <2>2
<1>7. CASE buys
  <2>1. settled = bought /\ issued' = Credit(issued, c, lGot)
    BY <1>1, <1>7
  <2>2. /\ lGot \in Nat
        /\ Settled(Books, bought, Q, lGot, lGot, 0)
    BY <1>2, <1>3, BooksFunds, ComplementaryBuySettled
  <2> HIDE DEF t, settled, bought, lGot, buys
  <2>3. issued' \in [Condition -> Nat]
    BY <1>4, <1>5, <2>1, <2>2, CreditType
  <2>4. IsBooks(settled)
    BY <2>1, <2>2 DEF Settled, FundsTyped
  <2>5. lGot \in Int /\ 0 \in Int /\ Settled(Books, settled, Q, lGot, lGot, 0)
    BY <2>1, <2>2
  <2> HIDE DEF Q
  <2>6. /\ FundsInv'
        /\ \A p \in Position : balance'[p][ExchangeContract] = balance[p][ExchangeContract]
        /\ \A p \in Position : supply'[p] = supply[p] + (IF p \in Q THEN lGot ELSE 0)
        /\ feeRecipient # ExchangeContract =>
              usdc'[ExchangeContract] = usdc[ExchangeContract] + lGot
        /\ feeRecipient # CtfContract => usdc'[CtfContract] = usdc[CtfContract] + 0
    BY <1>1, <1>6, <2>3, <2>4, <2>5, SettledCommit
  <2>7. usdc[CtfContract] \in Nat
    BY Accounts DEF FundsInv, IInv, TypeOK
  <2>8. SetsSettled(c, left.outcome, right.outcome, lGot)
    BY <1>4, <2>1, <2>6, <2>7 DEF SetsSettled
  <2> QED
    BY <1>3, <2>2, <2>6, <2>8
<1>8. CASE ~buys
  <2>1. settled = sold /\ issued' = issued
    BY <1>1, <1>8
  <2>2. Settled(Books, sold, Q, 0 - leftFill, 0, 0 - leftFill)
    BY <1>2, <1>3, BooksFunds, ComplementarySellSettled
  <2> HIDE DEF t, settled, sold, buys
  <2>3. issued' \in [Condition -> Nat]
    BY <1>5, <2>1
  <2>4. IsBooks(settled)
    BY <2>1, <2>2 DEF Settled, FundsTyped
  <2> DEFINE k == 0 - leftFill
  <2>5. k \in Int /\ 0 \in Int /\ Settled(Books, settled, Q, k, 0, k)
    BY <2>1, <2>2
  <2> HIDE DEF Q, k
  <2>6. /\ FundsInv'
        /\ \A p \in Position : balance'[p][ExchangeContract] = balance[p][ExchangeContract]
        /\ \A p \in Position : supply'[p] = supply[p] + (IF p \in Q THEN k ELSE 0)
        /\ feeRecipient # ExchangeContract =>
              usdc'[ExchangeContract] = usdc[ExchangeContract] + 0
        /\ feeRecipient # CtfContract => usdc'[CtfContract] = usdc[CtfContract] + k
    BY <1>1, <1>6, <2>3, <2>4, <2>5, SettledCommit
  <2>7. usdc[ExchangeContract] \in Nat
    BY Accounts DEF FundsInv, IInv, TypeOK
  <2>8. SetsSettled(c, left.outcome, right.outcome, leftFill)
    BY <1>4, <2>1, <2>6, <2>7 DEF SetsSettled, k
  <2> QED
    BY <1>3, <2>6, <2>8
<1> QED
  BY <1>7, <1>8

-----------------------------------------------------------------------------
(* The pool *)

LEMMA GiveTyped ==
    ASSUME NEW s, FundsTyped(s), NEW from \in Address, NEW to \in Address,
           NEW p \in Position, NEW n \in Nat, NEW t, t = Give(s, from, to, p, n)
    PROVE  /\ FundsTyped(t)
           /\ t.ok => /\ s.ok /\ t.supply = s.supply /\ t.usdc = s.usdc
                      /\ n <= s.balance[p][from]
                      /\ t.balance = [s.balance EXCEPT ![p] = Move(s.balance[p], from, to, n)]
<1>1. CASE t = Panic(s)
  <2>1. FundsTyped(t) /\ ~t.ok
    BY <1>1, PanicFunds
  <2> QED
    BY <2>1
<1>2. CASE t # Panic(s)
  <2>1. /\ (t.ok => s.ok) /\ FundsTyped(t) /\ n <= s.balance[p][from]
        /\ t.balance = [s.balance EXCEPT ![p] = Move(s.balance[p], from, to, n)]
        /\ t.supply = s.supply /\ t.usdc = s.usdc
    BY <1>2, GiveFunds
  <2> QED
    BY <2>1
<1> QED
  BY <1>1, <1>2

LEMMA TransferTyped ==
    ASSUME NEW s, FundsTyped(s), NEW from \in Address, NEW to \in Address,
           NEW n \in Nat, NEW t, t = Transfer(s, from, to, n)
    PROVE  /\ FundsTyped(t)
           /\ t.ok => /\ s.ok /\ t.supply = s.supply /\ t.balance = s.balance
                      /\ (from = to \/ n <= s.usdc[from])
                      /\ t.usdc = Move(s.usdc, from, to, n)
<1>1. CASE t = Panic(s)
  <2>1. FundsTyped(t) /\ ~t.ok
    BY <1>1, PanicFunds
  <2> QED
    BY <2>1
<1>2. CASE t # Panic(s)
  <2>1. /\ (t.ok => s.ok) /\ FundsTyped(t)
        /\ t.usdc = Move(s.usdc, from, to, n) /\ (from = to \/ n <= s.usdc[from])
        /\ t.balance = s.balance /\ t.supply = s.supply
    BY <1>2, TransferFunds
  <2> QED
    BY <2>1
<1> QED
  BY <1>1, <1>2

\* What the pool's handlers leave.
SetsAlone ==
    /\ supply' = supply /\ issued' = issued
    /\ usdc'[CtfContract] = usdc[CtfContract]

LEMMA FundsInventory ==
    ASSUME FundsInv, NEW c \in Condition, NEW i \in Slots(c), NEW a \in Traders, NEW n \in Nat,
           DepositInventory(a, c, i, n) \/ WithdrawInventory(c, i, n, a)
    PROVE  FundsInv' /\ SetsAlone /\ usdc' = usdc
<1>1. PICK from \in Traders \cup {ExchangeContract}, to \in Traders \cup {ExchangeContract} :
          /\ Commit(Give(Books, from, to, OutcomePosition(c, i), n))
          /\ UNCHANGED issued
  BY DEF DepositInventory, WithdrawInventory
<1>2. from \in Address /\ to \in Address /\ OutcomePosition(c, i) \in Position
  BY Accounts, OutcomePositionType
<1> DEFINE p == OutcomePosition(c, i)
           t == Give(Books, from, to, p, n)
<1>3. /\ FundsTyped(t)
      /\ t.ok => t.supply = Books.supply /\ t.usdc = Books.usdc
  <2>1. FundsTyped(Books) /\ p \in Position
    BY <1>2, BooksFunds
  <2> HIDE DEF p
  <2>2. /\ FundsTyped(t)
        /\ t.ok => /\ Books.ok /\ t.supply = Books.supply /\ t.usdc = Books.usdc
                   /\ n <= Books.balance[p][from]
                   /\ t.balance = [Books.balance EXCEPT
                                     ![p] = Move(Books.balance[p], from, to, n)]
    BY <1>2, <2>1, GiveTyped
  <2> QED
    BY <2>2
<1>4. Commit(t)
  BY <1>1
<1> HIDE DEF t
<1>5. FundsInv'
  BY <1>1, <1>3, <1>4, FundsCommit DEF FundsInv
<1>6. t.ok /\ usdc' = t.usdc /\ supply' = t.supply
  BY <1>4 DEF Commit
<1> QED
  BY <1>1, <1>3, <1>5, <1>6, BooksFunds DEF SetsAlone

LEMMA FundsCollateral ==
    ASSUME FundsInv, NEW a \in Traders, NEW n \in Nat,
           DepositCollateral(a, n) \/ WithdrawCollateral(n, a)
    PROVE  FundsInv' /\ SetsAlone /\ balance' = balance
<1>1. PICK from \in Traders \cup {ExchangeContract}, to \in Traders \cup {ExchangeContract} :
          /\ Commit(Transfer(Books, from, to, n))
          /\ UNCHANGED issued
  BY DEF DepositCollateral, WithdrawCollateral, Pay
<1>2. /\ from \in Address /\ to \in Address /\ from # CtfContract /\ to # CtfContract
      /\ CtfContract \in Address
  BY Accounts
<1> DEFINE t == Transfer(Books, from, to, n)
<1>3. /\ FundsTyped(t)
      /\ t.ok => /\ t.supply = Books.supply /\ t.balance = Books.balance
                 /\ (from = to \/ n <= Books.usdc[from])
                 /\ t.usdc = Move(Books.usdc, from, to, n)
  BY <1>2, BooksFunds, TransferTyped
<1>4. Commit(t)
  BY <1>1
<1> HIDE DEF t
<1>5. FundsInv'
  BY <1>1, <1>3, <1>4, FundsCommit DEF FundsInv
<1>6. t.ok /\ usdc' = t.usdc /\ supply' = t.supply /\ balance' = t.balance
  BY <1>4 DEF Commit
<1>7. usdc \in [Address -> Nat]
  BY DEF FundsInv, IInv, TypeOK
<1>8. (from = to \/ n <= usdc[from]) /\ usdc' = Move(usdc, from, to, n)
  BY <1>3, <1>6, BooksFunds
<1>9. usdc'[CtfContract] = usdc[CtfContract]
  BY <1>2, <1>7, <1>8 DEF Move, Credit, Debit
<1> QED
  BY <1>1, <1>3, <1>5, <1>6, <1>9, BooksFunds DEF SetsAlone

\* A trade with the pool, seen from the exchange.
Traded(p, collateral, tokens) ==
    /\ usdc'[ExchangeContract] = usdc[ExchangeContract] + collateral
    /\ balance'[p][ExchangeContract] = balance[p][ExchangeContract] + tokens
    /\ \A q \in Position : q # p =>
           balance'[q][ExchangeContract] = balance[q][ExchangeContract]

LEMMA FundsBuy ==
    ASSUME FundsInv, NEW c \in Condition, NEW i \in Slots(c), NEW a \in Traders, NEW n \in Nat,
           BuyOutcome(a, c, i, n),
           NEW p, p = OutcomePosition(c, i), NEW tokens, tokens = TokensFor(n, price[p])
    PROVE  /\ FundsInv' /\ SetsAlone /\ price[p] \in Nat \ {0} /\ tokens \in Nat
           /\ tokens <= balance[p][ExchangeContract]
           /\ Traded(p, n, 0 - tokens)
<1>1. p \in Position /\ p \in OutcomePositions
  BY OutcomePositionType
<1>2. /\ a \in Address /\ ExchangeContract \in Address /\ CtfContract \in Address
      /\ a # ExchangeContract /\ a # CtfContract /\ ExchangeContract # CtfContract
  BY Accounts
<1> DEFINE s == Transfer(Books, a, ExchangeContract, n)
           t == Give(s, ExchangeContract, a, p, tokens)
<1>3. price[p] # 0 /\ Commit(t) /\ UNCHANGED issued
  BY DEF BuyOutcome
<1>4. price[p] \in Nat \ {0}
  BY <1>1, <1>3 DEF FundsInv
<1>5. tokens \in Nat
  <2> DEFINE m == n * FullRate
  <2>1. m \in Nat
    BY OrdersAssumption
  <2> HIDE DEF m
  <2>2. m \div price[p] \in Nat
    BY <1>4, <2>1, DivisionBounds
  <2> QED
    BY <2>2 DEF TokensFor, m
<1>6. /\ FundsTyped(s)
      /\ s.ok => /\ s.supply = Books.supply /\ s.balance = Books.balance
                 /\ (a = ExchangeContract \/ n <= Books.usdc[a])
                 /\ s.usdc = Move(Books.usdc, a, ExchangeContract, n)
  BY <1>2, BooksFunds, TransferTyped
<1> HIDE DEF s
<1>7. /\ FundsTyped(t)
      /\ t.ok => /\ s.ok /\ t.supply = s.supply /\ t.usdc = s.usdc
                 /\ tokens <= s.balance[p][ExchangeContract]
                 /\ t.balance = [s.balance EXCEPT
                                   ![p] = Move(s.balance[p], ExchangeContract, a, tokens)]
  BY <1>1, <1>2, <1>5, <1>6, GiveTyped
<1> HIDE DEF t
<1>8. FundsInv'
  BY <1>3, <1>7, FundsCommit DEF FundsInv
<1>9. t.ok /\ usdc' = t.usdc /\ supply' = t.supply /\ balance' = t.balance
  BY <1>3 DEF Commit
<1>10. /\ supply' = supply /\ n <= usdc[a] /\ usdc' = Move(usdc, a, ExchangeContract, n)
       /\ tokens <= balance[p][ExchangeContract]
       /\ balance' = [balance EXCEPT ![p] = Move(balance[p], ExchangeContract, a, tokens)]
  BY <1>2, <1>6, <1>7, <1>9, BooksFunds
<1>11. usdc \in [Address -> Nat] /\ balance \in [Position -> [Address -> Nat]]
  BY DEF FundsInv, IInv, TypeOK
<1>12. /\ usdc'[CtfContract] = usdc[CtfContract]
       /\ usdc'[ExchangeContract] = usdc[ExchangeContract] + n
  BY <1>2, <1>10, <1>11 DEF Move, Credit, Debit
<1>13. balance'[p][ExchangeContract] = balance[p][ExchangeContract] + (0 - tokens)
  <2> DEFINE f == balance[p]
  <2>1. f \in [Address -> Nat] /\ tokens <= f[ExchangeContract]
    BY <1>1, <1>10, <1>11
  <2>2. balance'[p] = Move(f, ExchangeContract, a, tokens)
    BY <1>1, <1>10, <1>11
  <2> HIDE DEF f
  <2>3. Move(f, ExchangeContract, a, tokens)[ExchangeContract] = f[ExchangeContract] + (0 - tokens)
    BY <1>2, <1>5, <2>1 DEF Move, Credit, Debit
  <2> QED
    BY <2>2, <2>3 DEF f
<1>14. \A q \in Position : q # p =>
           balance'[q][ExchangeContract] = balance[q][ExchangeContract]
  BY <1>10, <1>11
<1> QED
  BY <1>3, <1>4, <1>5, <1>8, <1>10, <1>12, <1>13, <1>14 DEF SetsAlone, Traded

LEMMA FundsSell ==
    ASSUME FundsInv, NEW c \in Condition, NEW i \in Slots(c), NEW a \in Traders, NEW n \in Nat,
           SellOutcome(a, c, i, n),
           NEW p, p = OutcomePosition(c, i), NEW due, due = UsdcFor(n, price[p])
    PROVE  /\ FundsInv' /\ SetsAlone /\ price[p] \in Nat \ {0} /\ due \in Nat
           /\ due <= usdc[ExchangeContract]
           /\ Traded(p, 0 - due, n)
<1>1. p \in Position /\ p \in OutcomePositions
  BY OutcomePositionType
<1>2. /\ a \in Address /\ ExchangeContract \in Address /\ CtfContract \in Address
      /\ a # ExchangeContract /\ a # CtfContract /\ ExchangeContract # CtfContract
  BY Accounts
<1> DEFINE s == Give(Books, a, ExchangeContract, p, n)
           t == Transfer(s, ExchangeContract, a, due)
<1>3. price[p] # 0 /\ Commit(t) /\ UNCHANGED issued
  BY DEF SellOutcome, Pay
<1>4. price[p] \in Nat \ {0}
  BY <1>1, <1>3 DEF FundsInv
<1>5. due \in Nat
  <2> DEFINE m == n * price[p]
  <2>1. m \in Nat
    BY <1>4
  <2> HIDE DEF m
  <2>2. m \div FullRate \in Nat
    BY OrdersAssumption, <2>1, DivisionBounds
  <2> QED
    BY <2>2 DEF UsdcFor, m
<1>6. /\ FundsTyped(s)
      /\ s.ok => /\ s.supply = Books.supply /\ s.usdc = Books.usdc
                 /\ n <= Books.balance[p][a]
                 /\ s.balance = [Books.balance EXCEPT
                                   ![p] = Move(Books.balance[p], a, ExchangeContract, n)]
  BY <1>1, <1>2, BooksFunds, GiveTyped
<1> HIDE DEF s
<1>7. /\ FundsTyped(t)
      /\ t.ok => /\ s.ok /\ t.supply = s.supply /\ t.balance = s.balance
                 /\ (ExchangeContract = a \/ due <= s.usdc[ExchangeContract])
                 /\ t.usdc = Move(s.usdc, ExchangeContract, a, due)
  BY <1>2, <1>5, <1>6, TransferTyped
<1> HIDE DEF t
<1>8. FundsInv'
  BY <1>3, <1>7, FundsCommit DEF FundsInv
<1>9. t.ok /\ usdc' = t.usdc /\ supply' = t.supply /\ balance' = t.balance
  BY <1>3 DEF Commit
<1>10. /\ supply' = supply /\ due <= usdc[ExchangeContract]
       /\ usdc' = Move(usdc, ExchangeContract, a, due)
       /\ n <= balance[p][a]
       /\ balance' = [balance EXCEPT ![p] = Move(balance[p], a, ExchangeContract, n)]
  BY <1>2, <1>6, <1>7, <1>9, BooksFunds
<1>11. usdc \in [Address -> Nat] /\ balance \in [Position -> [Address -> Nat]]
  BY DEF FundsInv, IInv, TypeOK
<1>12. /\ usdc'[CtfContract] = usdc[CtfContract]
       /\ usdc'[ExchangeContract] = usdc[ExchangeContract] + (0 - due)
  BY <1>2, <1>5, <1>10, <1>11 DEF Move, Credit, Debit
<1>13. balance'[p][ExchangeContract] = balance[p][ExchangeContract] + n
  <2> DEFINE f == balance[p]
  <2>1. f \in [Address -> Nat] /\ n <= f[a]
    BY <1>1, <1>10, <1>11
  <2>2. balance'[p] = Move(f, a, ExchangeContract, n)
    BY <1>1, <1>10, <1>11
  <2> HIDE DEF f
  <2>3. Move(f, a, ExchangeContract, n)[ExchangeContract] = f[ExchangeContract] + n
    BY <1>2, <2>1 DEF Move, Credit, Debit
  <2> QED
    BY <2>2, <2>3 DEF f
<1>14. \A q \in Position : q # p =>
           balance'[q][ExchangeContract] = balance[q][ExchangeContract]
  BY <1>10, <1>11
<1> QED
  BY <1>3, <1>4, <1>5, <1>8, <1>10, <1>12, <1>13, <1>14 DEF SetsAlone, Traded

\* The handlers of the pool.
LEMMA FundsPool ==
    ASSUME FundsInv, PoolNext
    PROVE  FundsInv' /\ SetsAlone
<1>1. \A n \in Fills : n \in Nat
  BY DEF Fills
<1>2. ASSUME NEW c \in Condition, NEW i \in Slots(c), NEW x \in Prices, SetPrice(c, i, x)
      PROVE  FundsInv' /\ SetsAlone
  <2> DEFINE p == OutcomePosition(c, i)
  <2>1. /\ UNCHANGED vars /\ UNCHANGED <<feeRecipient, issued, open, allowance>>
        /\ price' = [price EXCEPT ![p] = x] /\ x \in Nat
    BY <1>2, ExchangeAssumption DEF SetPrice, exAdminVars, orderVars, marketVars
  <2>2. p \in OutcomePositions
    BY OutcomePositionType
  <2>3. UNCHANGED <<conditionVars, accessVars>> /\ UNCHANGED <<balance, supply, usdc>>
    BY <2>1 DEF vars, ledgerVars
  <2>4. Balanced(balance', supply') /\ usdc' \in [Address -> Nat]
    BY <2>3, IInvBalanced DEF FundsInv, IInv, TypeOK
  <2>5. IInv'
    BY <2>3, <2>4, LedgerStep DEF FundsInv
  <2> HIDE DEF p
  <2> QED
    BY <2>1, <2>2, <2>3, <2>5 DEF FundsInv, SetsAlone
<1>3. ASSUME NEW c \in Condition, NEW i \in Slots(c), NEW a \in Traders, NEW n \in Fills,
             DepositInventory(a, c, i, n) \/ WithdrawInventory(c, i, n, a)
      PROVE  FundsInv' /\ SetsAlone
  BY <1>1, <1>3, FundsInventory
<1>4. ASSUME NEW a \in Traders, NEW n \in Fills, DepositCollateral(a, n) \/ WithdrawCollateral(n, a)
      PROVE  FundsInv' /\ SetsAlone
  BY <1>1, <1>4, FundsCollateral
<1>5. ASSUME NEW c \in Condition, NEW i \in Slots(c), NEW a \in Traders, NEW n \in Fills,
             BuyOutcome(a, c, i, n)
      PROVE  FundsInv' /\ SetsAlone
  BY <1>1, <1>5, FundsBuy
<1>6. ASSUME NEW c \in Condition, NEW i \in Slots(c), NEW a \in Traders, NEW n \in Fills,
             SellOutcome(a, c, i, n)
      PROVE  FundsInv' /\ SetsAlone
  BY <1>1, <1>6, FundsSell
<1> QED
  BY <1>2, <1>3, <1>4, <1>5, <1>6 DEF PoolNext

-----------------------------------------------------------------------------
(* The CTF contract's own handlers *)

\* What is minted, burned and cleared for one holder is not another's.
LEMMA OthersMinted ==
    ASSUME NEW b \in [Position -> [Address -> Nat]], NEW P, NEW a \in Address, NEW x \in Address,
           a # x, NEW n \in Nat, NEW p \in Position
    PROVE  Minted(b, P, a, n)[p][x] = b[p][x]
<1> DEFINE f == b[p]
<1>1. f \in [Address -> Nat]
  OBVIOUS
<1>2. Minted(b, P, a, n)[p] = IF p \in P THEN Credit(f, a, n) ELSE f
  BY DEF Minted
<1> HIDE DEF f
<1>3. Credit(f, a, n)[x] = f[x]
  BY <1>1 DEF Credit
<1> QED
  BY <1>2, <1>3 DEF f

LEMMA OthersBurned ==
    ASSUME NEW b \in [Position -> [Address -> Nat]], NEW P, NEW a \in Address, NEW x \in Address,
           a # x, NEW n \in Nat, NEW p \in Position
    PROVE  Burned(b, P, a, n)[p][x] = b[p][x]
<1> DEFINE f == b[p]
<1>1. f \in [Address -> Nat]
  OBVIOUS
<1>2. Burned(b, P, a, n)[p] = IF p \in P THEN Debit(f, a, n) ELSE f
  BY DEF Burned
<1> HIDE DEF f
<1>3. Debit(f, a, n)[x] = f[x]
  BY <1>1 DEF Debit
<1> QED
  BY <1>2, <1>3 DEF f

LEMMA OthersCleared ==
    ASSUME NEW b \in [Position -> [Address -> Nat]], NEW P, NEW a \in Address, NEW x \in Address,
           a # x, NEW p \in Position
    PROVE  Cleared(b, P, a)[p][x] = b[p][x]
<1> DEFINE f == b[p]
<1>1. f \in [Address -> Nat]
  OBVIOUS
<1>2. Cleared(b, P, a)[p] = IF p \in P THEN [f EXCEPT ![a] = 0] ELSE f
  BY DEF Cleared
<1> HIDE DEF f
<1>3. [f EXCEPT ![a] = 0][x] = f[x]
  BY <1>1
<1> QED
  BY <1>2, <1>3 DEF f

\* The exchange's account is not touched.
ExchangeAlone ==
    /\ usdc'[ExchangeContract] = usdc[ExchangeContract]
    /\ \A p \in Position : balance'[p][ExchangeContract] = balance[p][ExchangeContract]

Singletons(c) == {{i} : i \in Slots(c)}

LEMMA OutcomeChildren ==
    ASSUME NEW c \in Condition, NEW d \in Condition, NEW i \in Slots(d)
    PROVE  OutcomePosition(d, i) \in Children(Root, c, Singletons(c)) <=> d = c
<1> DEFINE p == OutcomePosition(d, i)
           P == Children(Root, c, Singletons(c))
<1>1. p \in P <=> \E j \in Slots(c) : p = OutcomePosition(c, j)
  BY DEF Children, Singletons, OutcomePosition
<1>2. \A j \in Slots(c) : p = OutcomePosition(c, j) => d = c
  BY OutcomePositionsDiffer
<1>3. d = c => p = OutcomePosition(c, i) /\ i \in Slots(c)
  OBVIOUS
<1> QED
  BY <1>1, <1>2, <1>3

\* All the outcomes of one condition gain n tokens.
Raised(u, v, c, n) ==
    \A d \in Condition : \A i \in Slots(d) :
        v[OutcomePosition(d, i)] = u[OutcomePosition(d, i)] + (IF d = c THEN n ELSE 0)

LEMMA FundsSplit ==
    ASSUME FundsInv, NEW user \in Traders, NEW c \in Condition, NEW n \in Nat,
           SplitPosition(user, Root, c, Singletons(c), n)
    PROVE  /\ IInv' /\ ExchangeAlone /\ Raised(supply, supply', c, n)
           /\ usdc'[CtfContract] = usdc[CtfContract] + n
<1> DEFINE P == Children(Root, c, Singletons(c))
<1>1. /\ user \in Address /\ ExchangeContract \in Address /\ CtfContract \in Address
      /\ user # ExchangeContract /\ user # CtfContract /\ ExchangeContract # CtfContract
  BY Accounts
<1>2. /\ usdc' = Move(usdc, user, CtfContract, n)
      /\ balance' = Minted(Burned(balance, {}, user, n), P, user, n)
      /\ supply' = SupplyUp(SupplyDown(supply, {}, n), P, n)
  BY DEF SplitPosition
<1>3. /\ usdc \in [Address -> Nat] /\ balance \in [Position -> [Address -> Nat]]
      /\ supply \in [Position -> Nat]
  BY DEF FundsInv, IInv, TypeOK
<1>4. IInv'
  BY <1>1, SplitStep, CtfAssumption DEF FundsInv
<1>5. Burned(balance, {}, user, n) = balance /\ SupplyDown(supply, {}, n) = supply
  BY <1>3 DEF Burned, SupplyDown
<1>6. /\ usdc'[ExchangeContract] = usdc[ExchangeContract]
      /\ usdc'[CtfContract] = usdc[CtfContract] + n
  BY <1>1, <1>2, <1>3 DEF Move, Credit, Debit
<1>7. \A p \in Position : balance'[p][ExchangeContract] = balance[p][ExchangeContract]
  <2> HIDE DEF P
  <2>1. balance' = Minted(balance, P, user, n)
    BY <1>2, <1>5
  <2> QED
    BY <1>1, <1>3, <2>1, OthersMinted
<1>8. Raised(supply, supply', c, n)
  <2> SUFFICES ASSUME NEW d \in Condition, NEW i \in Slots(d)
               PROVE  supply'[OutcomePosition(d, i)] =
                          supply[OutcomePosition(d, i)] + (IF d = c THEN n ELSE 0)
    BY DEF Raised
  <2> DEFINE p == OutcomePosition(d, i)
  <2>1. p \in Position /\ (p \in P <=> d = c)
    BY OutcomePositionType, OutcomeChildren
  <2> HIDE DEF p, P
  <2>2. supply' = SupplyUp(supply, P, n)
    BY <1>2, <1>5
  <2>3. supply'[p] = supply[p] + (IF d = c THEN n ELSE 0)
    BY <1>3, <2>1, <2>2 DEF SupplyUp
  <2> QED
    BY <2>3 DEF p
<1> QED
  BY <1>4, <1>6, <1>7, <1>8 DEF ExchangeAlone

LEMMA FundsMerge ==
    ASSUME FundsInv, NEW user \in Traders, NEW c \in Condition, NEW n \in Nat,
           MergePositions(user, Root, c, Singletons(c), n)
    PROVE  /\ IInv' /\ ExchangeAlone /\ Raised(supply', supply, c, n)
           /\ usdc[CtfContract] = usdc'[CtfContract] + n
<1> DEFINE P == Children(Root, c, Singletons(c))
<1>1. /\ user \in Address /\ ExchangeContract \in Address /\ CtfContract \in Address
      /\ user # ExchangeContract /\ user # CtfContract /\ ExchangeContract # CtfContract
  BY Accounts
<1>2. /\ usdc' = Move(usdc, CtfContract, user, n)
      /\ balance' = Minted(Burned(balance, P, user, n), {}, user, n)
      /\ supply' = SupplyUp(SupplyDown(supply, P, n), {}, n)
      /\ usdc[CtfContract] >= n
      /\ MergeInternal(user, user, Root, c, Singletons(c), n)
  BY DEF MergePositions, MergeInternal
<1>3. /\ usdc \in [Address -> Nat] /\ balance \in [Position -> [Address -> Nat]]
      /\ supply \in [Position -> Nat]
  BY DEF FundsInv, IInv, TypeOK
<1>4. IInv'
  BY <1>1, <1>2, MergeStep, CtfAssumption DEF FundsInv
<1>5. balance' = Burned(balance, P, user, n) /\ supply' = SupplyDown(supply, P, n)
  BY <1>2 DEF Minted, SupplyUp, Burned, SupplyDown
<1>6. /\ usdc'[ExchangeContract] = usdc[ExchangeContract]
      /\ usdc[CtfContract] = usdc'[CtfContract] + n
  BY <1>1, <1>2, <1>3 DEF Move, Credit, Debit
<1>7. \A p \in Position : balance'[p][ExchangeContract] = balance[p][ExchangeContract]
  <2> HIDE DEF P
  <2>1. balance' = Burned(balance, P, user, n)
    BY <1>5
  <2> QED
    BY <1>1, <1>3, <2>1, OthersBurned
<1>8. Raised(supply', supply, c, n)
  <2> SUFFICES ASSUME NEW d \in Condition, NEW i \in Slots(d)
               PROVE  supply[OutcomePosition(d, i)] =
                          supply'[OutcomePosition(d, i)] + (IF d = c THEN n ELSE 0)
    BY DEF Raised
  <2> DEFINE p == OutcomePosition(d, i)
  <2>1. p \in Position /\ (p \in P <=> d = c)
    BY OutcomePositionType, OutcomeChildren
  <2> HIDE DEF P
  <2>2. supply[p] = supply'[p] + (IF d = c THEN n ELSE 0)
    <3> DEFINE s2 == SupplyDown(supply, P, n)
    <3>1. supply[p] = s2[p] + (IF d = c THEN n ELSE 0)
      <4> HIDE DEF p
      <4> QED
        BY <1>3, <2>1 DEF SupplyDown
    <3> QED
      BY <1>5, <3>1
  <2> QED
    BY <2>2
<1> QED
  BY <1>4, <1>6, <1>7, <1>8 DEF ExchangeAlone

LEMMA FundsRedeem ==
    ASSUME FundsInv, NEW user \in Traders, NEW c \in Condition, NEW i \in Slots(c),
           RedeemPositions(user, Root, c, {{i}})
    PROVE  /\ IInv' /\ ExchangeAlone /\ Resolved(c)
           /\ \A d \in Condition : d # c => \A j \in Slots(d) :
                  supply'[OutcomePosition(d, j)] = supply[OutcomePosition(d, j)]
<1> DEFINE paid   == {S \in {{i}} : Numerator(c, S) # 0}
           P      == Children(Root, c, paid)
           payout == TotalOf([S \in paid |-> Payout(user, Root, c, S)])
<1>1. /\ user \in Address /\ ExchangeContract \in Address /\ CtfContract \in Address
      /\ user # ExchangeContract /\ user # CtfContract /\ ExchangeContract # CtfContract
  BY Accounts
<1>2. /\ Resolved(c) /\ usdc[CtfContract] >= payout
      /\ usdc' = Move(usdc, CtfContract, user, payout)
      /\ balance' = Minted(Cleared(balance, P, user), {}, user, payout)
      /\ supply' = SupplyUp(SupplyCleared(supply, balance, P, user), {}, payout)
  BY DEF RedeemPositions
<1>3. /\ usdc \in [Address -> Nat] /\ balance \in [Position -> [Address -> Nat]]
      /\ supply \in [Position -> Nat]
  BY DEF FundsInv, IInv, TypeOK
<1>4. Root \in Parents /\ {{i}} \in SUBSET (SUBSET Slots(c))
  BY RootIsParent
<1>5. IInv'
  BY <1>1, <1>4, RedeemStep, CtfAssumption, ConditionAssumption DEF FundsInv
<1>6. payout \in Nat
  <2>1. IInv /\ paid \in SUBSET (SUBSET Slots(c)) /\ \A S \in paid : S # {}
    BY <1>4 DEF FundsInv
  <2>2. Resolved(c) /\ user \in Address /\ Root \in Parents
    BY <1>1, <1>2, <1>4
  <2>3. \A sets \in SUBSET (SUBSET Slots(c)) : (\A S \in sets : S # {}) =>
            TotalOf([S \in sets |-> Payout(user, Root, c, S)]) \in Nat
    <3>1. ConditionAssumption /\ CtfAssumption
      BY ConditionAssumption, CtfAssumption
    <3> QED
      BY <2>1, <2>2, <3>1, PayoutType, SMTT(30)
  <2> HIDE DEF paid
  <2> QED
    BY <2>1, <2>3
<1> HIDE DEF payout
<1>7. /\ balance' = Cleared(balance, P, user) /\ supply' = SupplyCleared(supply, balance, P, user)
  <2> HIDE DEF P
  <2> QED
    BY <1>2 DEF Minted, SupplyUp, Cleared, SupplyCleared
<1>8. usdc'[ExchangeContract] = usdc[ExchangeContract]
  BY <1>1, <1>2, <1>3, <1>6 DEF Move, Credit, Debit
<1>9. \A p \in Position : balance'[p][ExchangeContract] = balance[p][ExchangeContract]
  <2> HIDE DEF P
  <2> QED
    BY <1>1, <1>3, <1>7, OthersCleared
<1>10. ASSUME NEW d \in Condition, d # c, NEW j \in Slots(d)
       PROVE  supply'[OutcomePosition(d, j)] = supply[OutcomePosition(d, j)]
  <2> DEFINE p == OutcomePosition(d, j)
  <2>1. p \in Position
    BY OutcomePositionType
  <2>2. p \notin P
    <3>1. P \subseteq {OutcomePosition(c, i)}
      BY DEF Children, OutcomePosition
    <3> QED
      BY <1>10, <3>1, OutcomePositionsDiffer
  <2> HIDE DEF p, P
  <2>3. supply'[p] = supply[p]
    BY <1>7, <2>1, <2>2 DEF SupplyCleared
  <2> QED
    BY <2>3 DEF p
<1> QED
  BY <1>2, <1>5, <1>8, <1>9, <1>10 DEF ExchangeAlone

LEMMA ExchangeVarsKept ==
    ASSUME FundsInv, UNCHANGED <<allowance, feeRecipient, open, price, issued>>, IInv'
    PROVE  FundsInv'
BY DEF FundsInv

LEMMA LedgerKept ==
    ASSUME FundsInv, UNCHANGED vars
    PROVE  IInv' /\ ExchangeAlone
<1>1. UNCHANGED <<conditionVars, accessVars>> /\ UNCHANGED <<balance, supply, usdc>>
  BY DEF vars, ledgerVars
<1>2. Balanced(balance', supply') /\ usdc' \in [Address -> Nat]
  BY <1>1, IInvBalanced DEF FundsInv, IInv, TypeOK
<1>3. IInv'
  BY <1>1, <1>2, LedgerStep DEF FundsInv
<1> QED
  BY <1>1, <1>3 DEF ExchangeAlone

\* Reports and administration leave the ledger alone.
LEMMA FundsReport ==
    ASSUME FundsInv, NEW c \in Condition,
           (\E v \in Payouts : ReportPayoutsByCondition(c, v)) \/ Administer
    PROVE  IInv' /\ ExchangeAlone /\ UNCHANGED <<supply, usdc>>
           /\ (\A d \in Condition : Resolved(d) => Resolved(d)')
<1>1. CASE \E v \in Payouts : ReportPayoutsByCondition(c, v)
  <2>1. PICK v \in Payouts : ReportPayoutsByCondition(c, v)
    BY <1>1
  <2>2. ConditionNext
    BY <2>1 DEF ConditionNext
  <2>3. IInv'
    BY <2>2, ConditionStep, ConditionAssumption DEF FundsInv
  <2>4. /\ UNCHANGED <<balance, supply, usdc>> /\ ~Resolved(c)
        /\ denominator' = [denominator EXCEPT ![c] = TotalOf(v)]
    BY <2>1 DEF ReportPayoutsByCondition, ApplyPayouts, ledgerVars
  <2>5. \A d \in Condition : Resolved(d) => Resolved(d)'
    <3>1. denominator \in [Condition -> Nat]
      BY DEF FundsInv, IInv, TypeOK, ConditionTypeOK
    <3>2. \A d \in Condition : d # c => denominator'[d] = denominator[d]
      BY <2>4, <3>1
    <3> QED
      BY <2>4, <3>2 DEF Resolved
  <2> QED
    BY <2>3, <2>4, <2>5 DEF ExchangeAlone
<1>2. CASE Administer
  <2>1. AccessNext
    BY <1>2 DEF AccessNext
  <2>2. IInv'
    BY <2>1, AccessStep, CtfAssumption DEF FundsInv
  <2>3. UNCHANGED <<balance, supply, usdc, denominator>>
    BY <1>2 DEF Administer, ledgerVars, conditionVars
  <2> QED
    BY <2>2, <2>3 DEF ExchangeAlone, Resolved
<1> QED
  BY <1>1, <1>2

\* What a step of the CTF contract is.
LEMMA CtfCases ==
    ASSUME CtfStep
    PROVE  /\ UNCHANGED <<allowance, feeRecipient, open, price, issued>>
           /\ \E c \in Condition :
                \/ \E user \in Traders, n \in Amounts :
                     \/ SplitPosition(user, Root, c, Singletons(c), n)
                     \/ MergePositions(user, Root, c, Singletons(c), n)
                \/ \E user \in Traders, i \in Slots(c) : RedeemPositions(user, Root, c, {{i}})
                \/ (\E v \in Payouts : ReportPayoutsByCondition(c, v)) \/ Administer
<1>1. UNCHANGED <<allowance, feeRecipient, open, price, issued>>
  BY DEF CtfStep, exchangeVars, exAdminVars, orderVars, marketVars
<1>2. PICK c \in Condition :
        \/ \E user \in Traders, n \in Amounts :
            \E partition \in {{{i} : i \in Slots(c)}} :
                \/ SplitPosition(user, Root, c, partition, n)
                \/ MergePositions(user, Root, c, partition, n)
        \/ \E user \in Traders, i \in Slots(c) : RedeemPositions(user, Root, c, {{i}})
        \/ \E v \in Payouts : ReportPayoutsByCondition(c, v)
        \/ "pause" \in Exercised /\ Administer
  BY DEF CtfStep
<1>3. \A partition \in {{{i} : i \in Slots(c)}} : partition = Singletons(c)
  BY DEF Singletons
<1> QED
  BY <1>1, <1>2, <1>3

LEMMA FundsCtf ==
    ASSUME FundsInv, CtfStep
    PROVE  FundsInv' /\ ExchangeAlone
<1>1. \A n \in Amounts : n \in Nat
  BY DEF Amounts
<1>2. PICK c \in Condition :
        \/ \E user \in Traders, n \in Amounts :
             \/ SplitPosition(user, Root, c, Singletons(c), n)
             \/ MergePositions(user, Root, c, Singletons(c), n)
        \/ \E user \in Traders, i \in Slots(c) : RedeemPositions(user, Root, c, {{i}})
        \/ (\E v \in Payouts : ReportPayoutsByCondition(c, v)) \/ Administer
  BY CtfCases
<1>3. ASSUME NEW user \in Traders, NEW n \in Amounts,
             SplitPosition(user, Root, c, Singletons(c), n)
      PROVE  IInv' /\ ExchangeAlone
  BY <1>1, <1>3, FundsSplit
<1>4. ASSUME NEW user \in Traders, NEW n \in Amounts,
             MergePositions(user, Root, c, Singletons(c), n)
      PROVE  IInv' /\ ExchangeAlone
  BY <1>1, <1>4, FundsMerge
<1>5. ASSUME NEW user \in Traders, NEW i \in Slots(c), RedeemPositions(user, Root, c, {{i}})
      PROVE  IInv' /\ ExchangeAlone
  BY <1>5, FundsRedeem
<1>6. ASSUME (\E v \in Payouts : ReportPayoutsByCondition(c, v)) \/ Administer
      PROVE  IInv' /\ ExchangeAlone
  BY <1>6, FundsReport
<1>7. IInv' /\ ExchangeAlone
  BY <1>2, <1>3, <1>4, <1>5, <1>6
<1> QED
  BY <1>7, CtfCases, ExchangeVarsKept

\* Orders, seen from the funds: a settlement between traders, or complete sets.
LEMMA FundsOrders ==
    ASSUME ExInv, FundsInv, OrderNext
    PROVE  /\ FundsInv'
           /\ \/ PoolAlone /\ UNCHANGED issued
              \/ \E left, right \in Order, n \in Nat :
                    /\ Complements(left, right)
                    /\ SetsSettled(left.condition, left.outcome, right.outcome, n)
<1> DEFINE Result ==
      /\ FundsInv'
      /\ \/ PoolAlone /\ UNCHANGED issued
         \/ \E left, right \in Order, n \in Nat :
               /\ Complements(left, right)
               /\ SetsSettled(left.condition, left.outcome, right.outcome, n)
<1>1. \A n \in Fills : n \in Nat
  BY DEF Fills
<1>2. ASSUME NEW o \in Order, NEW fill \in Fills, FillOrder(o, fill)
      PROVE  Result
  BY <1>1, <1>2, FundsFill
<1>3. ASSUME NEW taker \in Order, NEW k \in 1..MaxMakers, NEW takerFill \in Fills,
             NEW makers \in [1..k -> {o \in Order : LimitMatch(taker, o)}],
             NEW fills \in [1..k -> Fills],
             MatchOrders(taker, makers, fills, takerFill)
      PROVE  Result
  <2>1. /\ k \in Nat \ {0} /\ makers \in [1..k -> Order] /\ fills \in [1..k -> Nat]
        /\ takerFill \in Nat
    BY <1>1, ExchangeAssumption
  <2> QED
    BY <1>3, <2>1, FundsMatch
<1>4. ASSUME NEW left \in Order, NEW right \in Order, NEW leftFill \in Fills,
             NEW rightFill \in Fills,
             MatchComplementaryOrders(left, leftFill, right, rightFill)
      PROVE  Result
  BY <1>1, <1>4, FundsComplementary
<1>5. ASSUME NEW key \in Keys, CancelOrderByNonce(key)
      PROVE  Result
  <2>1. UNCHANGED vars /\ UNCHANGED <<allowance, feeRecipient, open, price, issued>>
    BY <1>5 DEF CancelOrderByNonce, exAdminVars, marketVars
  <2>2. FundsInv'
    BY <2>1, LedgerKept, ExchangeVarsKept
  <2>3. PoolAlone
    BY <2>1 DEF PoolAlone, vars, ledgerVars
  <2> QED
    BY <2>1, <2>2, <2>3
<1> QED
  BY <1>2, <1>3, <1>4, <1>5 DEF OrderNext

\* Steps that leave the ledger and the issued sets alone.
LEMMA FundsOther ==
    ASSUME FundsInv, ExAdminNext \/ (SurroundingsNext /\ ~CtfStep) \/ UNCHANGED exVars
    PROVE  FundsInv' /\ UNCHANGED <<vars, issued>>
<1>1. /\ UNCHANGED <<vars, issued, price>>
      /\ allowance' \in [Address -> Nat] /\ feeRecipient' \in FeeRecipients
      /\ open' \subseteq Condition
  <2>1. CASE ExAdminNext
    BY <2>1 DEF ExAdminNext, ExAdminister, SetFeeRecipient, SetTradeLimits, orderVars,
                marketVars, FundsInv
  <2>2. CASE SurroundingsNext /\ ~CtfStep
    <3>1. ASSUME NEW a \in Traders, NEW n \in Allowances, Approve(a, n)
          PROVE  /\ UNCHANGED <<vars, issued, price, feeRecipient, open>>
                 /\ allowance' \in [Address -> Nat]
      <4>1. n \in Nat
        BY ExchangeAssumption
      <4> QED
        BY <3>1, <4>1 DEF Approve, FundsInv, exAdminVars, orderVars, marketVars
    <3>2. ASSUME NEW c \in Condition, NEW flag \in BOOLEAN, SetOpen(c, flag)
          PROVE  /\ UNCHANGED <<vars, issued, price, feeRecipient, allowance>>
                 /\ open' \subseteq Condition
      BY <3>2 DEF SetOpen, FundsInv, exAdminVars, orderVars
    <3>3. ASSUME Tick
          PROVE  UNCHANGED <<vars, issued, price, feeRecipient, open, allowance>>
      BY <3>3 DEF Tick, exAdminVars, orderVars
    <3> QED
      BY <2>2, <3>1, <3>2, <3>3 DEF SurroundingsNext, FundsInv
  <2>3. CASE UNCHANGED exVars
    BY <2>3 DEF exVars, exchangeVars, exAdminVars, orderVars, marketVars, FundsInv
  <2> QED
    BY <2>1, <2>2, <2>3
<1>2. IInv'
  BY <1>1, LedgerKept
<1>3. price' \in [OutcomePositions -> Nat] /\ issued' \in [Condition -> Nat]
  BY <1>1 DEF FundsInv
<1> QED
  BY <1>1, <1>2, <1>3 DEF FundsInv

LEMMA FundsStep == ASSUME ExInv, FundsInv, [ExNext]_exVars PROVE FundsInv'
<1>1. CASE OrderNext
  BY <1>1, FundsOrders
<1>2. CASE PoolNext
  BY <1>2, FundsPool
<1>3. CASE CtfStep
  BY <1>3, FundsCtf
<1>4. CASE ExAdminNext \/ (SurroundingsNext /\ ~CtfStep) \/ UNCHANGED exVars
  BY <1>4, FundsOther
<1> QED
  BY <1>1, <1>2, <1>3, <1>4 DEF ExNext, SurroundingsNext

LEMMA FundsStart == ExInit => FundsInv
<1> SUFFICES ASSUME ExInit PROVE FundsInv
  OBVIOUS
<1> DEFINE zero == [a \in Address |-> 0]
           sets == TotalOf(SetsHeld)
           size == Cardinality(Condition)
<1>1. /\ IsFiniteSet(Address) /\ CtfContract \in Address /\ Admins \subseteq Address
      /\ Funding \in [Address -> Nat]
      /\ ExchangeContract \in Address /\ MarketContract \in Address
      /\ SetsHeld \in [Address -> Nat] /\ AllowanceHeld \in [Address -> Nat]
      /\ \A a \in Address : size * SetsHeld[a] <= Funding[a]
      /\ Allowances \subseteq Nat /\ IsFiniteSet(Condition)
  BY CtfAssumption, ExchangeAssumption DEF CtfAssumption
<1>2. sets \in Nat /\ size \in Nat
  BY <1>1, TotalType, FS_CardinalityType
<1>3. balance \in [Position -> [Address -> Nat]]
  <2>1. balance = [p \in Position |-> IF p \in OutcomePositions THEN SetsHeld ELSE zero]
    BY DEF ExInit
  <2> QED
    BY <1>1, <2>1
<1>4. /\ supply \in [Position -> Nat] /\ SupplyIsSumOfBalances
  <2>1. supply = [p \in Position |-> TotalOf(balance[p])]
    BY DEF ExInit
  <2>2. \A p \in Position : TotalOf(balance[p]) \in Nat
    BY <1>1, <1>3, TotalType
  <2> QED
    BY <2>1, <2>2 DEF SupplyIsSumOfBalances
<1>5. usdc \in [Address -> Nat]
  <2>1. usdc = [a \in Address |-> IF a = CtfContract
                                  THEN Funding[a] + size * sets
                                  ELSE Funding[a] - size * SetsHeld[a]]
    BY DEF ExInit
  <2>2. size * sets \in Nat
    BY <1>2
  <2>3. ASSUME NEW a \in Address
        PROVE  Funding[a] \in Nat /\ Funding[a] - size * SetsHeld[a] \in Nat
    <3> DEFINE x == size * SetsHeld[a]
    <3>1. Funding[a] \in Nat /\ x \in Nat /\ x <= Funding[a]
      BY <1>1, <1>2
    <3> HIDE DEF x
    <3>2. Funding[a] - x \in Nat
      BY <3>1
    <3> QED
      BY <3>1, <3>2 DEF x
  <2> HIDE DEF sets, size
  <2> QED
    BY <2>1, <2>2, <2>3
<1>6. ConditionTypeOK /\ PayoutsMatchSlots
  <2>1. /\ prepared = Condition /\ numerators = [c \in Condition |-> << >>]
        /\ denominator = [c \in Condition |-> 0]
    BY DEF ExInit
  <2>2. << >> \in Seq(Nat)
    BY EmptySeq
  <2> QED
    BY <2>1, <2>2 DEF ConditionTypeOK, PayoutsMatchSlots, Resolved
<1>7. AdminTypeOK /\ wiring \in [Roles -> Address \cup {NoAddress}]
  <2>1. /\ admin \in Admins /\ isPaused = FALSE
        /\ wiring = [exchange |-> ExchangeContract, market |-> MarketContract,
                     liquidityManager |-> NoAddress]
    BY DEF ExInit
  <2>2. DOMAIN wiring = Roles
    BY <2>1 DEF Roles
  <2>3. \A r \in Roles : wiring[r] \in Address \cup {NoAddress}
    BY <1>1, <2>1 DEF Roles
  <2>4. wiring = [r \in DOMAIN wiring |-> wiring[r]]
    BY <2>1
  <2>5. wiring \in [Roles -> Address \cup {NoAddress}]
    BY <2>2, <2>3, <2>4
  <2>6. AdminTypeOK
    BY <1>1, <2>1, <2>5 DEF AdminTypeOK
  <2> QED
    BY <2>5, <2>6
<1>8. IInv
  BY <1>3, <1>4, <1>5, <1>6, <1>7 DEF IInv, TypeOK
<1>9. /\ allowance \in [Address -> Nat] /\ feeRecipient \in FeeRecipients
      /\ open \subseteq Condition /\ price \in [OutcomePositions -> Nat]
      /\ issued \in [Condition -> Nat]
  BY <1>1 DEF ExInit
<1> QED
  BY <1>8, <1>9 DEF FundsInv

\* The funds stay well typed and the supplies the sums of the balances, whatever the
\* handlers of the exchange and of the CTF contract do in turn.
THEOREM FundsInvariance == ExSpec => [](ExInv /\ FundsInv)
<1>1. ExInit => ExInv /\ FundsInv
  BY ExchangeStart, FundsStart
<1>2. ExInv /\ FundsInv /\ [ExNext]_exVars => (ExInv /\ FundsInv)'
  BY ExchangeStep, FundsStep DEF Preserved
<1> QED
  BY <1>1, <1>2, PTL DEF ExSpec

\* The CTF contract's books stay right with the exchange at work.
THEOREM SuppliesWithExchange == ExSpec => [](TypeOK /\ SupplyIsSumOfBalances)
<1>1. FundsInv => TypeOK /\ SupplyIsSumOfBalances
  BY DEF FundsInv, IInv
<1> QED
  BY <1>1, FundsInvariance, PTL

-----------------------------------------------------------------------------
(* The pool and the settlements *)

\* Only the three handlers of orders fill.
LEMMA FillsAreOrders ==
    ASSUME [ExNext]_exVars, filled' # filled
    PROVE  OrderNext
<1>1. CASE PoolNext
  BY <1>1, PoolOrders
<1>2. CASE ExAdminNext
  BY <1>2 DEF ExAdminNext, ExAdminister, SetFeeRecipient, SetTradeLimits, orderVars
<1>3. CASE SurroundingsNext
  BY <1>3 DEF SurroundingsNext, Approve, CtfStep, SetOpen, Tick, exchangeVars, orderVars
<1>4. CASE UNCHANGED exVars
  BY <1>4 DEF exVars, exchangeVars, orderVars
<1> QED
  BY <1>1, <1>2, <1>3, <1>4 DEF ExNext

LEMMA PoolLeftAlone ==
    ASSUME ExInv, FundsInv, OrderNext
    PROVE  /\ \A p \in OutcomePositions :
                  balance'[p][ExchangeContract] = balance[p][ExchangeContract]
           /\ feeRecipient # ExchangeContract =>
                  usdc'[ExchangeContract] - usdc[ExchangeContract] =
                      TotalOf(issued') - TotalOf(issued)
<1>1. \A p \in OutcomePositions : p \in Position
  BY OutcomePositionType DEF OutcomePositions
<1>2. /\ IsFiniteSet(Condition) /\ issued \in [Condition -> Nat]
      /\ usdc[ExchangeContract] \in Nat
  BY ExchangeAssumption, Accounts DEF FundsInv, IInv, TypeOK
<1>3. TotalOf(issued) \in Nat
  BY <1>2, TotalType
<1>4. CASE PoolAlone /\ UNCHANGED issued
  BY <1>1, <1>2, <1>3, <1>4 DEF PoolAlone
<1>5. ASSUME NEW left \in Order, NEW right \in Order, NEW n \in Nat, Complements(left, right),
             SetsSettled(left.condition, left.outcome, right.outcome, n)
      PROVE  /\ \A p \in Position :
                    balance'[p][ExchangeContract] = balance[p][ExchangeContract]
             /\ feeRecipient # ExchangeContract =>
                    usdc'[ExchangeContract] - usdc[ExchangeContract] =
                        TotalOf(issued') - TotalOf(issued)
  <2> DEFINE c == left.condition
  <2>1. c \in Condition
    BY <1>5 DEF Complements
  <2> HIDE DEF c
  <2>2. /\ \A p \in Position : balance'[p][ExchangeContract] = balance[p][ExchangeContract]
        /\ \/ /\ issued' = Credit(issued, c, n)
              /\ feeRecipient # ExchangeContract =>
                    usdc'[ExchangeContract] = usdc[ExchangeContract] + n
           \/ /\ issued' = issued
              /\ feeRecipient # ExchangeContract =>
                    usdc'[ExchangeContract] = usdc[ExchangeContract]
    BY <1>5 DEF SetsSettled, c
  <2>3. TotalOf(Credit(issued, c, n)) = TotalOf(issued) + n
    BY <1>2, <2>1, CreditTotal
  <2> QED
    BY <1>2, <1>3, <2>2, <2>3
<1> QED
  BY <1>1, <1>4, <1>5, FundsOrders

\* Whatever orders are settled in whichever way, the pool's tokens stay and its
\* collateral grows by the sets issued.
THEOREM PoolUntouched == ExSpec => MatchingLeavesPoolAlone
<1>1. ExInv /\ FundsInv /\ [ExNext]_exVars =>
        [filled' # filled =>
            /\ \A p \in OutcomePositions :
                    balance'[p][ExchangeContract] = balance[p][ExchangeContract]
            /\ feeRecipient # ExchangeContract =>
                    usdc'[ExchangeContract] - usdc[ExchangeContract] =
                        TotalOf(issued') - TotalOf(issued)]_exVars
  BY FillsAreOrders, PoolLeftAlone
<1> QED
  BY <1>1, FundsInvariance, PTL DEF ExSpec, MatchingLeavesPoolAlone

-----------------------------------------------------------------------------
(* The outcomes of the open conditions are covered *)

Heads(u) == [c \in Condition |-> u[OutcomePosition(c, 1)]]

EvenAt(u, c) == \A i \in Slots(c) : u[OutcomePosition(c, i)] = u[OutcomePosition(c, 1)]

LEMMA FirstSlot == ASSUME NEW c \in Condition PROVE 1 \in Slots(c)
<1>1. SlotCount[c] \in 2..32
  BY SlotAssumption
<1> QED
  BY <1>1 DEF Slots

LEMMA HeadsType ==
    ASSUME NEW u \in [Position -> Nat]
    PROVE  Heads(u) \in [Condition -> Nat]
BY FirstSlot, OutcomePositionType DEF Heads

LEMMA RaisedHeads ==
    ASSUME NEW u \in [Position -> Nat], NEW v \in [Position -> Nat],
           NEW c \in Condition, NEW n \in Nat, Raised(u, v, c, n)
    PROVE  TotalOf(Heads(v)) = TotalOf(Heads(u)) + n
<1>1. \A d \in Condition : v[OutcomePosition(d, 1)] =
        u[OutcomePosition(d, 1)] + (IF d = c THEN n ELSE 0)
  BY FirstSlot DEF Raised
<1>2. Heads(v) = Credit(Heads(u), c, n)
  <2>1. \A d \in Condition : u[OutcomePosition(d, 1)] \in Nat
    BY FirstSlot, OutcomePositionType
  <2>2. Credit(Heads(u), c, n) =
          [d \in Condition |-> IF d = c THEN u[OutcomePosition(d, 1)] + n
                                        ELSE u[OutcomePosition(d, 1)]]
    BY DEF Credit, Heads
  <2> QED
    BY <1>1, <2>1, <2>2 DEF Heads
<1>3. Heads(u) \in [Condition -> Nat] /\ IsFiniteSet(Condition)
  BY HeadsType, ExchangeAssumption
<1> QED
  BY <1>2, <1>3, CreditTotal

LEMMA RaisedEven ==
    ASSUME NEW u \in [Position -> Nat], NEW v \in [Position -> Nat],
           NEW c \in Condition, NEW n \in Nat, Raised(u, v, c, n), NEW d \in Condition
    PROVE  EvenAt(u, d) <=> EvenAt(v, d)
<1>1. PICK m \in Nat : m = IF d = c THEN n ELSE 0
  OBVIOUS
<1>2. \A i \in Slots(d) : v[OutcomePosition(d, i)] = u[OutcomePosition(d, i)] + m
  BY <1>1 DEF Raised
<1>3. \A i \in Slots(d) : u[OutcomePosition(d, i)] \in Nat /\ v[OutcomePosition(d, i)] \in Nat
  BY OutcomePositionType
<1> QED
  BY <1>2, <1>3, FirstSlot DEF EvenAt

\* OpenOutcomesCovered, of any supply and any resolutions.
Covered(u, collateral, sets, closed) ==
    /\ \A c \in Condition \ closed : EvenAt(u, c)
    /\ closed = {} => TotalOf(Heads(u)) = collateral + sets

Closed == {c \in Condition : Resolved(c)}

LEMMA CoveredIs ==
    OpenOutcomesCovered <=> Covered(supply, usdc[CtfContract], TotalOf(issued), Closed)
BY DEF OpenOutcomesCovered, Covered, Closed, EvenAt, Heads

LEMMA CoveredRaised ==
    ASSUME NEW u \in [Position -> Nat], NEW v \in [Position -> Nat],
           NEW c \in Condition, NEW n \in Nat, Raised(u, v, c, n),
           NEW x \in Nat, NEW y \in Nat, NEW s \in Nat, NEW t \in Nat, y + t = x + s + n, NEW closed
    PROVE  Covered(u, x, s, closed) <=> Covered(v, y, t, closed)
<1>1. TotalOf(Heads(v)) = TotalOf(Heads(u)) + n
  BY RaisedHeads
<1>2. TotalOf(Heads(u)) \in Nat /\ TotalOf(Heads(v)) \in Nat
  BY HeadsType, TotalType, ExchangeAssumption
<1>3. \A d \in Condition : EvenAt(u, d) <=> EvenAt(v, d)
  BY RaisedEven
<1> QED
  BY <1>1, <1>2, <1>3 DEF Covered

\* A condition that is resolved drops out of what is covered.
LEMMA CoveredFewer ==
    ASSUME NEW u, NEW v, NEW x, NEW y, NEW s, NEW t, NEW closed, NEW more, closed \subseteq more,
           Covered(u, x, s, closed),
           \A d \in Condition \ more : \A i \in Slots(d) :
               v[OutcomePosition(d, i)] = u[OutcomePosition(d, i)],
           more = {} => v = u /\ x = y /\ s = t
    PROVE  Covered(v, y, t, more)
<1>1. \A d \in Condition \ more : EvenAt(v, d)
  BY FirstSlot DEF Covered, EvenAt
<1>2. more = {} => TotalOf(Heads(v)) = y + t
  BY DEF Covered
<1> QED
  BY <1>1, <1>2 DEF Covered

\* The CTF contract's collateral comes from splits alone.
FundsOfTheirOwn == Funding[CtfContract] = 0 /\ CtfContract \notin FeeRecipients

\* No order and no trade with the pool touches the registry of conditions.
LEMMA OrdersConditions ==
    ASSUME OrderNext
    PROVE  UNCHANGED conditionVars
<1>1. (\E s : Commit(s)) \/ \E key \in Keys : CancelOrderByNonce(key)
  <2>1. ASSUME NEW o, NEW fill, FillOrder(o, fill)
        PROVE  \E s : Commit(s)
    BY <2>1 DEF FillOrder
  <2>2. ASSUME NEW taker, NEW makers, NEW fills, NEW takerFill,
               MatchOrders(taker, makers, fills, takerFill)
        PROVE  \E s : Commit(s)
    BY <2>2, Zenon DEF MatchOrders
  <2>3. ASSUME NEW left, NEW right, NEW leftFill, NEW rightFill,
               MatchComplementaryOrders(left, leftFill, right, rightFill)
        PROVE  \E s : Commit(s)
    BY <2>3, Zenon DEF MatchComplementaryOrders
  <2> QED
    BY <2>1, <2>2, <2>3 DEF OrderNext
<1>2. CASE \E s : Commit(s)
  BY <1>2 DEF Commit
<1>3. CASE \E key \in Keys : CancelOrderByNonce(key)
  BY <1>3 DEF CancelOrderByNonce, vars
<1> QED
  BY <1>1, <1>2, <1>3

LEMMA PoolConditions ==
    ASSUME PoolNext
    PROVE  UNCHANGED conditionVars
<1>1. ASSUME NEW c \in Condition, NEW i \in Slots(c), NEW p \in Prices, SetPrice(c, i, p)
      PROVE  UNCHANGED conditionVars
  BY <1>1 DEF SetPrice, vars
<1>2. ASSUME NEW c \in Condition, NEW i \in Slots(c), NEW a \in Traders, NEW n \in Fills,
             \/ DepositInventory(a, c, i, n) \/ WithdrawInventory(c, i, n, a)
             \/ BuyOutcome(a, c, i, n) \/ SellOutcome(a, c, i, n)
      PROVE  \E s : Commit(s)
  BY <1>2, Zenon DEF DepositInventory, WithdrawInventory, BuyOutcome, SellOutcome
<1>3. ASSUME NEW a \in Traders, NEW n \in Fills, DepositCollateral(a, n) \/ WithdrawCollateral(n, a)
      PROVE  \E s : Commit(s)
  BY <1>3 DEF DepositCollateral, WithdrawCollateral
<1>4. ASSUME \E s : Commit(s)
      PROVE  UNCHANGED conditionVars
  BY <1>4 DEF Commit
<1> QED
  BY <1>1, <1>2, <1>3, <1>4 DEF PoolNext

LEMMA ClosedKept ==
    ASSUME UNCHANGED conditionVars
    PROVE  Closed' = Closed
BY DEF Closed, Resolved, conditionVars

\* The amounts that the cover relates.
LEMMA CoverTyped ==
    ASSUME FundsInv
    PROVE  /\ supply \in [Position -> Nat] /\ usdc[CtfContract] \in Nat
           /\ TotalOf(issued) \in Nat /\ issued \in [Condition -> Nat]
           /\ IsFiniteSet(Condition)
<1>1. IsFiniteSet(Condition)
  BY ExchangeAssumption
<1> QED
  BY <1>1, Accounts, TotalType DEF FundsInv, IInv, TypeOK

LEMMA CoverStays ==
    ASSUME OpenOutcomesCovered, UNCHANGED conditionVars,
           supply' = supply, issued' = issued, usdc'[CtfContract] = usdc[CtfContract]
    PROVE  OpenOutcomesCovered'
<1>1. Closed' = Closed
  BY ClosedKept
<1> QED
  BY <1>1, CoveredIs DEF OpenOutcomesCovered, Resolved, conditionVars

\* Complete sets appear, or go, with their collateral or their issue.
LEMMA CoverRaised ==
    ASSUME FundsInv, FundsInv', OpenOutcomesCovered, UNCHANGED conditionVars,
           NEW c \in Condition, NEW n \in Nat,
           \/ /\ Raised(supply, supply', c, n)
              /\ usdc'[CtfContract] + TotalOf(issued') = usdc[CtfContract] + TotalOf(issued) + n
           \/ /\ Raised(supply', supply, c, n)
              /\ usdc[CtfContract] + TotalOf(issued) = usdc'[CtfContract] + TotalOf(issued') + n
    PROVE  OpenOutcomesCovered'
<1>1. /\ supply \in [Position -> Nat] /\ usdc[CtfContract] \in Nat /\ TotalOf(issued) \in Nat
      /\ supply' \in [Position -> Nat] /\ usdc'[CtfContract] \in Nat /\ TotalOf(issued') \in Nat
  <2>1. IsFiniteSet(Condition)
    BY ExchangeAssumption
  <2>2. supply \in [Position -> Nat] /\ usdc[CtfContract] \in Nat /\ TotalOf(issued) \in Nat
    BY CoverTyped
  <2>3. supply' \in [Position -> Nat] /\ usdc'[CtfContract] \in Nat /\ TotalOf(issued') \in Nat
    BY <2>1, Accounts, TotalType DEF FundsInv, IInv, TypeOK
  <2> QED
    BY <2>2, <2>3
<1>2. Closed' = Closed
  BY ClosedKept
<1>3. Covered(supply, usdc[CtfContract], TotalOf(issued), Closed)
  BY CoveredIs
<1> DEFINE u == supply
           v == supply'
           x == usdc[CtfContract]
           y == usdc'[CtfContract]
           s == TotalOf(issued)
           t == TotalOf(issued')
           closed == Closed
<1> HIDE DEF u, v, x, y, s, t, closed
<1>4. Covered(v, y, t, closed)
  <2>1. u \in [Position -> Nat] /\ v \in [Position -> Nat] /\ Covered(u, x, s, closed)
    BY <1>1, <1>3 DEF u, v, x, s, closed
  <2>2. x \in Nat /\ y \in Nat /\ s \in Nat /\ t \in Nat
    BY <1>1 DEF x, y, s, t
  <2>3. CASE Raised(u, v, c, n) /\ y + t = x + s + n
    BY <2>1, <2>2, <2>3, CoveredRaised, SMTT(30)
  <2>4. CASE Raised(v, u, c, n) /\ x + s = y + t + n
    BY <2>1, <2>2, <2>4, CoveredRaised
  <2> QED
    BY <2>3, <2>4 DEF u, v, x, y, s, t
<1>5. Covered(supply', usdc'[CtfContract], TotalOf(issued'), Closed')
  BY <1>2, <1>4 DEF v, y, t, closed
<1> QED
  BY <1>5, CoveredIs DEF OpenOutcomesCovered, Covered, Closed, EvenAt, Heads

\* Two orders' sets are whole ones: their condition has two outcomes.
LEMMA SetsRaised ==
    ASSUME FundsInv, FundsInv', FundsOfTheirOwn, NEW left \in Order, NEW right \in Order, NEW n \in Nat,
           Complements(left, right), SetsSettled(left.condition, left.outcome, right.outcome, n)
    PROVE  \/ /\ Raised(supply, supply', left.condition, n)
              /\ usdc'[CtfContract] + TotalOf(issued') = usdc[CtfContract] + TotalOf(issued) + n
           \/ /\ Raised(supply', supply, left.condition, n)
              /\ usdc[CtfContract] + TotalOf(issued) = usdc'[CtfContract] + TotalOf(issued') + n
<1> DEFINE c == left.condition
           i == left.outcome
           j == right.outcome
<1>1. /\ c \in Condition /\ SlotCount[c] = 2 /\ i # j
      /\ i \in Slots(c) /\ j \in Slots(c)
  BY DEF Complements, ComplementaryMatch
<1>2. \A d \in Condition : \A k \in Slots(d) :
        OutcomePosition(d, k) \in {OutcomePosition(c, i), OutcomePosition(c, j)} <=> d = c
  <2>1. ASSUME NEW k \in Slots(c) PROVE k = i \/ k = j
    BY <1>1 DEF Slots
  <2> HIDE DEF c, i, j
  <2> QED
    BY <2>1, OutcomePositionsDiffer
<1>3. \A d \in Condition : \A k \in Slots(d) :
        /\ OutcomePosition(d, k) \in Position
        /\ supply[OutcomePosition(d, k)] \in Nat /\ supply'[OutcomePosition(d, k)] \in Nat
  BY OutcomePositionType DEF FundsInv, IInv, TypeOK
<1>4. feeRecipient # CtfContract
  BY DEF FundsInv, FundsOfTheirOwn
<1>5. usdc[CtfContract] \in Nat /\ TotalOf(issued) \in Nat /\ usdc'[CtfContract] \in Nat
  BY CoverTyped, Accounts DEF FundsInv, IInv, TypeOK
<1> HIDE DEF c, i, j
<1>6. CASE /\ issued' = Credit(issued, c, n)
           /\ \A p \in Position : supply'[p] =
                 supply[p] + (IF p \in {OutcomePosition(c, i), OutcomePosition(c, j)} THEN n ELSE 0)
           /\ usdc'[CtfContract] = usdc[CtfContract]
  <2>1. Raised(supply, supply', c, n)
    BY <1>2, <1>3, <1>6 DEF Raised
  <2>2. TotalOf(issued') = TotalOf(issued) + n
    BY <1>1, <1>6, CoverTyped, CreditTotal
  <2> QED
    BY <1>5, <1>6, <2>1, <2>2 DEF c
<1>7. CASE /\ issued' = issued
           /\ \A p \in Position : supply'[p] =
                 supply[p] + (IF p \in {OutcomePosition(c, i), OutcomePosition(c, j)}
                              THEN 0 - n ELSE 0)
           /\ usdc'[CtfContract] = usdc[CtfContract] + (0 - n)
  <2>1. Raised(supply', supply, c, n)
    BY <1>2, <1>3, <1>7 DEF Raised
  <2> QED
    BY <1>5, <1>7, <2>1 DEF c
<1>8. \/ /\ issued' = Credit(issued, c, n)
         /\ \A p \in Position : supply'[p] =
               supply[p] + (IF p \in {OutcomePosition(c, i), OutcomePosition(c, j)} THEN n ELSE 0)
         /\ usdc'[CtfContract] = usdc[CtfContract]
      \/ /\ issued' = issued
         /\ \A p \in Position : supply'[p] =
               supply[p] + (IF p \in {OutcomePosition(c, i), OutcomePosition(c, j)}
                            THEN 0 - n ELSE 0)
         /\ usdc'[CtfContract] = usdc[CtfContract] + (0 - n)
  BY <1>4 DEF SetsSettled, c, i, j
<1> QED
  BY <1>6, <1>7, <1>8

\* The CTF contract's own handlers: whole sets are split and merged, and what is
\* redeemed or reported is resolved.
LEMMA CoverCtf ==
    ASSUME FundsInv, FundsInv', OpenOutcomesCovered, CtfStep
    PROVE  OpenOutcomesCovered'
<1>1. \A n \in Amounts : n \in Nat
  BY DEF Amounts
<1>2. issued' = issued
  BY CtfCases
<1>3. PICK c \in Condition :
        \/ \E user \in Traders, n \in Amounts :
             \/ SplitPosition(user, Root, c, Singletons(c), n)
             \/ MergePositions(user, Root, c, Singletons(c), n)
        \/ \E user \in Traders, i \in Slots(c) : RedeemPositions(user, Root, c, {{i}})
        \/ (\E v \in Payouts : ReportPayoutsByCondition(c, v)) \/ Administer
  BY CtfCases
<1>4. usdc[CtfContract] \in Nat /\ usdc'[CtfContract] \in Nat /\ TotalOf(issued) \in Nat
  BY CoverTyped, Accounts DEF FundsInv, IInv, TypeOK
<1>5. ASSUME NEW user \in Traders, NEW n \in Amounts,
             SplitPosition(user, Root, c, Singletons(c), n)
      PROVE  OpenOutcomesCovered'
  <2>1. UNCHANGED conditionVars
    BY <1>5 DEF SplitPosition
  <2>2. Raised(supply, supply', c, n) /\ usdc'[CtfContract] = usdc[CtfContract] + n /\ n \in Nat
    BY <1>1, <1>5, FundsSplit
  <2> QED
    BY <1>2, <1>4, <2>1, <2>2, CoverRaised
<1>6. ASSUME NEW user \in Traders, NEW n \in Amounts,
             MergePositions(user, Root, c, Singletons(c), n)
      PROVE  OpenOutcomesCovered'
  <2>1. UNCHANGED conditionVars
    BY <1>6 DEF MergePositions, MergeInternal
  <2>2. Raised(supply', supply, c, n) /\ usdc[CtfContract] = usdc'[CtfContract] + n /\ n \in Nat
    BY <1>1, <1>6, FundsMerge
  <2> QED
    BY <1>2, <1>4, <2>1, <2>2, CoverRaised
<1>7. ASSUME NEW more, more = Closed', Closed \subseteq more, more # {},
             \A d \in Condition \ more : \A i \in Slots(d) :
                 supply'[OutcomePosition(d, i)] = supply[OutcomePosition(d, i)]
      PROVE  OpenOutcomesCovered'
  <2>1. Covered(supply, usdc[CtfContract], TotalOf(issued), Closed)
    BY CoveredIs
  <2>2. Covered(supply', usdc'[CtfContract], TotalOf(issued'), more)
    BY <1>7, <2>1, CoveredFewer
  <2> QED
    BY <1>7, <2>2 DEF OpenOutcomesCovered, Covered, Closed, EvenAt, Heads
<1>8. ASSUME NEW user \in Traders, NEW i \in Slots(c), RedeemPositions(user, Root, c, {{i}})
      PROVE  OpenOutcomesCovered'
  <2>1. UNCHANGED conditionVars
    BY <1>8 DEF RedeemPositions
  <2>2. /\ Resolved(c)
        /\ \A d \in Condition : d # c => \A j \in Slots(d) :
               supply'[OutcomePosition(d, j)] = supply[OutcomePosition(d, j)]
    BY <1>8, FundsRedeem
  <2>3. Closed' = Closed /\ c \in Closed
    BY <2>1, <2>2, ClosedKept DEF Closed
  <2> QED
    BY <1>7, <2>2, <2>3
<1>9. ASSUME (\E v \in Payouts : ReportPayoutsByCondition(c, v)) \/ Administer
      PROVE  OpenOutcomesCovered'
  <2>1. UNCHANGED <<supply, usdc>> /\ (\A d \in Condition : Resolved(d) => Resolved(d)')
    BY <1>9, FundsReport
  <2>2. Closed \subseteq Closed'
    BY <2>1 DEF Closed
  <2>3. CASE Closed' = {}
    <3>1. Closed = {}
      BY <2>2, <2>3
    <3> QED
      BY <1>2, <2>1, <2>3, <3>1, CoveredIs DEF OpenOutcomesCovered, Covered, Closed, EvenAt, Heads
  <2>4. CASE Closed' # {}
    BY <1>7, <2>1, <2>2, <2>4
  <2> QED
    BY <2>3, <2>4
<1> QED
  BY <1>3, <1>5, <1>6, <1>8, <1>9

LEMMA CoverStep ==
    ASSUME ExInv, FundsInv, FundsOfTheirOwn, OpenOutcomesCovered, [ExNext]_exVars
    PROVE  OpenOutcomesCovered'
<1>1. FundsInv'
  BY FundsStep
<1>2. CASE OrderNext
  <2>1. UNCHANGED conditionVars
    BY <1>2, OrdersConditions
  <2>2. CASE PoolAlone /\ UNCHANGED issued
    <3>1. feeRecipient # CtfContract
      BY DEF FundsInv, FundsOfTheirOwn
    <3> QED
      BY <2>1, <2>2, <3>1, CoverStays DEF PoolAlone
  <2>3. ASSUME NEW left \in Order, NEW right \in Order, NEW n \in Nat, Complements(left, right),
               SetsSettled(left.condition, left.outcome, right.outcome, n)
        PROVE  OpenOutcomesCovered'
    <3>1. left.condition \in Condition
      BY <2>3 DEF Complements
    <3> QED
      BY <1>1, <2>1, <2>3, <3>1, SetsRaised, CoverRaised
  <2> QED
    BY <1>2, <2>2, <2>3, FundsOrders
<1>3. CASE PoolNext
  BY <1>3, FundsPool, PoolConditions, CoverStays DEF SetsAlone
<1>4. CASE CtfStep
  BY <1>1, <1>4, CoverCtf
<1>5. CASE ExAdminNext \/ (SurroundingsNext /\ ~CtfStep) \/ UNCHANGED exVars
  <2>1. UNCHANGED <<vars, issued>>
    BY <1>5, FundsOther
  <2> QED
    BY <2>1, CoverStays DEF vars, ledgerVars
<1> QED
  BY <1>2, <1>3, <1>4, <1>5 DEF ExNext, SurroundingsNext

LEMMA CoverStart ==
    ASSUME ExInit, FundsInv, FundsOfTheirOwn
    PROVE  OpenOutcomesCovered
<1> DEFINE sets == TotalOf(SetsHeld)
           size == Cardinality(Condition)
<1>1. \A c \in Condition : \A i \in Slots(c) : supply[OutcomePosition(c, i)] = sets
  <2>1. /\ balance = [p \in Position |->
                IF p \in OutcomePositions THEN SetsHeld ELSE [a \in Address |-> 0]]
        /\ supply = [p \in Position |-> TotalOf(balance[p])]
    BY DEF ExInit
  <2> QED
    BY <2>1, OutcomePositionType
<1>2. IsFiniteSet(Condition) /\ sets \in Nat /\ size \in Nat
  <2>1. IsFiniteSet(Address)
    BY CtfAssumption DEF CtfAssumption
  <2> QED
    BY <2>1, ExchangeAssumption, TotalType, FS_CardinalityType
<1>3. Heads(supply) = [c \in Condition |-> sets]
  BY <1>1, FirstSlot DEF Heads
<1>4. TotalOf(Heads(supply)) = size * sets
  BY <1>2, <1>3, ConstTotal
<1>5. TotalOf(issued) = 0
  BY EmptyTotal DEF ExInit
<1>6. usdc[CtfContract] = size * sets
  <2>1. CtfContract \in Address
    BY CtfAssumption DEF CtfAssumption
  <2>2. size * sets \in Nat
    BY <1>2
  <2>3. usdc[CtfContract] = Funding[CtfContract] + size * sets
    BY <2>1 DEF ExInit
  <2> HIDE DEF size, sets
  <2> QED
    BY <2>2, <2>3 DEF FundsOfTheirOwn
<1>7. \A c \in Condition : EvenAt(supply, c)
  BY <1>1, FirstSlot DEF EvenAt
<1>8. usdc[CtfContract] \in Nat
  BY CoverTyped
<1> QED
  BY <1>4, <1>5, <1>6, <1>7, <1>8, CoveredIs DEF Covered

\* When the CTF contract has no collateral of other origin, the outcomes of an open
\* condition are covered alike, by the collateral and the sets issued: complementary
\* matches create and merge whole sets of a binary condition only.
LEMMA OpenCovered ==
    ASSUME FundsOfTheirOwn
    PROVE  ExSpec => []OpenOutcomesCovered
<1>1. ExInit /\ FundsInv => OpenOutcomesCovered
  BY CoverStart
<1>2. ExInv /\ FundsInv /\ OpenOutcomesCovered /\ [ExNext]_exVars => OpenOutcomesCovered'
  BY CoverStep
<1> QED
  BY <1>1, <1>2, FundsInvariance, PTL DEF ExSpec

LEMMA OutcomeIsPosition == ASSUME NEW p \in OutcomePositions PROVE p \in Position
BY OutcomePositionType DEF OutcomePositions

-----------------------------------------------------------------------------
(* Solvency: only what the exchange issued can be missing *)

\* What pays the positions in world w: the collateral and the sets issued.
Backing(w) == (usdc[CtfContract] + TotalOf(issued)) * Worth[w][Root]

\* However the unresolved conditions resolve, the CTF contract lacks at most one unit
\* of collateral for each complete set that the exchange issued.
SolventButForIssues == \A w \in Worlds : Owed(w) <= Backing(w)

\* What it rests on: the registry of conditions, which is complete from the start, and
\* whose reports are payout vectors.
ClaimsInv ==
    /\ PayoutsAreSums
    /\ prepared = Condition
    /\ \A c \in Condition : Resolved(c) => numerators[c] \in Shares(c)

LEMMA AllAssumed == Assumptions
BY ConditionAssumption, CtfAssumption, SolvencyAssumption DEF Assumptions

\* The amounts that solvency relates.
LEMMA BackingTyped ==
    ASSUME FundsInv, NEW w \in World
    PROVE  /\ IsFiniteSet(Position)
           /\ \A p \in Position : Worth[w][p] \in Nat
           /\ Worth[w][Root] \in Nat
           /\ OwedBy(supply, Worth[w]) \in Nat /\ Owed(w) = OwedBy(supply, Worth[w])
           /\ usdc[CtfContract] + TotalOf(issued) \in Nat
<1>1. /\ IsFiniteSet(Position)
      /\ \A p \in Position : Worth[w][p] \in Nat
      /\ Worth[w][Root] \in Nat
  BY ConditionAssumption, CtfAssumption, SolvencyAssumption, PositionsFinite, PositionWorth
<1>2. supply \in [Position -> Nat] /\ usdc[CtfContract] \in Nat /\ TotalOf(issued) \in Nat
  BY CoverTyped
<1>3. PICK W : W = Worth[w]
  OBVIOUS
<1>4. OwedBy(supply, W) \in Nat
  <2>1. {} \in SUBSET Position /\ 0 \in Nat /\ \A p \in Position : W[p] \in Nat
    BY <1>1, <1>3
  <2> QED
    BY <1>1, <1>2, <2>1, OwedUp
<1> QED
  BY <1>1, <1>2, <1>3, <1>4 DEF Owed, OwedBy

\* The outcomes of a condition are worth one unit of collateral together.
LEMMA OutcomesWorth ==
    ASSUME prepared = Condition, NEW w \in World, NEW c \in Condition, Len(w[c]) = SlotCount[c]
    PROVE  /\ Children(Root, c, Singletons(c)) \in SUBSET Position
           /\ WorthOf(Children(Root, c, Singletons(c)), Worth[w]) = Worth[w][Root]
<1>1. ValidPartition(c, Singletons(c))
  BY DEF ValidPartition, Singletons
<1>2. /\ Children(Root, c, Singletons(c)) \subseteq Position
      /\ TotalOf([p \in Children(Root, c, Singletons(c)) |-> Worth[w][p]]) = Worth[w][Root]
  BY <1>1, ConditionAssumption, CtfAssumption, SolvencyAssumption, RootIsParent, ChildrenWorth
<1> QED
  BY <1>2 DEF WorthOf

\* n complete sets more, and as much more that backs them.
LEMMA SetsBacked ==
    ASSUME NEW a \in Nat, NEW x \in Nat, NEW r \in Nat, NEW n \in Nat, NEW y \in Nat,
           y = x + n
    PROVE  a <= x * r <=> a + n * r <= y * r
<1>1. (x + n) * r = x * r + n * r
  BY Distributed
<1>2. x * r \in Nat /\ n * r \in Nat
  BY ProductType
<1> QED
  BY <1>1, <1>2

\* An issue or a merge of complete sets keeps the backing.
LEMMA SetsSolvent ==
    ASSUME FundsInv, FundsInv', ClaimsInv, NEW w \in World, NEW c \in Condition,
           Len(w[c]) = SlotCount[c], NEW n \in Nat, Owed(w) <= Backing(w),
           NEW P, P = Children(Root, c, Singletons(c)),
           \/ /\ \A p \in Position : supply'[p] = supply[p] + (IF p \in P THEN n ELSE 0)
              /\ usdc'[CtfContract] + TotalOf(issued') = usdc[CtfContract] + TotalOf(issued) + n
           \/ /\ \A p \in Position : supply[p] = supply'[p] + (IF p \in P THEN n ELSE 0)
              /\ usdc[CtfContract] + TotalOf(issued) = usdc'[CtfContract] + TotalOf(issued') + n
    PROVE  Owed(w)' <= Backing(w)'
<1>1. PICK W : W = Worth[w]
  OBVIOUS
<1>2. PICK u, v : u = supply /\ v = supply'
  OBVIOUS
<1>3. PICK x, y : /\ x = usdc[CtfContract] + TotalOf(issued)
                  /\ y = usdc'[CtfContract] + TotalOf(issued')
  OBVIOUS
<1>4. /\ IsFiniteSet(Position) /\ W[Root] \in Nat /\ x \in Nat
      /\ \A p \in Position : W[p] \in Nat
      /\ Owed(w) = OwedBy(u, W)
  BY <1>1, <1>2, <1>3, BackingTyped
<1>5. /\ usdc'[CtfContract] \in Nat /\ TotalOf(issued') \in Nat
      /\ u \in [Position -> Nat] /\ v \in [Position -> Nat]
  <2>1. IsFiniteSet(Condition)
    BY ExchangeAssumption
  <2>2. /\ supply' \in [Position -> Nat] /\ usdc' \in [Address -> Nat]
        /\ issued' \in [Condition -> Nat] /\ CtfContract \in Address
    BY Accounts DEF FundsInv, IInv, TypeOK
  <2>3. TotalOf(issued') \in Nat
    BY <2>1, <2>2, TotalType
  <2>4. supply \in [Position -> Nat]
    BY CoverTyped
  <2> QED
    BY <1>2, <2>2, <2>3, <2>4
<1>6. y \in Nat
  BY <1>3, <1>5
<1>7. P \in SUBSET Position /\ WorthOf(P, W) = W[Root]
  BY <1>1, OutcomesWorth DEF ClaimsInv
<1>8. Owed(w)' = OwedBy(v, W) /\ Backing(w)' = y * W[Root] /\ Backing(w) = x * W[Root]
  BY <1>1, <1>2, <1>3 DEF Owed, OwedBy, Backing
<1>9. PICK r \in Nat : r = W[Root]
  BY <1>4
<1>10. CASE /\ \A p \in Position : v[p] = u[p] + (IF p \in P THEN n ELSE 0)
            /\ y = x + n
  <2>1. v = SupplyUp(u, P, n)
    BY <1>5, <1>10 DEF SupplyUp
  <2>2. /\ OwedBy(SupplyUp(u, P, n), W) = OwedBy(u, W) + n * WorthOf(P, W)
        /\ OwedBy(u, W) \in Nat
    BY <1>4, <1>5, <1>7, OwedUp
  <2>3. PICK a \in Nat : a = OwedBy(u, W)
    BY <2>2
  <2>4. a <= x * r /\ OwedBy(v, W) = a + n * r
    BY <1>4, <1>7, <1>8, <1>9, <2>1, <2>2, <2>3
  <2>5. a + n * r <= y * r
    BY <1>4, <1>6, <1>10, <2>4, SetsBacked
  <2> QED
    BY <1>8, <1>9, <2>4, <2>5
<1>11. CASE /\ \A p \in Position : u[p] = v[p] + (IF p \in P THEN n ELSE 0)
            /\ x = y + n
  <2>1. u = SupplyUp(v, P, n)
    BY <1>5, <1>11 DEF SupplyUp
  <2>2. /\ OwedBy(SupplyUp(v, P, n), W) = OwedBy(v, W) + n * WorthOf(P, W)
        /\ OwedBy(v, W) \in Nat
    BY <1>4, <1>5, <1>7, OwedUp
  <2>3. PICK a \in Nat : a = OwedBy(v, W)
    BY <2>2
  <2>4. a + n * r <= x * r
    BY <1>4, <1>7, <1>8, <1>9, <2>1, <2>2, <2>3
  <2>5. a <= y * r
    BY <1>4, <1>6, <1>11, <2>4, SetsBacked
  <2> QED
    BY <1>8, <1>9, <2>3, <2>5
<1> QED
  BY <1>2, <1>3, <1>10, <1>11

\* A step of the CTF contract's own that keeps the margin, while nothing is issued.
LEMMA MarginSolvent ==
    ASSUME FundsInv, FundsInv', NEW w \in World, MarginKept(w), issued' = issued,
           Owed(w) <= Backing(w)
    PROVE  Owed(w)' <= Backing(w)'
<1>1. PICK r \in Nat, x \in Nat, y \in Nat, k \in Nat, a \in Nat :
        /\ r = Worth[w][Root] /\ x = usdc[CtfContract] /\ y = usdc'[CtfContract]
        /\ k = TotalOf(issued) /\ a = Owed(w)
  <2>1. usdc[CtfContract] \in Nat /\ TotalOf(issued) \in Nat
    BY CoverTyped
  <2>2. usdc'[CtfContract] \in Nat
    BY Accounts DEF FundsInv, IInv, TypeOK
  <2> QED
    BY <2>1, <2>2, BackingTyped
<1>2. PICK b \in Nat : b = Owed(w)'
  <2>1. PICK W, v : W = Worth[w] /\ v = supply'
    OBVIOUS
  <2>2. IsFiniteSet(Position) /\ \A p \in Position : W[p] \in Nat
    BY <2>1, BackingTyped
  <2>3. v \in [Position -> Nat]
    BY <2>1 DEF FundsInv, IInv, TypeOK
  <2>4. {} \in SUBSET Position /\ 0 \in Nat
    OBVIOUS
  <2>5. OwedBy(v, W) \in Nat
    BY <2>2, <2>3, <2>4, OwedUp
  <2> QED
    BY <2>1, <2>5 DEF Owed, OwedBy
<1>3. b + x * r <= a + y * r
  BY <1>1, <1>2 DEF MarginKept, Locked
<1>4. a <= (x + k) * r
  BY <1>1 DEF Backing
<1>5. Backing(w)' = (y + k) * r
  BY <1>1 DEF Backing
<1>6. (x + k) * r = x * r + k * r /\ (y + k) * r = y * r + k * r
  BY Distributed
<1>7. x * r \in Nat /\ y * r \in Nat /\ k * r \in Nat
  BY ProductType
<1>8. b <= (y + k) * r
  BY <1>3, <1>4, <1>6, <1>7
<1> QED
  BY <1>2, <1>5, <1>8

\* No step but a report leaves fewer worlds, and none more.
LEMMA ClaimsStep ==
    ASSUME ExInv, FundsInv, ClaimsInv, [ExNext]_exVars
    PROVE  ClaimsInv' /\ \A w \in Worlds' : w \in Worlds
<1>1. ASSUME UNCHANGED conditionVars
      PROVE  ClaimsInv' /\ \A w \in Worlds' : w \in Worlds
  BY <1>1, NothingReported DEF ClaimsInv, conditionVars, Resolved
<1>2. CASE OrderNext
  BY <1>1, <1>2, OrdersConditions
<1>3. CASE PoolNext
  BY <1>1, <1>3, PoolConditions
<1>4. CASE CtfStep
  <2>1. PICK c \in Condition :
          \/ \E user \in Traders, n \in Amounts :
               \/ SplitPosition(user, Root, c, Singletons(c), n)
               \/ MergePositions(user, Root, c, Singletons(c), n)
          \/ \E user \in Traders, i \in Slots(c) : RedeemPositions(user, Root, c, {{i}})
          \/ (\E v \in Payouts : ReportPayoutsByCondition(c, v)) \/ Administer
    BY <1>4, CtfCases
  <2>2. ASSUME NEW user \in Traders, NEW n \in Amounts,
               \/ SplitPosition(user, Root, c, Singletons(c), n)
               \/ MergePositions(user, Root, c, Singletons(c), n)
        PROVE  UNCHANGED conditionVars
    BY <2>2 DEF SplitPosition, MergePositions, MergeInternal
  <2>3. ASSUME NEW user \in Traders, NEW i \in Slots(c), RedeemPositions(user, Root, c, {{i}})
        PROVE  UNCHANGED conditionVars
    BY <2>3 DEF RedeemPositions
  <2>4. CASE Administer
    BY <1>1, <2>4 DEF Administer
  <2>5. CASE \E v \in Payouts : ReportPayoutsByCondition(c, v)
    <3>1. PICK v \in Payouts : ReportPayoutsByCondition(c, v)
      BY <2>5
    <3>2. ConditionNext
      BY <3>1 DEF ConditionNext
    <3>3. /\ prepared' = prepared /\ v \in Shares(c)
          /\ numerators' = [numerators EXCEPT ![c] = v]
          /\ denominator' = [denominator EXCEPT ![c] = TotalOf(v)]
      BY <3>1 DEF ReportPayoutsByCondition, ApplyPayouts, Shares
    <3>4. \A d \in Condition : Resolved(d)' => numerators'[d] \in Shares(d)
      <4>1. numerators \in [Condition -> Seq(Nat)] /\ denominator \in [Condition -> Nat]
        BY DEF FundsInv, IInv, TypeOK, ConditionTypeOK
      <4> QED
        BY <3>3, <4>1 DEF Resolved, ClaimsInv
    <3> QED
      BY <3>2, <3>3, <3>4, ConditionAssumption, Reported DEF FundsInv, ClaimsInv
  <2> QED
    BY <1>1, <2>1, <2>2, <2>3, <2>4, <2>5
<1>5. CASE ExAdminNext \/ (SurroundingsNext /\ ~CtfStep) \/ UNCHANGED exVars
  <2>1. UNCHANGED vars
    BY <1>5, FundsOther
  <2> QED
    BY <1>1, <2>1 DEF vars
<1> QED
  BY <1>2, <1>3, <1>4, <1>5 DEF ExNext, SurroundingsNext

\* The CTF contract's handlers keep the margin in every world.
LEMMA CtfMargin ==
    ASSUME FundsInv, ClaimsInv, CtfStep, NEW w \in Worlds
    PROVE  MarginKept(w)
<1>1. /\ Amounts \subseteq Nat /\ Traders \subseteq Actors /\ Traders \subseteq Address
      /\ usdc \in [Address -> Nat] /\ CtfContract \in Address /\ usdc[CtfContract] \in Nat
  BY ExchangeAssumption, CtfAssumption
     DEF Actors, Amounts, CtfAssumption, FundsInv, IInv, TypeOK
<1>2. Assumptions /\ IInv /\ PayoutsAreSums /\ Root \in Parents
  BY AllAssumed, RootIsParent DEF FundsInv, ClaimsInv
<1>3. PICK c \in Condition :
        \/ \E user \in Traders, n \in Amounts :
             \/ SplitPosition(user, Root, c, Singletons(c), n)
             \/ MergePositions(user, Root, c, Singletons(c), n)
        \/ \E user \in Traders, i \in Slots(c) : RedeemPositions(user, Root, c, {{i}})
        \/ (\E v \in Payouts : ReportPayoutsByCondition(c, v)) \/ Administer
  BY CtfCases
<1>4. ASSUME NEW user \in Traders, NEW n \in Amounts,
             SplitPosition(user, Root, c, Singletons(c), n)
      PROVE  MarginKept(w)
  <2>1. user \in Actors /\ n \in Nat
    BY <1>1
  <2> QED
    BY <1>2, <1>4, <2>1, SplitMargin
<1>5. ASSUME NEW user \in Traders, NEW n \in Amounts,
             MergePositions(user, Root, c, Singletons(c), n)
      PROVE  MarginKept(w)
  <2>1. user \in Actors /\ user \in Address /\ n \in Nat
    BY <1>1
  <2>2. MergeInternal(user, user, Root, c, Singletons(c), n)
    BY <1>5 DEF MergePositions
  <2> QED
    BY <1>2, <2>1, <2>2, MergeMargin
<1>6. ASSUME NEW user \in Traders, NEW i \in Slots(c), RedeemPositions(user, Root, c, {{i}})
      PROVE  MarginKept(w)
  <2>1. user \in Actors /\ {{i}} \in SUBSET (SUBSET Slots(c))
    BY <1>1
  <2> QED
    BY <1>2, <1>6, <2>1, RedeemMargin
<1>7. ASSUME (\E v \in Payouts : ReportPayoutsByCondition(c, v)) \/ Administer
      PROVE  MarginKept(w)
  <2>1. supply' = supply /\ usdc' = usdc
    BY <1>7, FundsReport
  <2> QED
    BY <1>1, <1>2, <2>1, QuietMargin
<1> QED
  BY <1>3, <1>4, <1>5, <1>6, <1>7

\* The two outcomes of a complementary match are all that the condition has.
LEMMA SetsAreWhole ==
    ASSUME NEW left \in Order, NEW right \in Order, Complements(left, right)
    PROVE  Children(Root, left.condition, Singletons(left.condition)) =
             {OutcomePosition(left.condition, left.outcome),
              OutcomePosition(left.condition, right.outcome)}
<1> DEFINE c == left.condition
           i == left.outcome
           j == right.outcome
<1>1. /\ c \in Condition /\ SlotCount[c] = 2 /\ i # j
      /\ i \in Slots(c) /\ j \in Slots(c)
  BY DEF Complements, ComplementaryMatch
<1>2. Slots(c) = {i, j}
  BY <1>1 DEF Slots
<1> HIDE DEF c, i, j
<1>3. Children(Root, c, Singletons(c)) = {OutcomePosition(c, k) : k \in Slots(c)}
  BY DEF Children, Singletons, OutcomePosition
<1> QED
  BY <1>2, <1>3 DEF c, i, j

LEMMA OrdersSolvent ==
    ASSUME ExInv, FundsInv, FundsInv', ClaimsInv, FundsOfTheirOwn, OrderNext,
           NEW w \in Worlds, Owed(w) <= Backing(w)
    PROVE  Owed(w)' <= Backing(w)'
<1>1. feeRecipient # CtfContract
  BY DEF FundsInv, FundsOfTheirOwn
<1>2. w \in World /\ \A c \in Condition : Len(w[c]) = SlotCount[c]
  <2>1. IInv
    BY DEF FundsInv
  <2>2. ASSUME NEW c \in Condition PROVE Len(w[c]) = SlotCount[c]
    BY <2>1, WorldFits
  <2> QED
    BY <2>2 DEF Worlds
<1>3. CASE PoolAlone /\ UNCHANGED issued
  <2>1. supply' = supply /\ issued' = issued /\ usdc'[CtfContract] = usdc[CtfContract]
    BY <1>1, <1>3 DEF PoolAlone
  <2> QED
    BY <2>1 DEF Owed, Backing
<1>4. ASSUME NEW left \in Order, NEW right \in Order, NEW n \in Nat, Complements(left, right),
             SetsSettled(left.condition, left.outcome, right.outcome, n)
      PROVE  Owed(w)' <= Backing(w)'
  <2> DEFINE c == left.condition
             P == Children(Root, c, Singletons(c))
  <2>1. /\ c \in Condition
        /\ P = {OutcomePosition(c, left.outcome), OutcomePosition(c, right.outcome)}
    BY <1>4, SetsAreWhole DEF Complements
  <2>2. /\ issued \in [Condition -> Nat] /\ IsFiniteSet(Condition)
        /\ usdc[CtfContract] \in Nat /\ usdc'[CtfContract] \in Nat /\ TotalOf(issued) \in Nat
        /\ \A p \in Position : supply[p] \in Nat /\ supply'[p] \in Nat
    BY CoverTyped, Accounts DEF FundsInv, IInv, TypeOK
  <2>3. PICK Q : Q = P
    OBVIOUS
  <2>4. CASE /\ issued' = Credit(issued, c, n)
             /\ \A p \in Position : supply'[p] = supply[p] + (IF p \in Q THEN n ELSE 0)
             /\ usdc'[CtfContract] = usdc[CtfContract]
    <3>1. TotalOf(issued') = TotalOf(issued) + n
      BY <2>1, <2>2, <2>4, CreditTotal
    <3>2. usdc'[CtfContract] + TotalOf(issued') = usdc[CtfContract] + TotalOf(issued) + n
      BY <2>2, <2>4, <3>1
    <3> HIDE DEF c
    <3> QED
      BY <1>2, <2>1, <2>3, <2>4, <3>2, SetsSolvent
  <2>5. CASE /\ issued' = issued
             /\ \A p \in Position : supply'[p] = supply[p] + (IF p \in Q THEN 0 - n ELSE 0)
             /\ usdc'[CtfContract] = usdc[CtfContract] + (0 - n)
    <3>1. usdc[CtfContract] + TotalOf(issued) = usdc'[CtfContract] + TotalOf(issued') + n
      BY <2>2, <2>5
    <3>2. \A p \in Position : supply[p] = supply'[p] + (IF p \in Q THEN n ELSE 0)
      BY <2>2, <2>5
    <3> HIDE DEF c
    <3> QED
      BY <1>2, <2>1, <2>3, <3>1, <3>2, SetsSolvent
  <2> QED
    BY <1>1, <1>4, <2>1, <2>3, <2>4, <2>5 DEF SetsSettled
<1> QED
  BY <1>3, <1>4, FundsOrders

LEMMA SolventStep ==
    ASSUME ExInv, FundsInv, ClaimsInv, FundsOfTheirOwn, SolventButForIssues, [ExNext]_exVars
    PROVE  SolventButForIssues'
<1>1. FundsInv' /\ \A w \in Worlds' : w \in Worlds
  BY FundsStep, ClaimsStep
<1>2. \A w \in Worlds : w \in World
  BY DEF Worlds
<1> SUFFICES ASSUME NEW w \in Worlds PROVE Owed(w)' <= Backing(w)'
  BY <1>1 DEF SolventButForIssues
<1>3. Owed(w) <= Backing(w)
  BY DEF SolventButForIssues
<1>4. ASSUME supply' = supply, issued' = issued, usdc'[CtfContract] = usdc[CtfContract]
      PROVE  Owed(w)' <= Backing(w)'
  BY <1>3, <1>4 DEF Owed, Backing
<1>5. CASE OrderNext
  BY <1>1, <1>3, <1>5, OrdersSolvent
<1>6. CASE PoolNext
  BY <1>4, <1>6, FundsPool DEF SetsAlone
<1>7. CASE CtfStep
  <2>1. MarginKept(w) /\ issued' = issued
    BY <1>7, CtfMargin, CtfCases
  <2> QED
    BY <1>1, <1>2, <1>3, <2>1, MarginSolvent
<1>8. CASE ExAdminNext \/ (SurroundingsNext /\ ~CtfStep) \/ UNCHANGED exVars
  <2>1. UNCHANGED <<vars, issued>>
    BY <1>8, FundsOther
  <2> QED
    BY <1>4, <2>1 DEF vars, ledgerVars
<1> QED
  BY <1>5, <1>6, <1>7, <1>8 DEF ExNext, SurroundingsNext

\* The outcomes of all conditions are worth a unit of collateral for each condition:
\* every pair of a draw and a condition is won by one outcome.
LEMMA AllOutcomesWorth ==
    ASSUME NEW w \in World, \A c \in Condition : Len(w[c]) = SlotCount[c]
    PROVE  WorthOf(OutcomePositions, Worth[w]) = Cardinality(Condition) * Worth[w][Root]
<1> DEFINE all == Winners(w, Root)
           S == all \X Condition
           won(p) == {x \in S : x[2] = p[1][1] /\ Wins(x[1], p)}
           F == [p \in OutcomePositions |-> won(p)]
           g == [p \in OutcomePositions |-> Worth[w][p]]
<1>1. /\ Root \in Parents /\ Root \in Collections /\ Len(Root) = 0 /\ 1 \in Levels
      /\ IsFiniteSet(Condition) /\ Cardinality(Condition) \in Nat
  <2>1. Len(Root) = 0
    BY EmptySeq DEF Root
  <2>2. MaxDepth \in Nat /\ MaxDepth # 0
    BY CtfAssumption, ExchangeAssumption DEF CtfAssumption
  <2>3. 1 \in Levels
    BY <2>2 DEF Levels
  <2>4. IsFiniteSet(Condition)
    BY ExchangeAssumption
  <2>5. Root \in Parents /\ Root \in Collections
    BY RootIsParent, RootType, CtfAssumption
  <2> QED
    BY <2>1, <2>3, <2>4, <2>5, FS_CardinalityType
<1>2. /\ IsFiniteSet(all) /\ Worth[w][Root] = Cardinality(all) /\ Cardinality(all) \in Nat
  BY <1>1, ConditionAssumption, CtfAssumption, SolvencyAssumption, WorthType, FS_CardinalityType
<1>3. \A d : \A c \in Condition : \A i \in Slots(c) :
        Wins(d, OutcomePosition(c, i)) <=> Wins(d, Root) /\ d[<<1, c>>][1] = i
  <2> SUFFICES ASSUME NEW d, NEW c \in Condition, NEW i \in Slots(c)
               PROVE  Wins(d, OutcomePosition(c, i)) <=>
                        Wins(d, Root) /\ d[<<1, c>>][1] = i
    OBVIOUS
  <2>1. {i} \in SUBSET Slots(c) /\ {i} # {}
    OBVIOUS
  <2>2. Wins(d, Child(Root, c, {i})) <=> Wins(d, Root) /\ d[<<Len(Root) + 1, c>>][1] \in {i}
    BY <1>1, <2>1, CtfAssumption, ChildWins
  <2> QED
    BY <1>1, <2>2 DEF OutcomePosition
<1>4. ASSUME NEW p \in OutcomePositions
      PROVE  Worth[w][p] = Cardinality(F[p]) /\ F[p] \subseteq S
  <2> PICK c \in Condition : \E i \in Slots(c) : p = OutcomePosition(c, i)
    BY DEF OutcomePositions
  <2>1. PICK i \in Slots(c) : p = OutcomePosition(c, i)
    OBVIOUS
  <2>2. p \in Collections /\ p[1][1] = c
    <3>1. p[1] = <<c, {i}>> /\ p \in Position
      BY <2>1, OutcomePositionLink, OutcomePositionType
    <3> QED
      BY <3>1 DEF Position
  <2>3. IsFiniteSet(Winners(w, p)) /\ Worth[w][p] = Cardinality(Winners(w, p))
    BY <2>2, ConditionAssumption, CtfAssumption, SolvencyAssumption, WorthType
  <2>4. Winners(w, p) \subseteq all
    BY <1>3, <2>1 DEF Winners
  <2>5. won(p) = Winners(w, p) \X {c}
    BY <2>2, <2>4 DEF Winners
  <2>6. IsFiniteSet({c}) /\ Cardinality({c}) = 1
    BY FS_Singleton
  <2>7. Cardinality(Winners(w, p) \X {c}) = Cardinality(Winners(w, p)) * 1
    BY <2>3, <2>6, FS_Product
  <2>8. Cardinality(Winners(w, p)) \in Nat
    BY <2>3, FS_CardinalityType
  <2>9. F[p] = Winners(w, p) \X {c} /\ won(p) \subseteq S
    BY <2>5
  <2> HIDE DEF F, S, won
  <2>10. F[p] = won(p)
    BY DEF F
  <2> QED
    BY <2>3, <2>7, <2>8, <2>9, <2>10
<1>5. \A p, q \in OutcomePositions : p # q => F[p] \cap F[q] = {}
  <2> SUFFICES ASSUME NEW p \in OutcomePositions, NEW q \in OutcomePositions,
                      NEW x \in F[p] \cap F[q]
               PROVE  p = q
    OBVIOUS
  <2> PICK c \in Condition, d \in Condition :
          /\ \E i \in Slots(c) : p = OutcomePosition(c, i)
          /\ \E j \in Slots(d) : q = OutcomePosition(d, j)
    BY DEF OutcomePositions
  <2>1. PICK i \in Slots(c) : p = OutcomePosition(c, i)
    OBVIOUS
  <2>2. PICK j \in Slots(d) : q = OutcomePosition(d, j)
    OBVIOUS
  <2>3. p[1][1] = c /\ q[1][1] = d
    BY <2>1, <2>2, OutcomePositionLink
  <2>4. x[2] = c /\ x[2] = d /\ Wins(x[1], p) /\ Wins(x[1], q)
    BY <2>3
  <2>5. x[1][<<1, c>>][1] = i /\ x[1][<<1, d>>][1] = j
    BY <1>3, <2>1, <2>2, <2>4
  <2> QED
    BY <2>1, <2>2, <2>4, <2>5
<1>6. \A x \in S : \E p \in OutcomePositions : x \in F[p]
  <2> SUFFICES ASSUME NEW d \in all, NEW c \in Condition, NEW x, x = <<d, c>>
               PROVE  \E p \in OutcomePositions : x \in F[p]
    OBVIOUS
  <2>1. d \in Draws(w) /\ Wins(d, Root)
    BY DEF Winners
  <2>2. PICK i : i = d[<<1, c>>][1]
    OBVIOUS
  <2>3. i \in Slots(c)
    BY <1>1, <2>1, <2>2, ConditionAssumption, DrawnSlot DEF Slots
  <2>4. PICK p : p = OutcomePosition(c, i)
    OBVIOUS
  <2>5. p \in OutcomePositions /\ p[1] = <<c, {i}>>
    BY <2>3, <2>4, OutcomePositionType, OutcomePositionLink
  <2>6. Wins(d, p)
    BY <1>3, <2>1, <2>2, <2>3, <2>4
  <2> QED
    BY <2>5, <2>6
<1>7. IsFiniteSet(S) /\ Cardinality(S) = Cardinality(all) * Cardinality(Condition)
  BY <1>1, <1>2, FS_Product
<1>8. Sizes(g, F, OutcomePositions, S)
  <2> HIDE DEF S, won
  <2> QED
    BY <1>4, <1>5, <1>6 DEF Sizes
<1> HIDE DEF S, F, g, all
<1>9. TotalOf(g) = Cardinality(S)
  BY <1>7, <1>8, TotalOfFamily
<1> QED
  BY <1>1, <1>2, <1>7, <1>9 DEF WorthOf, g

LEMMA SolventStart ==
    ASSUME ExInit, FundsInv, ClaimsInv
    PROVE  SolventButForIssues
<1> SUFFICES ASSUME NEW w \in Worlds PROVE Owed(w) <= Backing(w)
  BY DEF SolventButForIssues
<1> DEFINE sets == TotalOf(SetsHeld)
           size == Cardinality(Condition)
<1>1. w \in World /\ \A c \in Condition : Len(w[c]) = SlotCount[c]
  <2>1. IInv
    BY DEF FundsInv
  <2>2. ASSUME NEW c \in Condition PROVE Len(w[c]) = SlotCount[c]
    BY <2>1, WorldFits
  <2> QED
    BY <2>2 DEF Worlds
<1>2. PICK W : W = Worth[w]
  OBVIOUS
<1>3. /\ IsFiniteSet(Position) /\ W[Root] \in Nat
      /\ \A p \in Position : W[p] \in Nat
      /\ Owed(w) = OwedBy(supply, W)
  BY <1>1, <1>2, BackingTyped
<1>4. IsFiniteSet(Condition) /\ sets \in Nat /\ size \in Nat
  <2>1. IsFiniteSet(Address)
    BY CtfAssumption DEF CtfAssumption
  <2> QED
    BY <2>1, ExchangeAssumption, TotalType, FS_CardinalityType
<1>5. OutcomePositions \in SUBSET Position
  BY OutcomeIsPosition
<1>6. PICK none : none = [p \in Position |-> 0]
  OBVIOUS
<1>7. supply = SupplyUp(none, OutcomePositions, sets)
  <2>1. /\ balance = [p \in Position |->
                IF p \in OutcomePositions THEN SetsHeld ELSE [a \in Address |-> 0]]
        /\ supply = [p \in Position |-> TotalOf(balance[p])]
    BY DEF ExInit
  <2>2. TotalOf([a \in Address |-> 0]) = 0
    BY EmptyTotal
  <2> QED
    BY <1>4, <1>6, <2>1, <2>2 DEF SupplyUp
<1> HIDE DEF sets, size
<1>8. OwedBy(none, W) = 0
  <2>1. \A k \in Nat : 0 * k = 0
    OBVIOUS
  <2>2. [p \in Position |-> none[p] * W[p]] = [p \in Position |-> 0]
    BY <1>3, <1>6, <2>1
  <2> QED
    BY <2>2, EmptyTotal DEF OwedBy
<1>9. OwedBy(SupplyUp(none, OutcomePositions, sets), W) =
        OwedBy(none, W) + sets * WorthOf(OutcomePositions, W)
  <2>1. none \in [Position -> Nat]
    BY <1>6
  <2> QED
    BY <1>3, <1>4, <1>5, <2>1, OwedUp
<1>10. WorthOf(OutcomePositions, W) = size * W[Root]
  BY <1>1, <1>2, AllOutcomesWorth DEF size
<1>11. PICK r \in Nat : r = W[Root]
  BY <1>3
<1>12. Owed(w) = (size * sets) * r
  <2>1. size * r \in Nat /\ sets * (size * r) = (size * sets) * r
    BY <1>4, ProductType
  <2>2. sets * (size * r) \in Nat
    BY <1>4, <2>1, ProductType
  <2> QED
    BY <1>3, <1>7, <1>8, <1>9, <1>10, <1>11, <2>1, <2>2
<1>13. PICK f \in Nat : usdc[CtfContract] = f + size * sets
  <2>1. CtfContract \in Address /\ Funding[CtfContract] \in Nat
    BY CtfAssumption DEF CtfAssumption
  <2> QED
    BY <2>1 DEF ExInit, size, sets
<1>14. TotalOf(issued) = 0
  BY EmptyTotal DEF ExInit
<1>15. PICK k \in Nat : k = size * sets
  BY <1>4, ProductType
<1>16. Backing(w) = (f + k) * r
  BY <1>2, <1>11, <1>13, <1>14, <1>15 DEF Backing
<1>17. (f + k) * r = f * r + k * r /\ f * r \in Nat /\ k * r \in Nat
  BY Distributed, ProductType
<1> QED
  BY <1>12, <1>15, <1>16, <1>17

LEMMA ClaimsStart == ExInit => ClaimsInv
BY DEF ExInit, ClaimsInv, PayoutsAreSums, Resolved

LEMMA SolventInvariance ==
    ASSUME FundsOfTheirOwn
    PROVE  ExSpec => [](FundsInv /\ ClaimsInv /\ SolventButForIssues)
<1>1. ExInit /\ FundsInv => ClaimsInv /\ SolventButForIssues
  BY ClaimsStart, SolventStart
<1>2. ExInv /\ FundsInv /\ ClaimsInv /\ SolventButForIssues /\ [ExNext]_exVars
        => ClaimsInv' /\ SolventButForIssues'
  BY ClaimsStep, SolventStep
<1> QED
  BY <1>1, <1>2, FundsInvariance, PTL DEF ExSpec

\* However the conditions resolve, the collateral in the CTF contract and the sets that
\* the exchange issued pay all positions: no fill, match, merge, trade with the pool,
\* redemption or report takes more, before or after any condition is resolved.
THEOREM SolvencyButForIssues ==
    ASSUME FundsOfTheirOwn
    PROVE  ExSpec => []SolventButForIssues
BY SolventInvariance, PTL

\* Every condition can resolve in some way.
SomePayout == \A c \in Condition : Shares(c) # {}

LEMMA SomeWorld ==
    ASSUME ClaimsInv, SomePayout
    PROVE  \E w \in World : w \in Worlds
<1> DEFINE w == [c \in Condition |-> IF Resolved(c) THEN numerators[c]
                                                   ELSE CHOOSE v \in Shares(c) : TRUE]
<1>1. ASSUME NEW c \in Condition
      PROVE  w[c] \in Shares(c) /\ (Resolved(c) => w[c] = numerators[c])
  BY DEF ClaimsInv, SomePayout
<1>2. w \in World
  BY <1>1 DEF World
<1>3. w \in Worlds
  BY <1>1, <1>2 DEF Worlds
<1> QED
  BY <1>2, <1>3

\* In every world there is a way to draw.
LEMMA RootWorth ==
    ASSUME NEW w \in World
    PROVE  Worth[w][Root] \in Nat \ {0}
<1>1. Root \in Collections
  BY RootType, CtfAssumption
<1>2. /\ IsFiniteSet(Winners(w, Root)) /\ Worth[w][Root] = Cardinality(Winners(w, Root))
      /\ Worth[w][Root] \in Nat
  BY <1>1, ConditionAssumption, CtfAssumption, SolvencyAssumption, WorthType
<1> DEFINE d == [x \in Levels \X Condition |-> CHOOSE u \in Units(w[x[2]]) : TRUE]
<1>3. ASSUME NEW c \in Condition PROVE Units(w[c]) # {}
  <2>1. TotalOf(w[c]) # 0
    BY DEF World, Shares
  <2> QED
    BY <2>1, FS_EmptySet DEF TotalOf
<1>4. \A k \in Levels, c \in Condition : d[<<k, c>>] \in Units(w[c])
  BY <1>3
<1>5. d \in [Levels \X Condition -> UNION {Units(w[c]) : c \in Condition}]
  BY <1>3
<1>6. d \in Draws(w)
  <2> HIDE DEF d
  <2> QED
    BY <1>4, <1>5 DEF Draws
<1> HIDE DEF d
<1>7. DOMAIN Root = {}
  BY DEF Root
<1>8. d \in Winners(w, Root)
  BY <1>6, <1>7 DEF Winners, Wins
<1> QED
  BY <1>2, <1>8, FS_EmptySet

\* What is owed on one condition is part of what is owed.
LEMMA PartOwed ==
    ASSUME FundsInv, NEW w \in World, NEW c \in Condition
    PROVE  /\ TotalOf([i \in Slots(c) |-> supply[OutcomePosition(c, i)]
                                            * Worth[w][OutcomePosition(c, i)]]) <= Owed(w)
           /\ \A i \in Slots(c) : supply[OutcomePosition(c, i)]
                                    * Worth[w][OutcomePosition(c, i)] \in Nat
<1> DEFINE at(i) == OutcomePosition(c, i)
           P == {at(i) : i \in Slots(c)}
           e == [p \in Position |-> supply[p] * Worth[w][p]]
           part == [p \in Position |-> IF p \in P THEN e[p] ELSE 0]
           own == [p \in P |-> e[p]]
           h == [i \in Slots(c) |-> supply[at(i)] * Worth[w][at(i)]]
           name == [i \in Slots(c) |-> at(i)]
<1>1. IsFiniteSet(Position) /\ IsFiniteSet(Slots(c))
  BY BackingTyped, SlotsFinite, ConditionAssumption
<1>2. \A i \in Slots(c) : at(i) \in Position
  BY OutcomePositionType
<1>3. e \in [Position -> Nat]
  <2>1. \A p \in Position : supply[p] \in Nat /\ Worth[w][p] \in Nat
    BY BackingTyped, CoverTyped
  <2> QED
    BY <2>1, ProductType
<1>4. P \in SUBSET Position
  BY <1>2
<1>5. part \in [Position -> Nat] /\ own \in [P -> Nat] /\ h \in [Slots(c) -> Nat]
      /\ \A i \in Slots(c) : h[i] = e[at(i)]
  <2>1. \A i \in Slots(c) : h[i] = e[at(i)]
    BY <1>2
  <2> HIDE DEF e, P
  <2>2. part \in [Position -> Nat] /\ own \in [P -> Nat]
    BY <1>3, <1>4
  <2>3. \A i \in Slots(c) : h[i] \in Nat
    BY <1>2, <1>3, <2>1
  <2> QED
    BY <2>1, <2>2, <2>3
<1>6. TotalOf(part) <= TotalOf(e)
  <2>1. \A p \in Position : part[p] <= e[p]
    <3> HIDE DEF e, P
    <3> QED
      BY <1>3
  <2> HIDE DEF part, e
  <2> QED
    BY <1>1, <1>3, <1>5, <2>1, TotalMonotone
<1>7. TotalOf(part) = TotalOf(own)
  <2>1. /\ \A p \in Position \ P : part[p] = 0
        /\ \A p \in P : own[p] = part[p]
    BY <1>4
  <2> HIDE DEF part, own, P
  <2> QED
    BY <1>4, <1>5, <2>1, TotalRestricted
<1>8. TotalOf(h) = TotalOf(own)
  <2>1. /\ name \in [Slots(c) -> P]
        /\ \A p \in P : \E i \in Slots(c) : name[i] = p
    OBVIOUS
  <2>2. \A i, j \in Slots(c) : name[i] = name[j] => i = j
    BY OutcomePositionsDiffer
  <2>3. \A i \in Slots(c) : h[i] = own[name[i]]
    BY <1>5
  <2> HIDE DEF h, own, name, P
  <2>4. Renamed(h, own, name, Slots(c), P)
    BY <1>5, <2>1, <2>2, <2>3 DEF Renamed
  <2> QED
    BY <1>1, <2>4, TotalRenamed
<1>9. TotalOf(e) \in Nat /\ TotalOf(h) \in Nat
  <2> HIDE DEF e, h
  <2> QED
    BY <1>1, <1>3, <1>5, TotalType
<1>10. TotalOf(h) <= TotalOf(e)
  BY <1>6, <1>7, <1>8
<1>11. Owed(w) = TotalOf(e)
  BY DEF Owed
<1> QED
  BY <1>5, <1>10, <1>11

LEMMA ResolvedClaims ==
    ASSUME FundsInv, ClaimsInv, SolventButForIssues, SomePayout,
           NEW c \in Condition, Resolved(c)
    PROVE  Claims(c) <= (usdc[CtfContract] + TotalOf(issued)) * denominator[c]
<1>1. PICK w \in World : w \in Worlds
  BY SomeWorld
<1>2. IInv /\ Len(w[c]) = SlotCount[c] /\ w[c] = numerators[c]
  <2>1. IInv
    BY DEF FundsInv
  <2> QED
    BY <1>1, <2>1, WorldFits
<1>3. PICK r \in Nat \ {0} : r = Worth[w][Root]
  BY RootWorth
<1> DEFINE at(i) == OutcomePosition(c, i)
           f == [i \in Slots(c) |-> supply[at(i)] * numerators[c][i]]
           h == [i \in Slots(c) |-> supply[at(i)] * Worth[w][at(i)]]
           k == [i \in Slots(c) |-> r * f[i]]
<1>4. PICK den \in Nat : den = denominator[c] /\ den = TotalOf(w[c])
  <2>1. denominator[c] \in Nat
    BY <1>2 DEF IInv, TypeOK, ConditionTypeOK
  <2> QED
    BY <1>2, <2>1 DEF ClaimsInv, PayoutsAreSums
<1>5. PICK x \in Nat : x = usdc[CtfContract] + TotalOf(issued)
  BY BackingTyped
<1>6. Owed(w) <= x * r
  BY <1>1, <1>3, <1>5 DEF SolventButForIssues, Backing
<1>7. TotalOf(h) <= Owed(w) /\ h \in [Slots(c) -> Nat]
  BY PartOwed
<1>8. IsFiniteSet(Slots(c))
  BY SlotsFinite, ConditionAssumption
<1>9. ASSUME NEW i \in Slots(c)
      PROVE  /\ f[i] \in Nat /\ k[i] \in Nat
             /\ k[i] = r * f[i] /\ k[i] = den * h[i]
  <2>1. PICK s \in Nat, v \in Nat, m \in Nat :
           s = supply[at(i)] /\ v = Worth[w][at(i)] /\ m = numerators[c][i]
    <3>1. at(i) \in Position
      BY OutcomePositionType
    <3>2. numerators[c] \in [1..SlotCount[c] -> Nat]
      BY <1>2, ConditionAssumption, WorldType
    <3>3. supply[at(i)] \in Nat /\ Worth[w][at(i)] \in Nat
      BY <3>1, BackingTyped, CoverTyped
    <3> QED
      BY <3>2, <3>3 DEF Slots
  <2>2. v * den = r * m
    <3>1. PICK S \in SUBSET Slots(c) : S = {i}
      OBVIOUS
    <3>2. Worth[w][Child(Root, c, S)] * TotalOf(w[c]) =
            Worth[w][Root] * TotalOf([j \in S |-> w[c][j]])
      <4>1. S # {} /\ Root \in Parents /\ Len(w[c]) = SlotCount[c]
        BY <1>2, <3>1, RootIsParent
      <4> QED
        BY <4>1, ConditionAssumption, CtfAssumption, SolvencyAssumption, ChildShare
    <3>3. TotalOf([j \in {i} |-> w[c][j]]) = m
      <4>1. [j \in {i} |-> w[c][j]] = [j \in {i} |-> m]
        BY <1>2, <2>1
      <4>2. IsFiniteSet({i}) /\ Cardinality({i}) = 1
        BY FS_Singleton
      <4>3. TotalOf([j \in {i} |-> m]) = 1 * m
        BY <4>2, ConstTotal
      <4> QED
        BY <4>1, <4>3
    <3> QED
      BY <1>3, <1>4, <2>1, <3>1, <3>2, <3>3 DEF OutcomePosition
  <2>3. /\ s * m \in Nat /\ r * (s * m) \in Nat
        /\ r * (s * m) = s * (r * m) /\ s * (v * den) = den * (s * v)
    BY ProductType
  <2>4. f[i] = s * m /\ h[i] = s * v /\ k[i] = r * (s * m)
    BY <2>1
  <2> QED
    BY <2>2, <2>3, <2>4
<1>10. f \in [Slots(c) -> Nat] /\ k \in [Slots(c) -> Nat]
  BY <1>9
<1>11. TotalOf(k) = r * TotalOf(f) /\ TotalOf(k) = den * TotalOf(h)
  <2>1. Multiple(k, r, f, Slots(c)) /\ Multiple(k, den, h, Slots(c))
    <3> HIDE DEF f, h, k
    <3> QED
      BY <1>7, <1>9, <1>10 DEF Multiple
  <2> HIDE DEF f, h, k
  <2> QED
    BY <1>3, <1>4, <1>8, <2>1, TotalScaled
<1>12. PICK a \in Nat, b \in Nat : a = TotalOf(f) /\ b = TotalOf(h)
  <2> HIDE DEF f, h
  <2> QED
    BY <1>7, <1>8, <1>10, TotalType
<1> HIDE DEF f, h, k
<1>13. PICK o \in Nat : o = Owed(w)
  BY BackingTyped
<1>14. b <= x * r /\ r * a = den * b
  <2>1. x * r \in Nat
    BY ProductType
  <2> QED
    BY <1>6, <1>7, <1>11, <1>12, <1>13, <2>1
<1>15. a <= x * den
  <2>1. PICK y \in Nat : y = x * r
    BY ProductType
  <2>2. b * den <= y * den
    BY <1>14, <2>1, ScaleUpWeak
  <2>3. y * den = (x * den) * r /\ b * den = den * b /\ r * a = a * r
    BY <2>1
  <2>4. PICK z \in Nat : z = x * den
    BY ProductType
  <2>5. a * r <= z * r
    BY <1>14, <2>2, <2>3, <2>4
  <2>6. ~(z < a)
    BY <2>5, ScaleUp
  <2> QED
    BY <2>4, <2>6
<1> QED
  BY <1>4, <1>5, <1>12, <1>15 DEF Claims, f

\* When the CTF contract has no collateral of other origin, only the sets that the
\* exchange issued can be missing: the outcomes of an open condition are covered alike,
\* and the tokens of a resolved one are due no more than the collateral and those sets.
\* Payouts bounds the vectors a report handler takes: that it has one for each
\* condition says that every condition can resolve.
THEOREM OutcomesCovered ==
    ASSUME FundsOfTheirOwn, SomePayout
    PROVE  ExSpec => []EveryOutcomeIsCovered
<1>1. FundsInv /\ ClaimsInv /\ SolventButForIssues => ResolvedOutcomesCovered
  BY ResolvedClaims DEF ResolvedOutcomesCovered
<1>2. OpenOutcomesCovered /\ ResolvedOutcomesCovered => EveryOutcomeIsCovered
  BY DEF EveryOutcomeIsCovered
<1> QED
  BY <1>1, <1>2, OpenCovered, SolventInvariance, PTL

-----------------------------------------------------------------------------
(* The pool never loses by trading *)

Stock(b, x) == [p \in OutcomePositions |-> b[p][ExchangeContract] * x[p]]

LEMMA StockType ==
    ASSUME FundsInv
    PROVE  Stock(balance, price) \in [OutcomePositions -> Nat]
<1>1. \A p \in OutcomePositions : balance[p][ExchangeContract] \in Nat /\ price[p] \in Nat
  BY OutcomeIsPosition, Accounts DEF FundsInv, IInv, TypeOK
<1> QED
  BY <1>1, ProductType DEF Stock

LEMMA StockLess ==
    ASSUME FundsInv, NEW b, NEW p \in OutcomePositions, NEW n \in Nat,
           n <= balance[p][ExchangeContract],
           b[p][ExchangeContract] = balance[p][ExchangeContract] + (0 - n),
           \A q \in Position : q # p => b[q][ExchangeContract] = balance[q][ExchangeContract]
    PROVE  /\ n * price[p] <= TotalOf(Stock(balance, price))
           /\ TotalOf(Stock(b, price)) = TotalOf(Stock(balance, price)) - n * price[p]
<1> DEFINE f == Stock(balance, price)
           m == n * price[p]
<1>1. /\ balance[p][ExchangeContract] \in Nat /\ price[p] \in Nat
      /\ f[p] = balance[p][ExchangeContract] * price[p]
  BY OutcomeIsPosition, Accounts DEF FundsInv, IInv, TypeOK, Stock
<1>2. m \in Nat
  BY <1>1, ProductType
<1>3. Stock(b, price)[p] = f[p] - m /\ m <= f[p]
  <2> DEFINE r == balance[p][ExchangeContract] + (0 - n)
             w == price[p]
  <2>1. r \in Nat /\ w \in Nat /\ balance[p][ExchangeContract] = r + n
    BY <1>1
  <2>2. Stock(b, price)[p] = r * w
    BY DEF Stock
  <2>3. f[p] = (r + n) * w
    BY <1>1, <2>1
  <2> HIDE DEF r, w, f
  <2>4. (r + n) * w = r * w + n * w /\ r * w \in Nat /\ n * w \in Nat
    BY <2>1, Distributed, ProductType
  <2> QED
    BY <2>2, <2>3, <2>4 DEF w
<1>4. Stock(b, price) = Debit(f, p, m)
  <2>1. \A q \in OutcomePositions : q # p => Stock(b, price)[q] = f[q]
    BY OutcomeIsPosition DEF Stock
  <2>2. Debit(f, p, m) = [q \in OutcomePositions |-> IF q = p THEN f[p] - m ELSE f[q]]
    BY DEF Debit, Stock
  <2>3. Stock(b, price) = [q \in OutcomePositions |-> Stock(b, price)[q]]
    BY DEF Stock
  <2> HIDE DEF f, m
  <2> QED
    BY <1>3, <2>1, <2>2, <2>3
<1>5. f \in [OutcomePositions -> Nat] /\ IsFiniteSet(OutcomePositions)
  BY StockType, OutcomePositionsFinite
<1> HIDE DEF f, m
<1>6. m <= TotalOf(f) /\ TotalOf(Debit(f, p, m)) = TotalOf(f) - m
  BY <1>2, <1>3, <1>5, DebitTotal
<1> QED
  BY <1>4, <1>6 DEF f, m

LEMMA StockMore ==
    ASSUME FundsInv, NEW b, NEW p \in OutcomePositions, NEW n \in Nat,
           b[p][ExchangeContract] = balance[p][ExchangeContract] + n,
           \A q \in Position : q # p => b[q][ExchangeContract] = balance[q][ExchangeContract]
    PROVE  TotalOf(Stock(b, price)) = TotalOf(Stock(balance, price)) + n * price[p]
<1> DEFINE f == Stock(balance, price)
           m == n * price[p]
<1>1. /\ balance[p][ExchangeContract] \in Nat /\ price[p] \in Nat
      /\ f[p] = balance[p][ExchangeContract] * price[p]
  BY OutcomeIsPosition, Accounts DEF FundsInv, IInv, TypeOK, Stock
<1>2. m \in Nat
  BY <1>1, ProductType
<1>3. Stock(b, price)[p] = f[p] + m
  <2> DEFINE r == balance[p][ExchangeContract]
             w == price[p]
  <2>1. r \in Nat /\ w \in Nat /\ f[p] = r * w
    BY <1>1
  <2>2. Stock(b, price)[p] = (r + n) * w
    BY DEF Stock
  <2> HIDE DEF r, w, f
  <2>3. (r + n) * w = r * w + n * w
    BY <2>1, Distributed
  <2> QED
    BY <2>1, <2>2, <2>3 DEF w
<1>4. Stock(b, price) = Credit(f, p, m)
  <2>1. \A q \in OutcomePositions : q # p => Stock(b, price)[q] = f[q]
    BY OutcomeIsPosition DEF Stock
  <2>2. Credit(f, p, m) = [q \in OutcomePositions |-> IF q = p THEN f[p] + m ELSE f[q]]
    BY DEF Credit, Stock
  <2>3. Stock(b, price) = [q \in OutcomePositions |-> Stock(b, price)[q]]
    BY DEF Stock
  <2> HIDE DEF f, m
  <2> QED
    BY <1>3, <2>1, <2>2, <2>3
<1>5. f \in [OutcomePositions -> Nat] /\ IsFiniteSet(OutcomePositions)
  BY StockType, OutcomePositionsFinite
<1> HIDE DEF f, m
<1>6. TotalOf(Credit(f, p, m)) = TotalOf(f) + m
  BY <1>2, <1>5, CreditTotal
<1> QED
  BY <1>4, <1>6 DEF f, m

LEMMA WorthTyped ==
    ASSUME FundsInv
    PROVE  /\ usdc[ExchangeContract] \in Nat /\ FullRate \in Nat \ {0}
           /\ TotalOf(Stock(balance, price)) \in Nat
           /\ PoolWorth = usdc[ExchangeContract] * FullRate + TotalOf(Stock(balance, price))
<1>1. usdc[ExchangeContract] \in Nat /\ FullRate \in Nat \ {0}
  BY Accounts, OrdersAssumption DEF FundsInv, IInv, TypeOK
<1>2. TotalOf(Stock(balance, price)) \in Nat
  BY StockType, OutcomePositionsFinite, TotalType
<1> QED
  BY <1>1, <1>2 DEF PoolWorth, Stock

LEMMA BuyNeverLoses ==
    ASSUME FundsInv, NEW c \in Condition, NEW i \in Slots(c), NEW a \in Traders, NEW n \in Nat,
           BuyOutcome(a, c, i, n)
    PROVE  PoolWorth' >= PoolWorth
<1>1. PICK p : p = OutcomePosition(c, i)
  OBVIOUS
<1>2. PICK tokens : tokens = TokensFor(n, price[p])
  OBVIOUS
<1>3. /\ price[p] \in Nat \ {0} /\ tokens \in Nat
      /\ tokens <= balance[p][ExchangeContract] /\ Traded(p, n, 0 - tokens)
  BY <1>1, <1>2, FundsBuy
<1>4. p \in OutcomePositions
  BY <1>1, OutcomePositionType
<1>5. price' = price
  BY DEF BuyOutcome, Commit
<1>6. tokens * price[p] <= n * FullRate
  BY <1>2, <1>3, PoolQuotesFavourThePool
<1>7. /\ tokens * price[p] <= TotalOf(Stock(balance, price))
      /\ TotalOf(Stock(balance', price)) = TotalOf(Stock(balance, price)) - tokens * price[p]
  <2>1. PICK b : b = balance'
    OBVIOUS
  <2> QED
    BY <1>3, <1>4, <2>1, StockLess DEF Traded
<1>8. PoolWorth' = (usdc[ExchangeContract] + n) * FullRate + TotalOf(Stock(balance', price))
  BY <1>3, <1>5 DEF PoolWorth, Stock, Traded
<1> DEFINE stock == TotalOf(Stock(balance, price))
           left  == TotalOf(Stock(balance', price))
           paid  == tokens * price[p]
           u     == usdc[ExchangeContract]
<1>9. /\ u \in Nat /\ FullRate \in Nat /\ stock \in Nat /\ paid \in Nat
      /\ PoolWorth = u * FullRate + stock
  BY <1>3, WorthTyped, ProductType
<1> HIDE DEF stock, left, paid, u
<1>10. left = stock - paid /\ paid <= n * FullRate /\ PoolWorth' = (u + n) * FullRate + left
  BY <1>6, <1>7, <1>8 DEF stock, left, paid, u
<1>11. (u + n) * FullRate = u * FullRate + n * FullRate /\ u * FullRate \in Nat /\ n * FullRate \in Nat
  BY <1>9, Distributed, ProductType
<1> QED
  BY <1>9, <1>10, <1>11

LEMMA SellNeverLoses ==
    ASSUME FundsInv, NEW c \in Condition, NEW i \in Slots(c), NEW a \in Traders, NEW n \in Nat,
           SellOutcome(a, c, i, n)
    PROVE  PoolWorth' >= PoolWorth
<1>1. PICK p : p = OutcomePosition(c, i)
  OBVIOUS
<1>2. PICK due : due = UsdcFor(n, price[p])
  OBVIOUS
<1>3. /\ price[p] \in Nat \ {0} /\ due \in Nat
      /\ due <= usdc[ExchangeContract] /\ Traded(p, 0 - due, n)
  BY <1>1, <1>2, FundsSell
<1>4. p \in OutcomePositions
  BY <1>1, OutcomePositionType
<1>5. price' = price
  BY DEF SellOutcome, Commit
<1>6. due * FullRate <= n * price[p]
  BY <1>2, <1>3, PoolQuotesFavourThePool
<1>7. TotalOf(Stock(balance', price)) = TotalOf(Stock(balance, price)) + n * price[p]
  <2>1. PICK b : b = balance'
    OBVIOUS
  <2> QED
    BY <1>3, <1>4, <2>1, StockMore DEF Traded
<1>8. PoolWorth' = (usdc[ExchangeContract] + (0 - due)) * FullRate + TotalOf(Stock(balance', price))
  BY <1>3, <1>5 DEF PoolWorth, Stock, Traded
<1> DEFINE stock == TotalOf(Stock(balance, price))
           more  == TotalOf(Stock(balance', price))
           sold  == n * price[p]
           u     == usdc[ExchangeContract]
           e     == u + (0 - due)
<1>9. /\ u \in Nat /\ FullRate \in Nat /\ stock \in Nat /\ sold \in Nat
      /\ PoolWorth = u * FullRate + stock
  BY <1>3, WorthTyped, ProductType
<1>10. e \in Nat /\ u = e + due
  BY <1>3, <1>9
<1> HIDE DEF stock, more, sold, u, e
<1>11. more = stock + sold /\ due * FullRate <= sold /\ PoolWorth' = e * FullRate + more
  BY <1>6, <1>7, <1>8 DEF stock, more, sold, u, e
<1>12. (e + due) * FullRate = e * FullRate + due * FullRate
       /\ e * FullRate \in Nat /\ due * FullRate \in Nat
  BY <1>3, <1>9, <1>10, Distributed, ProductType
<1> QED
  BY <1>9, <1>10, <1>11, <1>12

\* Tokens and collateral of the pool move together in trades alone.
LEMMA NoTrade ==
    ASSUME FundsInv,
           \/ usdc'[ExchangeContract] = usdc[ExchangeContract] /\ FundsInv'
           \/ /\ FundsInv'
              /\ \A p \in OutcomePositions :
                    balance'[p][ExchangeContract] = balance[p][ExchangeContract]
    PROVE  ~PoolTrade
<1>1. /\ usdc[ExchangeContract] \in Nat /\ usdc'[ExchangeContract] \in Nat
      /\ \A p \in OutcomePositions : /\ balance[p][ExchangeContract] \in Nat
                                     /\ balance'[p][ExchangeContract] \in Nat
  BY OutcomeIsPosition, Accounts DEF FundsInv, IInv, TypeOK
<1>2. \A x \in Int : 0 * x = 0 /\ x * 0 = 0
  OBVIOUS
<1> DEFINE collateral == usdc'[ExchangeContract] - usdc[ExchangeContract]
           tokens(p)  == balance'[p][ExchangeContract] - balance[p][ExchangeContract]
<1>3. collateral \in Int /\ \A p \in OutcomePositions : tokens(p) \in Int
  BY <1>1
<1>4. collateral = 0 \/ \A p \in OutcomePositions : tokens(p) = 0
  BY <1>1
<1> HIDE DEF collateral, tokens
<1>5. \A p \in OutcomePositions : collateral * tokens(p) = 0
  BY <1>2, <1>3, <1>4
<1> QED
  BY <1>5 DEF PoolTrade, collateral, tokens

LEMMA TradeStep ==
    ASSUME ExInv, FundsInv, [ExNext]_exVars, PoolTrade
    PROVE  PoolWorth' >= PoolWorth
<1>1. FundsInv'
  BY FundsStep
<1>2. CASE OrderNext
  BY <1>1, <1>2, PoolLeftAlone, NoTrade
<1>3. CASE PoolNext
  <2>1. \A n \in Fills : n \in Nat
    BY DEF Fills
  <2>2. ASSUME NEW c \in Condition, NEW i \in Slots(c), NEW x \in Prices, SetPrice(c, i, x)
        PROVE  usdc' = usdc
    BY <2>2 DEF SetPrice, vars, ledgerVars
  <2>3. ASSUME NEW c \in Condition, NEW i \in Slots(c), NEW a \in Traders, NEW n \in Fills,
               DepositInventory(a, c, i, n) \/ WithdrawInventory(c, i, n, a)
        PROVE  usdc' = usdc
    BY <2>1, <2>3, FundsInventory
  <2>4. ASSUME NEW a \in Traders, NEW n \in Fills,
               DepositCollateral(a, n) \/ WithdrawCollateral(n, a)
        PROVE  balance' = balance
    BY <2>1, <2>4, FundsCollateral
  <2>5. ASSUME NEW c \in Condition, NEW i \in Slots(c), NEW a \in Traders, NEW n \in Fills,
               BuyOutcome(a, c, i, n)
        PROVE  PoolWorth' >= PoolWorth
    BY <2>1, <2>5, BuyNeverLoses
  <2>6. ASSUME NEW c \in Condition, NEW i \in Slots(c), NEW a \in Traders, NEW n \in Fills,
               SellOutcome(a, c, i, n)
        PROVE  PoolWorth' >= PoolWorth
    BY <2>1, <2>6, SellNeverLoses
  <2>7. usdc' = usdc \/ balance' = balance => ~PoolTrade
    BY <1>1, NoTrade
  <2> QED
    BY <1>3, <2>2, <2>3, <2>4, <2>5, <2>6, <2>7 DEF PoolNext
<1>4. CASE CtfStep
  BY <1>1, <1>4, FundsCtf, NoTrade DEF ExchangeAlone
<1>5. CASE ExAdminNext \/ (SurroundingsNext /\ ~CtfStep) \/ UNCHANGED exVars
  <2>1. UNCHANGED vars
    BY <1>5, FundsOther
  <2> QED
    BY <1>1, <2>1, NoTrade DEF vars, ledgerVars
<1> QED
  BY <1>2, <1>3, <1>4, <1>5 DEF ExNext, SurroundingsNext

\* Whatever the prices and amounts, a trade with the pool leaves it worth at least as
\* much: it hands over what one side's rounding allows, and only trades move its
\* collateral and its tokens at once.
THEOREM PoolKeepsItsWorth == ExSpec => PoolNeverLosesByTrading
<1>1. ExInv /\ FundsInv /\ [ExNext]_exVars => [PoolTrade => PoolWorth' >= PoolWorth]_exVars
  BY TradeStep
<1> QED
  BY <1>1, FundsInvariance, PTL DEF ExSpec, PoolNeverLosesByTrading

-----------------------------------------------------------------------------
(* The accounts that no order of a call names *)

\* The accounts that are neither of the contracts nor among A.
Bystanders(A) == Address \ ({ExchangeContract, CtfContract} \cup A)

\* Account a has in t what it has in s; the fee recipient may have more collateral.
Keeps(s, t, a) ==
    /\ t.allowance[a] = s.allowance[a]
    /\ \A p \in Position : t.balance[p][a] = s.balance[p][a]
    /\ s.usdc[a] <= t.usdc[a]
    /\ a # feeRecipient => t.usdc[a] = s.usdc[a]

\* Unless it panicked, what led from the books s to the books t touched only A and the
\* contracts.
Spares(s, t, A) ==
    /\ FundsTyped(t)
    /\ t.ok => s.ok /\ \A a \in Bystanders(A) : Keeps(s, t, a)

LEMMA StillSpares ==
    ASSUME NEW s, FundsTyped(s), NEW A
    PROVE  Spares(s, s, A)
<1>1. \A a \in Address : s.usdc[a] <= s.usdc[a]
  BY DEF FundsTyped
<1> QED
  BY <1>1 DEF Spares, Keeps, Bystanders

LEMMA PanicSpares ==
    ASSUME NEW s, FundsTyped(s), NEW t, t = Panic(s), NEW A
    PROVE  Spares(s, t, A)
BY PanicFunds DEF Spares

LEMMA SparesTransitive ==
    ASSUME NEW s, FundsTyped(s), NEW t, NEW u, NEW A, NEW B, A \subseteq B,
           Spares(s, t, A), Spares(t, u, B)
    PROVE  Spares(s, u, B)
<1>1. /\ s.usdc \in [Address -> Nat] /\ t.usdc \in [Address -> Nat]
      /\ u.usdc \in [Address -> Nat] /\ FundsTyped(u)
  BY DEF Spares, FundsTyped
<1>2. ASSUME u.ok, NEW a \in Bystanders(B) PROVE Keeps(s, u, a)
  <2>1. a \in Bystanders(A) /\ a \in Address
    BY DEF Bystanders
  <2>2. Keeps(t, u, a) /\ t.ok
    BY <1>2 DEF Spares
  <2>3. Keeps(s, t, a)
    BY <2>1, <2>2 DEF Spares
  <2>4. s.usdc[a] <= u.usdc[a]
    BY <1>1, <2>1, <2>2, <2>3 DEF Keeps
  <2> QED
    BY <2>2, <2>3, <2>4 DEF Keeps
<1>3. u.ok => s.ok
  BY DEF Spares
<1> QED
  BY <1>1, <1>2, <1>3 DEF Spares

\* A payment, allowance or none, from and to the accounts of A, a contract or the fee
\* recipient, who only receives.
LEMMA PaymentKeeps ==
    ASSUME NEW s, FundsTyped(s), NEW A, NEW from \in Address, NEW to \in Address, NEW n \in Nat,
           from \in A \cup {ExchangeContract, CtfContract},
           to \in A \cup {ExchangeContract, CtfContract, feeRecipient},
           from = to \/ n <= s.usdc[from],
           NEW t, FundsTyped(t), t.usdc = Move(s.usdc, from, to, n), t.balance = s.balance,
           t.allowance = s.allowance \/ t.allowance = Debit(s.allowance, from, n),
           NEW a \in Bystanders(A)
    PROVE  Keeps(s, t, a)
<1>1. a \in Address /\ a # from /\ (a # feeRecipient => a # to)
  BY DEF Bystanders
<1>2. s.usdc[a] \in Nat /\ s.allowance \in [Address -> Nat]
  BY <1>1 DEF FundsTyped
<1>3. t.usdc[a] = s.usdc[a] + (IF a = to THEN n ELSE 0) - (IF a = from THEN n ELSE 0)
  <2>1. PICK u : u = Move(s.usdc, from, to, n)
    OBVIOUS
  <2>2. \A b \in Address : u[b] =
            s.usdc[b] + (IF b = to THEN n ELSE 0) - (IF b = from THEN n ELSE 0)
    BY <2>1, MoveIn
  <2> QED
    BY <1>1, <2>1, <2>2
<1>4. s.usdc[a] <= t.usdc[a] /\ (a # feeRecipient => t.usdc[a] = s.usdc[a])
  BY <1>1, <1>2, <1>3
<1>5. t.allowance[a] = s.allowance[a]
  BY <1>1, <1>2 DEF Debit
<1> QED
  BY <1>4, <1>5 DEF Keeps

LEMMA PullSpares ==
    ASSUME NEW s, FundsTyped(s), NEW A, NEW from \in Traders, from \in A,
           NEW to \in Address, to \in A \cup {ExchangeContract, CtfContract, feeRecipient},
           NEW n \in Nat, NEW t, t = Pull(s, from, to, n)
    PROVE  Spares(s, t, A)
<1>1. CASE t = Panic(s)
  BY <1>1, PanicSpares
<1>2. CASE t # Panic(s)
  <2>1. from \in Address
    BY Accounts
  <2>2. /\ (t.ok => s.ok) /\ FundsTyped(t)
        /\ t.usdc = Move(s.usdc, from, to, n) /\ (from = to \/ n <= s.usdc[from])
        /\ t.balance = s.balance /\ t.allowance = Debit(s.allowance, from, n)
    BY <1>2, <2>1, PullFunds
  <2>3. \A a \in Bystanders(A) : Keeps(s, t, a)
    BY <2>1, <2>2, PaymentKeeps
  <2> QED
    BY <2>2, <2>3 DEF Spares
<1> QED
  BY <1>1, <1>2

LEMMA PullIfAnySpares ==
    ASSUME NEW s, FundsTyped(s), NEW A, NEW from \in Traders, from \in A,
           NEW to \in Address, to \in A \cup {ExchangeContract, CtfContract, feeRecipient},
           NEW n \in Nat, NEW t, t = PullIfAny(s, from, to, n)
    PROVE  Spares(s, t, A)
BY PullSpares, StillSpares DEF PullIfAny

LEMMA PaySpares ==
    ASSUME NEW s, FundsTyped(s), NEW A, NEW to \in Address,
           to \in A \cup {ExchangeContract, CtfContract, feeRecipient},
           NEW n \in Nat, NEW t, t = Pay(s, to, n)
    PROVE  Spares(s, t, A)
<1>1. CASE t = Panic(s)
  BY <1>1, PanicSpares
<1>2. CASE t # Panic(s)
  <2>1. ExchangeContract \in Address
    BY Accounts
  <2>2. /\ (t.ok => s.ok) /\ FundsTyped(t)
        /\ t.usdc = Move(s.usdc, ExchangeContract, to, n)
        /\ (ExchangeContract = to \/ n <= s.usdc[ExchangeContract])
        /\ t.balance = s.balance /\ t.allowance = s.allowance
    BY <1>2, <2>1, TransferFunds DEF Pay
  <2>3. \A a \in Bystanders(A) : Keeps(s, t, a)
    BY <2>1, <2>2, PaymentKeeps
  <2> QED
    BY <2>2, <2>3 DEF Spares
<1> QED
  BY <1>1, <1>2

LEMMA PayIfAnySpares ==
    ASSUME NEW s, FundsTyped(s), NEW A, NEW to \in Address,
           to \in A \cup {ExchangeContract, CtfContract, feeRecipient},
           NEW n \in Nat, NEW t, t = PayIfAny(s, to, n)
    PROVE  Spares(s, t, A)
BY PaySpares, StillSpares DEF PayIfAny

\* A step that leaves a bystander's collateral and allowance alone keeps it, if it
\* keeps the tokens.
LEMMA TokensKeep ==
    ASSUME NEW s, FundsTyped(s), NEW t, t.usdc = s.usdc, t.allowance = s.allowance,
           NEW a \in Address, \A p \in Position : t.balance[p][a] = s.balance[p][a]
    PROVE  Keeps(s, t, a)
BY DEF Keeps, FundsTyped

\* A delivery: refused while the CTF contract is paused.
LEMMA GiveSpares ==
    ASSUME NEW s, FundsTyped(s), NEW A, NEW from \in Address, NEW to \in Address,
           from \in A \cup {ExchangeContract, CtfContract},
           to \in A \cup {ExchangeContract, CtfContract},
           NEW p \in Position, NEW n \in Nat, NEW t, t = Give(s, from, to, p, n)
    PROVE  Spares(s, t, A) /\ (t.ok => ~isPaused)
<1>1. CASE t = Panic(s)
  BY <1>1, PanicSpares, PanicFunds
<1>2. CASE t # Panic(s)
  <2>1. /\ (t.ok => s.ok) /\ FundsTyped(t) /\ n <= s.balance[p][from] /\ ~isPaused
        /\ t.balance = [s.balance EXCEPT ![p] = Move(s.balance[p], from, to, n)]
        /\ t.usdc = s.usdc /\ t.allowance = s.allowance
    BY <1>2, GiveFunds
  <2>2. ASSUME NEW a \in Bystanders(A) PROVE Keeps(s, t, a)
    <3>1. a \in Address /\ a # from /\ a # to
      BY DEF Bystanders
    <3>2. PICK f \in [Address -> Nat] : f = s.balance[p]
      BY DEF FundsTyped, Balanced
    <3>3. Move(f, from, to, n)[a] = f[a]
      BY <3>1 DEF Move, Credit, Debit
    <3>4. \A q \in Position : t.balance[q][a] = s.balance[q][a]
      BY <2>1, <3>2, <3>3 DEF FundsTyped, Balanced
    <3> QED
      BY <2>1, <3>1, <3>4, TokensKeep
  <2> QED
    BY <2>1, <2>2 DEF Spares
<1> QED
  BY <1>1, <1>2

LEMMA IssueSpares ==
    ASSUME NEW s, FundsTyped(s), NEW A, NEW to \in Address, to \in A,
           NEW p \in Position, NEW n \in Nat, NEW t, t = Issue(s, to, p, n)
    PROVE  Spares(s, t, A) /\ (t.ok => ~isPaused)
<1>1. CASE t = Panic(s)
  BY <1>1, PanicSpares, PanicFunds
<1>2. CASE t # Panic(s)
  <2>1. /\ (t.ok => s.ok) /\ FundsTyped(t)
        /\ t.balance = [s.balance EXCEPT ![p] = Credit(s.balance[p], to, n)]
        /\ t.supply = [s.supply EXCEPT ![p] = s.supply[p] + n]
        /\ t.usdc = s.usdc /\ t.allowance = s.allowance /\ ~isPaused
    BY <1>2, IssueFunds
  <2>2. ASSUME NEW a \in Bystanders(A) PROVE Keeps(s, t, a)
    <3>1. a \in Address /\ a # to
      BY DEF Bystanders
    <3>2. PICK f \in [Address -> Nat] : f = s.balance[p]
      BY DEF FundsTyped, Balanced
    <3>3. Credit(f, to, n)[a] = f[a]
      BY <3>1 DEF Credit
    <3>4. \A q \in Position : t.balance[q][a] = s.balance[q][a]
      BY <2>1, <3>2, <3>3 DEF FundsTyped, Balanced
    <3> QED
      BY <2>1, <3>1, <3>4, TokensKeep
  <2> QED
    BY <2>1, <2>2 DEF Spares
<1> QED
  BY <1>1, <1>2

LEMMA MergeSpares ==
    ASSUME NEW s, FundsTyped(s), NEW A, NEW c, NEW p \in Position, NEW q \in Position,
           NEW n \in Nat, NEW t, t = Merge(s, c, p, q, n)
    PROVE  Spares(s, t, A)
<1>1. CASE t = Panic(s)
  BY <1>1, PanicSpares
<1>2. CASE t # Panic(s)
  <2>1. /\ (t.ok => s.ok) /\ FundsTyped(t)
        /\ t.balance = Burned(s.balance, {p, q}, ExchangeContract, n)
        /\ t.usdc = Move(s.usdc, CtfContract, ExchangeContract, n)
        /\ n <= s.usdc[CtfContract] /\ t.allowance = s.allowance
    BY <1>2, MergeFunds
  <2>2. ASSUME NEW a \in Bystanders(A) PROVE Keeps(s, t, a)
    <3>1. /\ a \in Address /\ a # ExchangeContract /\ a # CtfContract
          /\ ExchangeContract \in Address /\ CtfContract \in Address
      BY Accounts DEF Bystanders
    <3>2. s.balance \in [Position -> [Address -> Nat]] /\ s.usdc \in [Address -> Nat]
      BY DEF FundsTyped, Balanced
    <3>3. ASSUME NEW x \in Position PROVE t.balance[x][a] = s.balance[x][a]
      <4>1. PICK f \in [Address -> Nat] : f = s.balance[x]
        BY <3>2
      <4>2. Debit(f, ExchangeContract, n)[a] = f[a]
        BY <3>1 DEF Debit
      <4> QED
        BY <2>1, <4>1, <4>2 DEF Burned
    <3>4. t.usdc[a] = s.usdc[a]
      <4>1. PICK u \in [Address -> Nat] : u = s.usdc
        BY <3>2
      <4>2. Move(u, CtfContract, ExchangeContract, n)[a] = u[a]
        BY <3>1 DEF Move, Credit, Debit
      <4> QED
        BY <2>1, <4>1, <4>2
    <3>5. s.usdc[a] <= t.usdc[a]
      BY <3>1, <3>2, <3>4
    <3>6. t.allowance[a] = s.allowance[a]
      BY <2>1
    <3> QED
      BY <3>3, <3>4, <3>5, <3>6 DEF Keeps
  <2> QED
    BY <2>1, <2>2 DEF Spares
<1> QED
  BY <1>1, <1>2

\* Two steps that spare the same accounts.
LEMMA SparesOn ==
    ASSUME NEW s, FundsTyped(s), NEW t, NEW u, NEW A, Spares(s, t, A), Spares(t, u, A)
    PROVE  Spares(s, u, A)
<1>1. A \subseteq A
  OBVIOUS
<1> QED
  BY <1>1, SparesTransitive

\* A settlement that delivered: the CTF contract was not paused.
Delivers(s, t, A) == Spares(s, t, A) /\ (t.ok => ~isPaused)

LEMMA DeliversOn ==
    ASSUME NEW s, FundsTyped(s), NEW t, NEW u, NEW A,
           \/ Spares(s, t, A) /\ Delivers(t, u, A)
           \/ Delivers(s, t, A) /\ Spares(t, u, A)
    PROVE  Delivers(s, u, A)
<1>1. Spares(s, t, A) /\ Spares(t, u, A)
  BY DEF Delivers
<1>2. Spares(s, u, A)
  BY <1>1, SparesOn
<1>3. u.ok => ~isPaused
  BY DEF Delivers, Spares
<1> QED
  BY <1>2, <1>3 DEF Delivers

LEMMA PanicDelivers ==
    ASSUME NEW s, FundsTyped(s), NEW t, t = Panic(s), NEW A
    PROVE  Delivers(s, t, A)
BY PanicFunds, PanicSpares DEF Delivers

LEMMA TradeDelivers ==
    ASSUME NEW s, FundsTyped(s), NEW o \in Order, o.makerAmount # 0, o.feeRate <= FullRate,
           o.condition \in Condition, o.outcome \in Slots(o.condition),
           feeRecipient \in Address, NEW before \in Nat, NEW fill \in Nat,
           NEW t, t = ExecuteTrade(s, o, before, fill), NEW A, o.maker \in A, o.taker \in A
    PROVE  Delivers(s, t, A)
<1> DEFINE counter == CounterAmount(o, before, fill)
           buys    == o.side = "Buy"
           cash    == IF buys THEN fill ELSE counter
           tokens  == IF buys THEN counter ELSE fill
           buyer   == IF buys THEN o.maker ELSE o.taker
           seller  == IF buys THEN o.taker ELSE o.maker
           fee     == FeeAmount(cash, o.feeRate)
           rest    == cash - fee
           paid    == Pull(s, buyer, seller, rest)
           charged == PullIfAny(paid, buyer, feeRecipient, fee)
           given   == Give(charged, seller, buyer, PositionOf(o), tokens)
<1>1. t = IF counter = 0 THEN Panic(s) ELSE given
  BY DEF ExecuteTrade, PullIfAny
<1>2. counter \in Nat
  BY CounterType
<1>3. /\ cash \in Nat /\ tokens \in Nat /\ buyer \in Traders /\ seller \in Traders
      /\ buyer \in A /\ seller \in A /\ o.feeRate \in Nat
  <2> HIDE DEF counter
  <2> QED
    BY <1>2, OrderAssumption
<1>4. fee \in Nat /\ rest \in Nat
  <2> HIDE DEF cash
  <2>1. fee \in Nat /\ fee <= cash
    BY <1>3, FeeBound
  <2> HIDE DEF fee
  <2> QED
    BY <1>3, <2>1
<1>5. PositionOf(o) \in Position /\ buyer \in Address /\ seller \in Address
  <2> HIDE DEF buyer, seller
  <2> QED
    BY <1>3, OutcomePositionType, Accounts DEF PositionOf
<1> HIDE DEF counter, cash, tokens, buyer, seller, fee, rest
<1>6. Spares(s, paid, A)
  BY <1>3, <1>4, <1>5, PullSpares
<1> HIDE DEF paid
<1>7. Spares(paid, charged, A)
  <2>1. FundsTyped(paid)
    BY <1>6 DEF Spares
  <2> QED
    BY <1>3, <1>4, <2>1, PullIfAnySpares
<1> HIDE DEF charged
<1>8. Spares(s, charged, A)
  BY <1>6, <1>7, SparesOn
<1>9. Delivers(charged, given, A)
  <2>1. FundsTyped(charged)
    BY <1>8 DEF Spares
  <2> QED
    BY <1>3, <1>5, <2>1, GiveSpares DEF Delivers
<1> HIDE DEF given
<1>10. Delivers(s, given, A)
  BY <1>8, <1>9, DeliversOn
<1> QED
  BY <1>1, <1>10, PanicDelivers

LEMMA ComplementaryBuyDelivers ==
    ASSUME NEW s, FundsTyped(s), NEW left \in Order, NEW right \in Order,
           Complements(left, right), feeRecipient \in Address,
           filled[Key(left)] \in Nat, NEW leftFill \in Nat, NEW rightFill \in Nat,
           NEW t, t = ComplementaryBuy(s, left, leftFill, right, rightFill),
           NEW A, left.maker \in A, right.maker \in A
    PROVE  Delivers(s, t, A)
<1> DEFINE sets     == CounterAmount(left, filled[Key(left)], leftFill)
           leftFee  == FeeAmount(leftFill, left.feeRate)
           rightFee == FeeAmount(rightFill, right.feeRate)
           lNet     == leftFill - leftFee
           rNet     == rightFill - rightFee
           net      == leftFill - leftFee + rightFill - rightFee
           rest     == net - sets
           one      == PullIfAny(s, left.maker, feeRecipient, leftFee)
           fees     == PullIfAny(one, right.maker, feeRecipient, rightFee)
           bid      == Pull(fees, left.maker, ExchangeContract, lNet)
           bids     == Pull(bid, right.maker, ExchangeContract, rNet)
           p        == PositionOf(left)
           q        == PositionOf(right)
           token    == Issue(bids, left.maker, p, sets)
           tokens   == Issue(token, right.maker, q, sets)
           paid     == PayIfAny(tokens, feeRecipient, rest)
<1>1. \/ t = Panic(s)
      \/ t = paid /\ net >= sets
  BY DEF ComplementaryBuy
<1>2. sets \in Nat
  BY CounterType DEF Complements
<1>3. /\ left.maker \in Traders /\ right.maker \in Traders
      /\ left.maker \in Address /\ right.maker \in Address /\ ExchangeContract \in Address
      /\ left.feeRate \in Nat /\ right.feeRate \in Nat
      /\ left.feeRate <= FullRate /\ right.feeRate <= FullRate
  BY OrderAssumption, Accounts DEF Complements
<1> HIDE DEF sets
<1>4. /\ leftFee \in Nat /\ leftFee <= leftFill
      /\ rightFee \in Nat /\ rightFee <= rightFill
  BY <1>3, FeeBound
<1> HIDE DEF leftFee, rightFee
<1>5. lNet \in Nat /\ rNet \in Nat /\ net \in Int
  BY <1>4
<1>6. p \in Position /\ q \in Position
  BY ComplementsPositions
<1>7. CASE t = Panic(s)
  BY <1>7, PanicDelivers
<1>8. CASE t = paid /\ net >= sets
  <2> HIDE DEF net, lNet, rNet, p, q
  <2>1. rest \in Nat
    BY <1>2, <1>5, <1>8
  <2> HIDE DEF rest
  <2>2. Spares(s, one, A)
    BY <1>3, <1>4, PullIfAnySpares
  <2> HIDE DEF one
  <2>3. Spares(one, fees, A)
    <3>1. FundsTyped(one)
      BY <2>2 DEF Spares
    <3> QED
      BY <1>3, <1>4, <3>1, PullIfAnySpares
  <2> HIDE DEF fees
  <2>4. Spares(s, fees, A)
    BY <2>2, <2>3, SparesOn
  <2>5. Spares(fees, bid, A)
    <3>1. FundsTyped(fees)
      BY <2>4 DEF Spares
    <3> QED
      BY <1>3, <1>5, <3>1, PullSpares
  <2> HIDE DEF bid
  <2>6. Spares(s, bid, A)
    BY <2>4, <2>5, SparesOn
  <2>7. Spares(bid, bids, A)
    <3>1. FundsTyped(bid)
      BY <2>6 DEF Spares
    <3> QED
      BY <1>3, <1>5, <3>1, PullSpares
  <2> HIDE DEF bids
  <2>8. Spares(s, bids, A)
    BY <2>6, <2>7, SparesOn
  <2>9. Spares(bids, token, A)
    <3>1. FundsTyped(bids)
      BY <2>8 DEF Spares
    <3> QED
      BY <1>2, <1>3, <1>6, <3>1, IssueSpares
  <2> HIDE DEF token
  <2>10. Spares(s, token, A)
    BY <2>8, <2>9, SparesOn
  <2>11. Delivers(token, tokens, A)
    <3>1. FundsTyped(token)
      BY <2>10 DEF Spares
    <3> QED
      BY <1>2, <1>3, <1>6, <3>1, IssueSpares DEF Delivers
  <2> HIDE DEF tokens
  <2>12. Delivers(s, tokens, A)
    BY <2>10, <2>11, DeliversOn
  <2>13. Spares(tokens, paid, A)
    <3>1. FundsTyped(tokens)
      BY <2>12 DEF Delivers, Spares
    <3> QED
      BY <2>1, <3>1, PayIfAnySpares
  <2> HIDE DEF paid
  <2> QED
    BY <1>8, <2>12, <2>13, DeliversOn
<1> QED
  BY <1>1, <1>7, <1>8

LEMMA ComplementarySellDelivers ==
    ASSUME NEW s, FundsTyped(s), NEW left \in Order, NEW right \in Order,
           Complements(left, right), feeRecipient \in Address,
           filled[Key(left)] \in Nat, filled[Key(right)] \in Nat,
           NEW leftFill \in Nat, NEW rightFill \in Nat,
           NEW t, t = ComplementarySell(s, left, leftFill, right, rightFill),
           NEW A, left.maker \in A, right.maker \in A
    PROVE  Delivers(s, t, A)
<1> DEFINE leftQuote  == CounterAmount(left, filled[Key(left)], leftFill)
           rightQuote == CounterAmount(right, filled[Key(right)], rightFill)
           leftFee    == FeeAmount(leftQuote, left.feeRate)
           rightFee   == FeeAmount(rightQuote, right.feeRate)
           leftPaid   == leftQuote - leftFee
           rightPaid  == rightQuote - rightFee
           rest       == leftFill - leftPaid - rightPaid
           p          == PositionOf(left)
           q          == PositionOf(right)
           one        == Give(s, left.maker, ExchangeContract, p, leftFill)
           taken      == Give(one, right.maker, ExchangeContract, q, rightFill)
           merged     == Merge(taken, left.condition, p, q, leftFill)
           half       == Pay(merged, left.maker, leftPaid)
           paid       == Pay(half, right.maker, rightPaid)
           all        == PayIfAny(paid, feeRecipient, rest)
<1>1. \/ t = Panic(s)
      \/ /\ t = all /\ leftFill = rightFill
         /\ leftQuote + rightQuote <= leftFill
  BY DEF ComplementarySell
<1>2. leftQuote \in Nat /\ rightQuote \in Nat
  BY CounterType DEF Complements
<1>3. /\ left.maker \in Address /\ right.maker \in Address /\ ExchangeContract \in Address
      /\ left.feeRate \in Nat /\ right.feeRate \in Nat
      /\ left.feeRate <= FullRate /\ right.feeRate <= FullRate
  BY OrderAssumption, Accounts DEF Complements
<1> HIDE DEF leftQuote, rightQuote
<1>4. /\ leftFee \in Nat /\ leftFee <= leftQuote
      /\ rightFee \in Nat /\ rightFee <= rightQuote
  BY <1>2, <1>3, FeeBound
<1> HIDE DEF leftFee, rightFee
<1>5. leftPaid \in Nat /\ rightPaid \in Nat /\ leftPaid <= leftQuote /\ rightPaid <= rightQuote
  BY <1>2, <1>4
<1> HIDE DEF leftPaid, rightPaid
<1>6. p \in Position /\ q \in Position
  BY ComplementsPositions
<1>7. CASE t = Panic(s)
  BY <1>7, PanicDelivers
<1>8. CASE /\ t = all /\ leftFill = rightFill
           /\ leftQuote + rightQuote <= leftFill
  <2>1. rest \in Nat
    BY <1>2, <1>5, <1>8
  <2> HIDE DEF p, q, rest
  <2>2. Spares(s, one, A)
    BY <1>3, <1>6, GiveSpares
  <2> HIDE DEF one
  <2>3. Delivers(one, taken, A)
    <3>1. FundsTyped(one)
      BY <2>2 DEF Spares
    <3> QED
      BY <1>3, <1>6, <3>1, GiveSpares DEF Delivers
  <2> HIDE DEF taken
  <2>4. Delivers(s, taken, A)
    BY <2>2, <2>3, DeliversOn
  <2>5. Spares(taken, merged, A)
    <3>1. FundsTyped(taken)
      BY <2>4 DEF Delivers, Spares
    <3> QED
      BY <1>6, <3>1, MergeSpares
  <2> HIDE DEF merged
  <2>6. Delivers(s, merged, A)
    BY <2>4, <2>5, DeliversOn
  <2>7. Spares(merged, half, A)
    <3>1. FundsTyped(merged)
      BY <2>6 DEF Delivers, Spares
    <3> QED
      BY <1>3, <1>5, <3>1, PaySpares
  <2> HIDE DEF half
  <2>8. Delivers(s, half, A)
    BY <2>6, <2>7, DeliversOn
  <2>9. Spares(half, paid, A)
    <3>1. FundsTyped(half)
      BY <2>8 DEF Delivers, Spares
    <3> QED
      BY <1>3, <1>5, <3>1, PaySpares
  <2> HIDE DEF paid
  <2>10. Delivers(s, paid, A)
    BY <2>8, <2>9, DeliversOn
  <2>11. Spares(paid, all, A)
    <3>1. FundsTyped(paid)
      BY <2>10 DEF Delivers, Spares
    <3> QED
      BY <2>1, <3>1, PayIfAnySpares
  <2> HIDE DEF all
  <2> QED
    BY <1>8, <2>10, <2>11, DeliversOn
<1> QED
  BY <1>1, <1>7, <1>8

-----------------------------------------------------------------------------
(* The parties of a call *)

\* The makers and takers of the orders that gave more in the books s than in the state.
Parties(s) == UNION {{o.maker, o.taker} : o \in {x \in Order : traded[x].gave < s.traded[x].gave}}

\* No order gave less.
Grown(s) == \A o \in Order : traded[o].gave <= s.traded[o].gave

LEMMA BooksGrown == ASSUME ExInv PROVE Grown(Books)
BY BooksFields DEF ExInv, OrdersTyped, Dealings, Grown

\* A fill adds the maker and the taker of its order to the parties.
LEMMA PartiesRecord ==
    ASSUME ExInv, NEW s, OrdersTyped(s), Grown(s), NEW o \in Order, NEW gave \in Nat \ {0},
           NEW t, NEW total, NEW got, NEW takes, Recorded(t, s, o, total, gave, got, takes)
    PROVE  /\ Grown(t) /\ Parties(s) \subseteq Parties(t)
           /\ o.maker \in Parties(t) /\ o.taker \in Parties(t)
<1>1. \A x \in Order : traded[x].gave \in Nat /\ s.traded[x].gave \in Nat
  BY BooksFields DEF ExInv, OrdersTyped, Dealings
<1>2. /\ \A x \in Order : x # o => t.traded[x] = s.traded[x]
      /\ t.traded[o].gave = s.traded[o].gave + gave
  BY DEF Recorded
<1>3. \A x \in Order : s.traded[x].gave <= t.traded[x].gave
  BY <1>1, <1>2
<1>4. traded[o].gave < t.traded[o].gave
  BY <1>1, <1>2 DEF Grown
<1>5. Grown(t)
  <2>1. ASSUME NEW x \in Order PROVE traded[x].gave <= t.traded[x].gave
    <3>1. CASE x = o
      BY <1>1, <1>2, <3>1 DEF Grown
    <3>2. CASE x # o
      BY <1>1, <1>2, <3>2 DEF Grown
    <3> QED
      BY <3>1, <3>2
  <2> QED
    BY <2>1 DEF Grown
<1>6. ASSUME NEW x \in Order, traded[x].gave < s.traded[x].gave
      PROVE  traded[x].gave < t.traded[x].gave
  <2>1. CASE x = o
    BY <1>4, <2>1
  <2>2. CASE x # o
    BY <1>2, <1>6, <2>2
  <2> QED
    BY <2>1, <2>2
<1>7. Parties(s) \subseteq Parties(t)
  BY <1>6 DEF Parties
<1>8. o.maker \in Parties(t) /\ o.taker \in Parties(t)
  BY <1>4 DEF Parties
<1> QED
  BY <1>5, <1>7, <1>8

LEMMA SameParties ==
    ASSUME NEW s, NEW t, t.traded = s.traded
    PROVE  Parties(t) = Parties(s) /\ (Grown(s) => Grown(t))
BY DEF Parties, Grown

\* The funds of the books t are those of s.
SameFunds(s, t) ==
    /\ IsBooks(t) /\ t.usdc = s.usdc /\ t.allowance = s.allowance
    /\ t.balance = s.balance /\ t.supply = s.supply /\ t.ok = s.ok

LEMMA FundsDeliver ==
    ASSUME NEW r, NEW s, NEW t, SameFunds(s, t), NEW A, Delivers(r, s, A)
    PROVE  Delivers(r, t, A)
BY DEF SameFunds, Delivers, Spares, Keeps, FundsTyped

LEMMA FundsSpare ==
    ASSUME NEW r, NEW s, NEW t, SameFunds(s, t), NEW A, NEW B, A \subseteq B, Spares(r, s, A)
    PROVE  Spares(r, t, B)
BY DEF SameFunds, Spares, Keeps, FundsTyped, Bystanders

\* A turn of match_orders touches the parties of what was filled so far.
LEMMA TurnSpares ==
    ASSUME ExInv, FundsInv, NEW taker \in Order, NEW s, OrdersTyped(s), Grown(s),
           Spares(Books, s, Parties(s)), NEW o \in Order, NEW fill \in Nat,
           NEW t, t = FillMaker(s, taker, o, fill)
    PROVE  Grown(t) /\ Spares(Books, t, Parties(t)) /\ (t.ok => ~isPaused)
<1> DEFINE before  == s.filled[Key(o)]
           counter == CounterAmount(o, before, fill)
           settled == ExecuteTrade(s, o, before, fill)
           guard   == ValidAmount(fill) /\ LimitMatch(taker, o) /\ Accepted(o, before, fill)
           total   == before + fill
           r       == Record(settled, o, total, fill, counter, 0)
           u       == [r EXCEPT !.spent = @ + counter]
<1>1. t = IF guard THEN u ELSE Panic(s)
  BY DEF FillMaker
<1>2. /\ before \in Nat /\ total \in Nat /\ FundsTyped(s) /\ FundsTyped(Books)
      /\ feeRecipient \in Address
  BY BooksFunds DEF OrdersTyped, Keys, Spares
<1>3. CASE ~guard
  <2>1. t = Panic(s)
    BY <1>1, <1>3
  <2>2. FundsTyped(t) /\ ~t.ok /\ t.traded = s.traded
    BY <1>2, <2>1, PanicFunds, PanicOrders DEF FundsTyped, SameOrders
  <2>3. Grown(t)
    BY <2>2, SameParties
  <2> QED
    BY <2>2, <2>3 DEF Spares
<1>4. CASE guard
  <2>1. Accepted(o, before, fill) /\ fill # 0 /\ t = u
    BY <1>1, <1>4 DEF ValidAmount
  <2> HIDE DEF guard
  <2>2. o.makerAmount # 0 /\ o.feeRate <= FullRate
        /\ o.condition \in Condition /\ o.outcome \in Slots(o.condition)
    BY <2>1, AcceptedTradeable
  <2>3. counter \in Nat
    BY <1>2, <2>2, CounterType
  <2>4. OrdersTyped(settled) /\ settled.traded = s.traded
    BY ExecuteTradeOrders, SameTyped DEF OrdersTyped, SameOrders
  <2>5. Grown(settled) /\ Parties(settled) = Parties(s)
    BY <2>4, SameParties
  <2>6. \A A : o.maker \in A /\ o.taker \in A => Delivers(s, settled, A)
    BY <1>2, <2>2, TradeDelivers
  <2> HIDE DEF settled, counter, total
  <2>7. Recorded(r, settled, o, total, fill, counter, 0)
    BY <1>2, <2>3, <2>4, RecordOrders
  <2>8. SameFunds(settled, r)
    BY <2>4, RecordFunds DEF OrdersTyped, SameFunds
  <2> HIDE DEF r
  <2>9. IsBooks(u) /\ u.traded = r.traded /\ SameFunds(r, u)
    BY <2>8 DEF SameFunds, IsBooks, BookFields
  <2> HIDE DEF u
  <2>10. /\ Grown(r) /\ Parties(s) \subseteq Parties(r)
         /\ o.maker \in Parties(r) /\ o.taker \in Parties(r)
    <3>1. fill \in Nat \ {0}
      BY <2>1
    <3> QED
      BY <2>4, <2>5, <2>7, <3>1, PartiesRecord
  <2>11. Grown(u) /\ Parties(u) = Parties(r)
    BY <2>9, <2>10, SameParties
  <2>12. Spares(s, settled, Parties(r)) /\ (settled.ok => ~isPaused)
    BY <2>6, <2>10 DEF Delivers
  <2>13. Spares(Books, settled, Parties(r))
    BY <1>2, <2>10, <2>12, SparesTransitive
  <2>14. SameFunds(settled, u)
    BY <2>8, <2>9 DEF SameFunds
  <2>15. Spares(Books, u, Parties(u))
    BY <2>11, <2>13, <2>14, FundsSpare
  <2> QED
    BY <2>1, <2>11, <2>12, <2>14, <2>15 DEF SameFunds
<1> QED
  BY <1>3, <1>4

LEMMA TurnsSpare ==
    ASSUME ExInv, FundsInv, NEW taker \in Order, NEW n \in Nat \ {0},
           NEW makers \in [1..n -> Order], NEW fills \in [1..n -> Nat], NEW f,
           Turns(f, taker, makers, fills, n)
    PROVE  /\ OrdersTyped(f[n]) /\ Grown(f[n]) /\ Spares(Books, f[n], Parties(f[n]))
           /\ f[n].ok => ~isPaused
<1> DEFINE P(k) == /\ OrdersTyped(f[k]) /\ Grown(f[k]) /\ Spares(Books, f[k], Parties(f[k]))
                   /\ k # 0 => (f[k].ok => ~isPaused)
           T == {k \in 0..n : ~P(k)}
<1>1. SUFFICES ASSUME T # {} PROVE FALSE
  <2>1. n \in 0..n
    OBVIOUS
  <2> QED
    BY <2>1
<1>2. PICK k \in T : \A j \in T : k <= j
  <2>1. T \subseteq Nat
    OBVIOUS
  <2> HIDE DEF T
  <2> QED
    BY <1>1, <2>1, Least
<1>3. k \in 0..n /\ ~P(k)
  OBVIOUS
<1>4. CASE k = 0
  <2>1. f[0] = Books
    BY DEF Turns
  <2>2. Grown(Books) /\ Spares(Books, Books, Parties(Books))
    BY BooksFunds, BooksGrown, StillSpares
  <2> QED
    BY <1>3, <1>4, <2>1, <2>2 DEF ExInv
<1>5. CASE k # 0
  <2> DEFINE j == k - 1
  <2>1. j \in 0..n /\ j \notin T /\ k \in 1..n
    BY <1>2, <1>3, <1>5
  <2>2. P(j)
    BY <2>1
  <2>3. f[k] = FillMaker(f[j], taker, makers[k], fills[k])
    BY <2>1, <1>3, <1>5 DEF Turns
  <2>4. makers[k] \in Order /\ fills[k] \in Nat
    BY <2>1
  <2> HIDE DEF j
  <2>5. /\ Grown(f[k]) /\ Spares(Books, f[k], Parties(f[k])) /\ (f[k].ok => ~isPaused)
    BY <2>2, <2>3, <2>4, TurnSpares
  <2>6. OrdersTyped(f[k])
    BY <2>2, <2>3, <2>4, TurnTyped
  <2> QED
    BY <1>3, <2>5, <2>6
<1> QED
  BY <1>4, <1>5

\* What a step that fills orders leaves to the accounts that no filled order names.
BystandersKept ==
    \A a \in Address \ {ExchangeContract, CtfContract} :
        (\A o \in Order : a \in {o.maker, o.taker} => traded'[o] = traded[o]) =>
            /\ \A p \in Position : balance'[p][a] = balance[p][a]
            /\ allowance'[a] = allowance[a]
            /\ usdc'[a] >= usdc[a]
            /\ a # feeRecipient => usdc'[a] = usdc[a]

LEMMA SparesCommit ==
    ASSUME ExInv, FundsInv, NEW t, Spares(Books, t, Parties(t)), Commit(t)
    PROVE  BystandersKept
<1>1. /\ usdc' = t.usdc /\ allowance' = t.allowance /\ balance' = t.balance
      /\ traded' = t.traded /\ t.ok
  BY DEF Commit
<1>2. ASSUME NEW a \in Address \ {ExchangeContract, CtfContract},
             \A o \in Order : a \in {o.maker, o.taker} => traded'[o] = traded[o]
      PROVE  /\ \A p \in Position : balance'[p][a] = balance[p][a]
             /\ allowance'[a] = allowance[a]
             /\ usdc'[a] >= usdc[a]
             /\ a # feeRecipient => usdc'[a] = usdc[a]
  <2>1. a \notin Parties(t)
    <3> SUFFICES ASSUME a \in Parties(t) PROVE FALSE
      OBVIOUS
    <3>1. PICK o \in Order : traded[o].gave < t.traded[o].gave /\ a \in {o.maker, o.taker}
      BY DEF Parties
    <3>2. t.traded[o] = traded[o] /\ traded[o].gave \in Nat
      BY <1>1, <1>2, <3>1, BooksFields DEF ExInv, OrdersTyped, Dealings
    <3> QED
      BY <3>1, <3>2
  <2>2. Keeps(Books, t, a)
    BY <1>1, <2>1 DEF Spares, Bystanders
  <2>3. /\ Books.usdc = usdc /\ Books.balance = balance /\ Books.allowance = allowance
    BY DEF Books
  <2>4. usdc[a] \in Nat /\ t.usdc[a] \in Nat
    BY DEF FundsInv, IInv, TypeOK, Spares, FundsTyped
  <2> QED
    BY <1>1, <2>2, <2>3, <2>4 DEF Keeps
<1> QED
  BY <1>2 DEF BystandersKept

\* What a handler that fills orders does: it leaves the bystanders what they have, and
\* goes through only while the CTF contract is not paused.
FillsFairly == BystandersKept /\ ~isPaused

LEMMA FillFair ==
    ASSUME ExInv, FundsInv, NEW o \in Order, NEW fill \in Nat, FillOrder(o, fill)
    PROVE  FillsFairly
<1> DEFINE before  == filled[Key(o)]
           counter == CounterAmount(o, before, fill)
           total   == before + fill
           s == ExecuteTrade(Books, o, before, fill)
           t == Record(s, o, total, fill, counter, 0)
<1>1. Accepted(o, before, fill) /\ Commit(t) /\ fill # 0
  BY DEF FillOrder, ValidAmount
<1>2. before \in Nat /\ total \in Nat
  BY FilledType
<1>3. /\ FundsTyped(Books) /\ feeRecipient \in Address
      /\ o.makerAmount # 0 /\ o.feeRate <= FullRate
      /\ o.condition \in Condition /\ o.outcome \in Slots(o.condition)
  BY <1>1, AcceptedTradeable, BooksFunds
<1>4. \A A : o.maker \in A /\ o.taker \in A => Delivers(Books, s, A)
  BY <1>2, <1>3, TradeDelivers
<1>5. OrdersTyped(s) /\ s.traded = Books.traded
  BY ExecuteTradeOrders, SameTyped DEF ExInv, OrdersTyped, SameOrders
<1>6. counter \in Nat
  BY <1>2, <1>3, CounterType
<1>7. Grown(s)
  BY <1>5, BooksGrown, SameParties
<1> HIDE DEF s, counter, total
<1>8. Recorded(t, s, o, total, fill, counter, 0)
  BY <1>2, <1>5, <1>6, RecordOrders
<1>9. SameFunds(s, t)
  BY <1>5, RecordFunds DEF OrdersTyped, SameFunds
<1> HIDE DEF t
<1>10. o.maker \in Parties(t) /\ o.taker \in Parties(t)
  <2>1. fill \in Nat \ {0}
    BY <1>1
  <2> QED
    BY <1>5, <1>7, <1>8, <2>1, PartiesRecord
<1>11. Delivers(Books, t, Parties(t))
  BY <1>4, <1>9, <1>10, FundsDeliver
<1> QED
  BY <1>1, <1>11, SparesCommit DEF Delivers, FillsFairly, Commit

LEMMA MatchFair ==
    ASSUME ExInv, FundsInv, NEW taker \in Order, NEW k \in Nat \ {0}, NEW takerFill \in Nat,
           NEW makers \in [1..k -> Order], NEW fills \in [1..k -> Nat],
           MatchOrders(taker, makers, fills, takerFill)
    PROVE  FillsFairly
<1> DEFINE before == filled[Key(taker)]
           tokens == TotalOf(fills)
           total  == before + takerFill
<1>1. Len(makers) = k
  <2>1. k \in Nat /\ DOMAIN makers = 1..k
    OBVIOUS
  <2>2. makers \in Seq(Order)
    BY <2>1
  <2> QED
    BY <2>1, <2>2, LenProperties
<1>2. PICK f :
          /\ Turns(f, taker, makers, fills, k)
          /\ Accepted(taker, before, takerFill)
          /\ Commit(Record(f[k], taker, total, takerFill, tokens, k))
  BY <1>1, MatchTurns
<1>3. takerFill # 0
  BY DEF MatchOrders, ValidAmount
<1>4. before \in Nat /\ total \in Nat
  BY FilledType
<1>5. tokens \in Nat
  <2>1. IsFiniteSet(1..k)
    BY FS_Interval
  <2> QED
    BY <2>1, TotalType
<1>6. PICK s : s = f[k]
  OBVIOUS
<1>7. /\ OrdersTyped(s) /\ Grown(s) /\ Spares(Books, s, Parties(s))
      /\ s.ok => ~isPaused
  BY <1>2, <1>6, TurnsSpare
<1> DEFINE t == Record(s, taker, total, takerFill, tokens, k)
<1>8. Commit(t)
  BY <1>2, <1>6
<1> HIDE DEF total, tokens
<1>9. Recorded(t, s, taker, total, takerFill, tokens, k)
  BY <1>4, <1>5, <1>7, RecordOrders
<1>10. SameFunds(s, t)
  BY <1>7, RecordFunds DEF OrdersTyped, SameFunds
<1> HIDE DEF t
<1>11. Parties(s) \subseteq Parties(t)
  <2>1. takerFill \in Nat \ {0}
    BY <1>3
  <2> QED
    BY <1>7, <1>9, <2>1, PartiesRecord
<1>12. Spares(Books, t, Parties(t))
  BY <1>7, <1>10, <1>11, FundsSpare
<1> QED
  BY <1>7, <1>8, <1>10, <1>12, SparesCommit DEF FillsFairly, Commit, SameFunds

LEMMA ComplementaryFair ==
    ASSUME ExInv, FundsInv, NEW left \in Order, NEW right \in Order,
           NEW leftFill \in Nat, NEW rightFill \in Nat,
           MatchComplementaryOrders(left, leftFill, right, rightFill)
    PROVE  FillsFairly
<1> DEFINE bought  == ComplementaryBuy(Books, left, leftFill, right, rightFill)
           sold    == ComplementarySell(Books, left, leftFill, right, rightFill)
           s       == IF left.side = "Buy" THEN bought ELSE sold
           lBefore == filled[Key(left)]
           rBefore == filled[Key(right)]
           lTotal  == lBefore + leftFill
           rTotal  == rBefore + rightFill
           lGot    == CounterAmount(left, lBefore, leftFill)
           rGot    == CounterAmount(right, rBefore, rightFill)
           one     == Record(s, left, lTotal, leftFill, lGot, 0)
           t       == Record(one, right, rTotal, rightFill, rGot, 0)
<1>1. /\ Accepted(left, lBefore, leftFill) /\ Accepted(right, rBefore, rightFill)
      /\ ComplementaryMatch(left, right) /\ Commit(t)
      /\ leftFill \in Nat \ {0} /\ rightFill \in Nat \ {0}
  BY DEF MatchComplementaryOrders, ValidAmount
<1>2. lBefore \in Nat /\ rBefore \in Nat /\ lTotal \in Nat /\ rTotal \in Nat
  BY FilledType
<1>3. Complements(left, right)
  BY <1>1, AcceptedTradeable DEF Complements
<1>4. lGot \in Nat /\ rGot \in Nat
  BY <1>2, <1>3, CounterType DEF Complements
<1>5. \A A : left.maker \in A /\ right.maker \in A => Delivers(Books, s, A)
  <2>1. FundsTyped(Books) /\ feeRecipient \in Address
    BY BooksFunds
  <2>2. \A A : left.maker \in A /\ right.maker \in A => Delivers(Books, bought, A)
    BY <1>2, <1>3, <2>1, ComplementaryBuyDelivers
  <2>3. \A A : left.maker \in A /\ right.maker \in A => Delivers(Books, sold, A)
    BY <1>2, <1>3, <2>1, ComplementarySellDelivers
  <2> HIDE DEF bought, sold
  <2> QED
    BY <2>2, <2>3
<1>6. OrdersTyped(s) /\ s.traded = Books.traded
  <2>1. SameOrders(Books, bought) /\ SameOrders(Books, sold)
    BY BooksFields, ComplementaryBuyOrders, ComplementarySellOrders
  <2> HIDE DEF bought, sold
  <2>2. SameOrders(Books, s)
    BY <2>1
  <2> QED
    BY <2>2, SameTyped DEF ExInv, SameOrders
<1>7. Grown(s)
  BY <1>6, BooksGrown, SameParties
<1> HIDE DEF s, lGot, rGot, lTotal, rTotal
<1>8. Recorded(one, s, left, lTotal, leftFill, lGot, 0)
  BY <1>1, <1>2, <1>4, <1>6, RecordOrders
<1>9. SameFunds(s, one)
  BY <1>6, RecordFunds DEF OrdersTyped, SameFunds
<1> HIDE DEF one
<1>10. Grown(one) /\ OrdersTyped(one) /\ left.maker \in Parties(one)
  BY <1>1, <1>6, <1>7, <1>8, PartiesRecord DEF Recorded
<1>11. Recorded(t, one, right, rTotal, rightFill, rGot, 0)
  BY <1>1, <1>2, <1>4, <1>10, RecordOrders
<1>12. SameFunds(one, t)
  BY <1>10, RecordFunds DEF OrdersTyped, SameFunds
<1> HIDE DEF t
<1>13. left.maker \in Parties(t) /\ right.maker \in Parties(t)
  BY <1>1, <1>10, <1>11, PartiesRecord
<1>14. SameFunds(s, t)
  BY <1>9, <1>12 DEF SameFunds
<1>15. Delivers(Books, t, Parties(t))
  BY <1>5, <1>13, <1>14, FundsDeliver
<1> QED
  BY <1>1, <1>15, SparesCommit DEF Delivers, FillsFairly, Commit

\* An order handler fills orders that way, or only cancels a nonce.
LEMMA OrdersFair ==
    ASSUME ExInv, FundsInv, OrderNext
    PROVE  FillsFairly \/ \E key \in Keys : CancelOrderByNonce(key)
<1>1. \A n \in Fills : n \in Nat
  BY DEF Fills
<1>2. ASSUME NEW o \in Order, NEW fill \in Fills, FillOrder(o, fill)
      PROVE  FillsFairly
  BY <1>1, <1>2, FillFair
<1>3. ASSUME NEW taker \in Order, NEW k \in 1..MaxMakers, NEW takerFill \in Fills,
             NEW makers \in [1..k -> {o \in Order : LimitMatch(taker, o)}],
             NEW fills \in [1..k -> Fills],
             MatchOrders(taker, makers, fills, takerFill)
      PROVE  FillsFairly
  <2>1. /\ k \in Nat \ {0} /\ makers \in [1..k -> Order] /\ fills \in [1..k -> Nat]
        /\ takerFill \in Nat
    BY <1>1, ExchangeAssumption
  <2> QED
    BY <1>3, <2>1, MatchFair
<1>4. ASSUME NEW left \in Order, NEW right \in Order, NEW leftFill \in Fills,
             NEW rightFill \in Fills,
             MatchComplementaryOrders(left, leftFill, right, rightFill)
      PROVE  FillsFairly
  BY <1>1, <1>4, ComplementaryFair
<1> QED
  BY <1>2, <1>3, <1>4 DEF OrderNext

LEMMA FairFills ==
    ASSUME ExInv, FundsInv, [ExNext]_exVars, filled' # filled
    PROVE  FillsFairly
<1>1. \A key \in Keys : ~CancelOrderByNonce(key)
  BY DEF CancelOrderByNonce
<1> QED
  BY <1>1, FillsAreOrders, OrdersFair

\* A fill, a match or a complementary match takes nothing from an account that no order
\* it fills names, whatever the orders and however many makers a match settles with: such
\* an account, other than the exchange and the CTF contract, keeps its tokens, its
\* allowance and its collateral, to which only a fee can be added.
BystandersKeepTheirs ==
    [][filled' # filled =>
        \A a \in Address \ {ExchangeContract, CtfContract} :
            (\A o \in Order : a \in {o.maker, o.taker} => traded'[o] = traded[o]) =>
                /\ \A p \in Position : balance'[p][a] = balance[p][a]
                /\ allowance'[a] = allowance[a]
                /\ usdc'[a] >= usdc[a]
                /\ a # feeRecipient => usdc'[a] = usdc[a]]_exVars

THEOREM BystandersUntouched == ExSpec => BystandersKeepTheirs
<1>1. ExInv /\ FundsInv /\ [ExNext]_exVars =>
        [filled' # filled =>
            \A a \in Address \ {ExchangeContract, CtfContract} :
                (\A o \in Order : a \in {o.maker, o.taker} => traded'[o] = traded[o]) =>
                    /\ \A p \in Position : balance'[p][a] = balance[p][a]
                    /\ allowance'[a] = allowance[a]
                    /\ usdc'[a] >= usdc[a]
                    /\ a # feeRecipient => usdc'[a] = usdc[a]]_exVars
  BY FairFills DEF FillsFairly, BystandersKept
<1> QED
  BY <1>1, FundsInvariance, PTL DEF ExSpec, BystandersKeepTheirs

-----------------------------------------------------------------------------
(* The pause of the CTF contract, at the exchange *)

\* Tokens and the orders' books as they were.
Halted == UNCHANGED <<balance, supply, filled, traded>>

LEMMA GiveGuarded ==
    ASSUME NEW s, FundsTyped(s), NEW from \in Address, NEW to \in Address,
           NEW p \in Position, NEW n \in Nat, NEW t, t = Give(s, from, to, p, n), t.ok
    PROVE  ~isPaused
<1>1. from \in {from, to} \cup {ExchangeContract, CtfContract}
  OBVIOUS
<1>2. to \in {from, to} \cup {ExchangeContract, CtfContract}
  OBVIOUS
<1> QED
  BY <1>1, <1>2, GiveSpares

LEMMA HaltedPool == ASSUME FundsInv, PoolNext, isPaused PROVE Halted
<1>1. \A n \in Fills : n \in Nat
  BY DEF Fills
<1>2. \A a \in Traders : a \in Address
  BY Accounts
<1>3. ExchangeContract \in Address /\ FundsTyped(Books)
  BY Accounts, BooksFunds
<1>4. ASSUME NEW c \in Condition, NEW i \in Slots(c), NEW x \in Prices, SetPrice(c, i, x)
      PROVE  Halted
  BY <1>4 DEF SetPrice, Halted, vars, ledgerVars, orderVars
<1>5. ASSUME NEW c \in Condition, NEW i \in Slots(c), NEW a \in Traders, NEW n \in Fills,
             DepositInventory(a, c, i, n) \/ WithdrawInventory(c, i, n, a)
      PROVE  FALSE
  <2>1. OutcomePosition(c, i) \in Position
    BY OutcomePositionType
  <2>2. PICK from \in Address, to \in Address :
            Commit(Give(Books, from, to, OutcomePosition(c, i), n))
    BY <1>2, <1>3, <1>5 DEF DepositInventory, WithdrawInventory
  <2> DEFINE t == Give(Books, from, to, OutcomePosition(c, i), n)
  <2>3. t.ok
    BY <2>2 DEF Commit
  <2> QED
    BY <1>1, <1>3, <2>1, <2>3, GiveGuarded
<1>6. ASSUME NEW a \in Traders, NEW n \in Fills, DepositCollateral(a, n) \/ WithdrawCollateral(n, a)
      PROVE  Halted
  <2>1. PICK from \in Address, to \in Address : Commit(Transfer(Books, from, to, n))
    BY <1>2, <1>3, <1>6 DEF DepositCollateral, WithdrawCollateral, Pay
  <2> DEFINE t == Transfer(Books, from, to, n)
  <2>2. t.ok => t.supply = Books.supply /\ t.balance = Books.balance
    BY <1>1, <1>3, TransferTyped
  <2>3. t.ok /\ balance' = t.balance /\ supply' = t.supply
    BY <2>1 DEF Commit
  <2> HIDE DEF t
  <2> QED
    BY <2>2, <2>3, BooksFunds, PoolOrders DEF Halted
<1>7. ASSUME NEW c \in Condition, NEW i \in Slots(c), NEW a \in Traders, NEW n \in Fills,
             BuyOutcome(a, c, i, n)
      PROVE  FALSE
  <2> DEFINE p == OutcomePosition(c, i)
             tokens == TokensFor(n, price[p])
             s == Transfer(Books, a, ExchangeContract, n)
             t == Give(s, ExchangeContract, a, p, tokens)
  <2>1. p \in Position /\ p \in OutcomePositions
    BY OutcomePositionType
  <2>2. price[p] # 0 /\ Commit(t)
    BY <1>7 DEF BuyOutcome
  <2>3. tokens \in Nat
    <3> DEFINE m == n * FullRate
    <3>1. m \in Nat /\ price[p] \in Nat \ {0}
      BY <1>1, <2>1, <2>2, OrdersAssumption DEF FundsInv
    <3> HIDE DEF m
    <3>2. m \div price[p] \in Nat
      BY <3>1, DivisionBounds
    <3> QED
      BY <3>2 DEF TokensFor, m
  <2>4. FundsTyped(s)
    BY <1>1, <1>2, <1>3, TransferTyped
  <2>5. t.ok
    BY <2>2 DEF Commit
  <2> HIDE DEF s, tokens, p
  <2> QED
    BY <1>2, <1>3, <2>1, <2>3, <2>4, <2>5, GiveGuarded
<1>8. ASSUME NEW c \in Condition, NEW i \in Slots(c), NEW a \in Traders, NEW n \in Fills,
             SellOutcome(a, c, i, n)
      PROVE  FALSE
  <2> DEFINE p == OutcomePosition(c, i)
             due == UsdcFor(n, price[p])
             s == Give(Books, a, ExchangeContract, p, n)
             t == Transfer(s, ExchangeContract, a, due)
  <2>1. p \in Position /\ p \in OutcomePositions
    BY OutcomePositionType
  <2>2. Commit(t)
    BY <1>8 DEF SellOutcome, Pay
  <2>3. due \in Nat
    BY <1>8, <1>1, FundsSell
  <2>4. FundsTyped(s)
    BY <1>1, <1>2, <1>3, <2>1, GiveTyped
  <2>5. t.ok
    BY <2>2 DEF Commit
  <2> HIDE DEF due, p
  <2>6. s.ok => ~isPaused
    BY <1>1, <1>2, <1>3, <2>1, GiveGuarded
  <2> HIDE DEF s
  <2>7. t.ok => s.ok
    BY <1>2, <1>3, <2>3, <2>4, TransferTyped
  <2> QED
    BY <2>5, <2>6, <2>7
<1> QED
  BY <1>4, <1>5, <1>6, <1>7, <1>8 DEF PoolNext

LEMMA HaltedCtf == ASSUME CtfStep, isPaused PROVE Halted
<1>1. PICK c \in Condition :
        \/ \E user \in Traders, n \in Amounts :
             \/ SplitPosition(user, Root, c, Singletons(c), n)
             \/ MergePositions(user, Root, c, Singletons(c), n)
        \/ \E user \in Traders, i \in Slots(c) : RedeemPositions(user, Root, c, {{i}})
        \/ (\E v \in Payouts : ReportPayoutsByCondition(c, v)) \/ Administer
  BY CtfCases
<1>2. \A user, partition, n : ~SplitPosition(user, Root, c, partition, n)
  BY DEF SplitPosition
<1>3. \A user, partition, n : ~MergePositions(user, Root, c, partition, n)
  BY DEF MergePositions
<1>4. \A user, indexSets : ~RedeemPositions(user, Root, c, indexSets)
  BY DEF RedeemPositions
<1>5. (\E v \in Payouts : ReportPayoutsByCondition(c, v)) \/ Administer
  BY <1>1, <1>2, <1>3, <1>4
<1>6. UNCHANGED ledgerVars
  BY <1>5 DEF ReportPayoutsByCondition, Administer
<1>7. UNCHANGED <<filled, traded>>
  BY DEF CtfStep, exchangeVars, orderVars
<1> QED
  BY <1>6, <1>7 DEF ledgerVars, Halted

LEMMA HaltedStep == ASSUME ExInv, FundsInv, [ExNext]_exVars, isPaused PROVE Halted
<1>1. CASE OrderNext
  <2>1. \E key \in Keys : CancelOrderByNonce(key)
    BY <1>1, OrdersFair DEF FillsFairly
  <2> QED
    BY <2>1 DEF CancelOrderByNonce, Halted, vars, ledgerVars
<1>2. CASE PoolNext
  BY <1>2, HaltedPool
<1>3. CASE CtfStep
  BY <1>3, HaltedCtf
<1>4. CASE ExAdminNext \/ (SurroundingsNext /\ ~CtfStep) \/ UNCHANGED exVars
  <2>1. UNCHANGED <<balance, supply>>
    BY <1>4, FundsOther DEF vars, ledgerVars
  <2>2. UNCHANGED <<filled, traded>>
    BY <1>4 DEF ExAdminNext, ExAdminister, SetFeeRecipient, SetTradeLimits, SurroundingsNext,
                Approve, SetOpen, Tick, exVars, exchangeVars, orderVars
  <2> QED
    BY <1>1, <2>1, <2>2 DEF Halted
<1> QED
  BY <1>1, <1>2, <1>3, <1>4 DEF ExNext, SurroundingsNext

\* While the CTF contract is paused no token changes hands anywhere, at the exchange
\* either, which has a pause of its own: no handler of the exchange asks whether the CTF
\* contract is paused, and every one that trades fails in the call it makes to it; the
\* books of the orders then stay as they were.  Collateral still moves: the pool takes
\* and gives it.
PausedCtfStopsTrading ==
    [][isPaused => UNCHANGED <<balance, supply, filled, traded>>]_exVars

THEOREM PauseReachesTheExchange == ExSpec => PausedCtfStopsTrading
<1>1. ExInv /\ FundsInv /\ [ExNext]_exVars =>
        [isPaused => UNCHANGED <<balance, supply, filled, traded>>]_exVars
  BY HaltedStep DEF Halted
<1> QED
  BY <1>1, FundsInvariance, PTL DEF ExSpec, PausedCtfStopsTrading
====
