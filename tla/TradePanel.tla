------------------------------ MODULE TradePanel ------------------------------
(***************************************************************************)
(* MarketTradePanel and the modal that follows a trade: a buy or a sell is *)
(* asked of the backend, which trades at once for an account it holds the  *)
(* key of, and for a connected wallet prepares an approval and a trade     *)
(* that the wallet's owner has to sign one after the other.  An order goes *)
(* on with the session it was placed under, though the visitor may sign    *)
(* out, or sign in as another, while it is under way.                      *)
(***************************************************************************)
EXTENDS Wallets

CONSTANTS Sessions,        \* the sessions a browser may hold: the wallet of the
                           \* user and whether a chain is known for it
          Amounts,         \* what the visitor may type
          Pages,           \* what pages may hold of wallets: announcements and globals
          Prepared,        \* the transactions the backend may prepare
          Unit, MinBuy, MaxBuy, \* base units of a dollar, and the least and most to buy for
          MaxTradeSteps    \* bound: what the visitor and the page do

VARIABLES trade,           \* the signals of the panel and its modal
          order,           \* the handleSubmit that runs, or None
          tradeSession,    \* readStoredAuthSession, None when signed out
          placed,          \* history: the session each order was placed under
          accounts,        \* external: the accounts each provider shows
          chain,           \* external: the chain each provider is on
          sent,            \* external: the transactions sent by wallets
          tradeSteps

tradeVars == <<trade, order, tradeSession, placed, accounts, chain, sent, tradeSteps>>

(***************************************************************************)
(* Amounts.  A text that is a number is what it comes to in base units and *)
(* whether it was written without a point; any other text is None.         *)
(***************************************************************************)
\* parseUsdcAmountInput and normalizeSellTradeAmount.
ParsedAmount(text) == IF text = None \/ text.units = 0 THEN None ELSE text.units

\* formatBaseUnitHint: the digits may have been meant as base units.
BaseUnitHint(text) == /\ text # None /\ text.whole
                      /\ text.units \div Unit \in MinBuy .. MaxBuy

\* resolveBuyUsdcTradeAmount.
BuyAmount(text) ==
    IF ParsedAmount(text) # None /\ text.units \in MinBuy .. MaxBuy THEN text.units ELSE None

\* What is asked of the backend for an amount, and the hint under the field.
TradeAmount(mode, text) ==
    [amount |-> IF mode = "buy" THEN BuyAmount(text) ELSE ParsedAmount(text),
     hint   |-> mode = "buy" /\ BaseUnitHint(text)]

(***************************************************************************)
(* The panel.                                                              *)
(***************************************************************************)
\* A text that reads 0: what the field holds before anything is typed.
ZeroText == [units |-> 0, whole |-> TRUE]

TradeInit ==
    /\ trade = [market |-> CHOOSE m \in Market : TRUE, outcome |-> 0, mode |-> "buy",
                amount |-> ZeroText, submitting |-> FALSE, message |-> None,
                result |-> None, hashes |-> 0, modal |-> FALSE, timer |-> FALSE]
    /\ order = None
    /\ tradeSession \in Sessions \cup {None}
    /\ placed = <<>>
    /\ accounts \in [Provider -> AccountsOf]
    /\ chain = [p \in Provider |-> "expected"]
    /\ sent = <<>>
    /\ tradeSteps = 0

TradeStep == tradeSteps < MaxTradeSteps /\ tradeSteps' = tradeSteps + 1

\* isSuccess of the modal, and the effect that starts its closing timer.
Successful(t) == /\ ~t.submitting /\ t.message # "error"
                 /\ t.hashes > 0 \/ t.result # None

WithTimer(t) == [t EXCEPT !.timer = @ \/ (Successful(t) /\ ~Successful(trade))]

\* The effect that follows the market, which runs with each view published.
TradePublished(m) ==
    /\ TradeStep
    /\ trade' = [trade EXCEPT !.market = m, !.mode = "buy", !.amount = ZeroText,
                              !.message = None, !.result = None, !.hashes = 0,
                              !.modal = FALSE,
                              !.outcome = IF m = trade.market THEN @ ELSE 0]
    /\ UNCHANGED <<order, tradeSession, placed, accounts, chain, sent>>

\* The fields of the panel: side, outcome and amount, with its quick picks.
EditTrade(field, value) ==
    /\ TradeStep
    /\ trade[field] # value
    /\ trade' = [trade EXCEPT ![field] = value]
    /\ UNCHANGED <<order, tradeSession, placed, accounts, chain, sent>>

\* handleSubmit up to the request it sends.
SubmitTrade ==
    LET asked == TradeAmount(trade.mode, trade.amount) IN
    /\ TradeStep
    /\ ~trade.submitting
    /\ IF tradeSession = None \/ asked.amount = None
       THEN /\ trade' = [trade EXCEPT !.message = "error"]
            /\ UNCHANGED <<order, placed>>
       ELSE /\ trade' = [trade EXCEPT !.submitting = TRUE, !.message = "status",
                                      !.result = None, !.hashes = 0, !.modal = TRUE]
            /\ order' = [stage |-> "asked", market |-> trade.market, mode |-> trade.mode,
                         outcome |-> trade.outcome, amount |-> asked.amount,
                         session |-> tradeSession, wallet |-> None, from |-> None,
                         calls |-> <<>>, next |-> 1, hashes |-> 0, no |-> Len(placed) + 1]
            /\ placed' = Append(placed, tradeSession)
    /\ UNCHANGED <<tradeSession, accounts, chain, sent>>

\* The catch and finally blocks.
TradeFailed(t) == [t EXCEPT !.submitting = FALSE, !.message = "error"]

OrderFails ==
    /\ order' = None
    /\ trade' = TradeFailed(trade)
    /\ UNCHANGED <<tradeSession, placed, accounts, chain, sent, tradeSteps>>

OrderSucceeds(hashes) ==
    /\ order' = None
    /\ trade' = WithTimer([trade EXCEPT !.submitting = FALSE, !.message = "status",
                                        !.result = order.mode, !.hashes = hashes])

\* The backend traded for the account itself, or failed.
BackendTraded ==
    /\ order # None /\ order.stage = "asked"
    /\ OrderSucceeds(0)
    /\ UNCHANGED <<tradeSession, placed, accounts, chain, sent, tradeSteps>>

BackendRefused == order # None /\ order.stage = "asked" /\ OrderFails

\* The backend prepared transactions for the wallet of the user whose token it
\* was sent: one is looked for among the wallets that are injected by then.
BackendPrepared(calls, page, preferred) ==
    LET legacy == SetToSeq(LegacyProviders(page.globals))
        wallet == ResolveTradeWallet(Discovered(page.details, legacy), accounts,
                                     order.session.wallet, preferred)
    IN
    /\ order # None /\ order.stage = "asked" /\ order.session.wallet # None
    /\ IF calls = <<>> \/ wallet = None
       THEN OrderFails
       ELSE /\ order' = [order EXCEPT !.stage = "connecting", !.wallet = wallet,
                                      !.calls = calls]
            /\ trade' = [trade EXCEPT !.message = "status"]
            /\ UNCHANGED <<tradeSession, placed, accounts, chain, sent, tradeSteps>>

\* Mutant of AccountMatches: compared with the session stored by then, not with
\* the account the transactions were prepared for.
AccountMatchesStored(account) == tradeSession # None /\ account = tradeSession.wallet

\* walletAddressesEqual(connectedAccount, walletAddress), the latter from the
\* backend's answer for the session of the order.
AccountMatches(account) == account = order.session.wallet

\* executePreparedMarketTransactions up to the first transaction: the account
\* and then the chain are asked of the wallet, once.
WalletConnected ==
    LET account == FirstAccount(accounts, order.wallet.provider) IN
    /\ order # None /\ order.stage = "connecting"
    /\ IF account = None \/ ~AccountMatches(account)
       THEN OrderFails
       ELSE /\ order' = [order EXCEPT !.stage = "connected", !.from = account]
            /\ UNCHANGED <<trade, tradeSession, placed, accounts, chain, sent, tradeSteps>>

\* The chain is compared only when the session of the order names one.
ChainChecked ==
    /\ order # None /\ order.stage = "connected"
    /\ IF order.session.chained /\ chain[order.wallet.provider] # "expected"
       THEN OrderFails
       ELSE /\ order' = [order EXCEPT !.stage = "signing"]
            /\ UNCHANGED <<trade, tradeSession, placed, accounts, chain, sent, tradeSteps>>

\* The wallet refuses to connect or to name its chain.
WalletRefuses == order # None /\ order.stage \in {"connecting", "connected"} /\ OrderFails

\* The owner signs the transaction that is due.
TransactionSigned ==
    /\ order # None /\ order.stage = "signing"
    /\ sent' = Append(sent, [no |-> order.no, call |-> order.next, from |-> order.from])
    /\ IF order.next = Len(order.calls) THEN OrderSucceeds(order.hashes + 1)
       ELSE /\ order' = [order EXCEPT !.next = @ + 1, !.hashes = @ + 1]
            /\ UNCHANGED trade
    /\ UNCHANGED <<tradeSession, placed, accounts, chain, tradeSteps>>

\* The owner rejects it, or the wallet returns no hash.
TransactionRejected == order # None /\ order.stage = "signing" /\ OrderFails

\* onClose of the modal: by its timer whatever is shown by then, or by the
\* visitor when nothing is being submitted.
Closed(t) == [t EXCEPT !.modal = FALSE, !.message = None, !.amount = ZeroText]

ModalTimerFires ==
    /\ trade.timer
    /\ trade' = WithTimer([Closed(trade) EXCEPT !.timer = FALSE])
    /\ UNCHANGED <<order, tradeSession, placed, accounts, chain, sent, tradeSteps>>

CloseTradeModal ==
    /\ TradeStep
    /\ trade.modal /\ ~trade.submitting
    /\ trade' = WithTimer(Closed(trade))
    /\ UNCHANGED <<order, tradeSession, placed, accounts, chain, sent>>

\* External: the owner of a wallet connects another account or chain.
WalletChanged(p) ==
    /\ TradeStep
    /\ \/ \E as \in AccountsOf : as # accounts[p] /\ accounts' = [accounts EXCEPT ![p] = as]
                                 /\ UNCHANGED chain
       \/ chain' = [chain EXCEPT ![p] = IF @ = "expected" THEN "other" ELSE "expected"]
          /\ UNCHANGED accounts
    /\ UNCHANGED <<trade, order, tradeSession, placed, sent>>

\* The visitor signs in, out, or in as another, on the bar above or in another tab.
TradeSessionChanged(s) ==
    /\ TradeStep
    /\ s # tradeSession
    /\ tradeSession' = s
    /\ UNCHANGED <<trade, order, placed, accounts, chain, sent>>

TradeVisitor ==
    \/ \E m \in Market : TradePublished(m)
    \/ \E mode \in {"buy", "sell"} : EditTrade("mode", mode)
    \/ \E outcome \in Outcome : EditTrade("outcome", outcome)
    \/ \E amount \in Amounts : EditTrade("amount", amount)
    \/ SubmitTrade
    \/ CloseTradeModal
    \/ \E p \in Provider : WalletChanged(p)
    \/ \E s \in Sessions \cup {None} : TradeSessionChanged(s)

TradeAnswer ==
    \/ BackendTraded
    \/ BackendRefused
    \/ \E calls \in Prepared, page \in Pages :
          \E preferred \in {None} \cup {p.kind : p \in Provider} :
              BackendPrepared(calls, page, preferred)
    \/ WalletConnected
    \/ ChainChecked
    \/ WalletRefuses
    \/ TransactionSigned
    \/ TransactionRejected
    \/ ModalTimerFires

TradeNext == TradeVisitor \/ TradeAnswer

TradeSpec == TradeInit /\ [][TradeNext]_tradeVars

\* Whichever wallet is found, whatever its owner connects meanwhile and whoever
\* signs in or out, a transaction is only ever sent from the wallet of the user
\* who placed its order.  That user need not be signed in any more when it is
\* sent: nothing stops an order when its session is left.
SentFromWhoOrdered ==
    \A i \in DOMAIN sent :
        /\ sent[i].no \in DOMAIN placed
        /\ sent[i].from = placed[sent[i].no].wallet

\* A prepared transaction is only sent after the ones it was prepared to follow:
\* no trade is sent whose approval was rejected.
ApprovalComesFirst ==
    \A i \in DOMAIN sent :
        sent[i].call > 1 =>
            \E j \in 1 .. i - 1 : sent[j].no = sent[i].no /\ sent[j].call = sent[i].call - 1

\* What a wallet sends was ordered by its owner, and is sent in the order prepared.
TradesAreTheUsers == SentFromWhoOrdered /\ ApprovalComesFirst
=============================================================================
