------------------------------- MODULE Balances -------------------------------
(***************************************************************************)
(* The balances the public site shows of the account that is signed in:    *)
(* cash and portfolio in the navigation bar, and the balance of the        *)
(* deposit dialog, which also asks the faucet for test USDC.  Every        *)
(* balance is read anew when the account changes, and numbered requests    *)
(* keep an older answer from replacing a newer one.  The bar keeps the     *)
(* user and the token of the account apart: an answer about the session    *)
(* the page was opened with sets the user alone.                           *)
(***************************************************************************)
EXTENDS Site

CONSTANTS WalletOf,        \* the wallet address of each user, None without one
          MaxCredits,      \* bound: what the faucet ever pays out
          MaxBalanceSteps  \* bound: what the visitor does

VARIABLES user,            \* the account the bar names, or None
          bearer,           \* the account whose token the bar holds, or None
          stored,          \* the account of the session the page was opened with
          fetching,        \* fetchMe, sent for that session, is not answered
          cash,            \* the cash balance of the bar
          portfolio,       \* the portfolio balance of the bar
          accountMenu,     \* the menu of the account is open
          deposit,         \* the deposit dialog
          balanceCalls,    \* the requests in flight: seen is what was on the chain
                           \* when it was sent, or what the faucet made of it
          onChain,         \* external: the balance of each address
          balanceSteps

signedInVars == <<user, bearer, stored, fetching>>

balanceVars == <<signedInVars, cash, portfolio, accountMenu, deposit, balanceCalls, onChain,
                 balanceSteps>>

WalletAddress == {WalletOf[u] : u \in User} \ {None}

AddressOf(u) == IF u = None THEN None ELSE WalletOf[u]

\* A balance as it is shown: what it was read for, and the amount.  The latest
\* request has a number and was sent for an address, or a token.
NotRead == [shown |-> None, loading |-> FALSE, failed |-> FALSE, request |-> 0, asked |-> None]

DialogClosed == [open |-> FALSE, amount |-> "empty", submitting |-> FALSE,
                 receipt |-> None, message |-> None, balance |-> NotRead]

BalanceStep == balanceSteps < MaxBalanceSteps /\ balanceSteps' = balanceSteps + 1

(***************************************************************************)
(* Reading a balance.  An answer is None, or what was read for whom.       *)
(***************************************************************************)
\* The state a refresh for an address, or a token, waits for its answer in.
Refreshing(b, for) ==
    [b EXCEPT !.request = @ + 1, !.loading = TRUE, !.failed = FALSE, !.asked = for]

\* Without one: what is shown is taken away, and no request is numbered.
Cleared(b) == [b EXCEPT !.shown = None, !.loading = FALSE, !.failed = FALSE]

OnChain(for) == IF for \in WalletAddress THEN onChain[for] ELSE 0

BalanceCall(kind, b) ==
    [kind |-> kind, request |-> b.request, for |-> b.asked, seen |-> OnChain(b.asked)]

\* Mutant of BalanceSettled: whichever answer comes last is shown.
BalanceSettledLast(b, call, ok, amount) ==
    [b EXCEPT !.shown = IF ok THEN [of |-> call.for, amount |-> amount] ELSE None,
              !.failed = ~ok, !.loading = FALSE]

\* The rest of a refresh once its request is answered.
BalanceSettled(b, call, ok, amount) ==
    IF call.request # b.request THEN b
    ELSE [b EXCEPT !.shown = IF ok THEN [of |-> call.for, amount |-> amount] ELSE None,
                   !.failed = ~ok, !.loading = FALSE]

(***************************************************************************)
(* The account changes: the effects of the bar and of an open dialog run.  *)
(***************************************************************************)
\* refreshNavbarBalance.
CashOf(u) == IF AddressOf(u) = None THEN Cleared(cash) ELSE Refreshing(cash, AddressOf(u))

PortfolioOf(t) == IF t = None THEN Cleared(portfolio) ELSE Refreshing(portfolio, t)

\* The effect of the dialog that reads the balance of its recipient.
DialogBalance(d, u) ==
    IF ~d.open THEN [d EXCEPT !.balance.loading = FALSE]
    ELSE IF AddressOf(u) = None THEN [d EXCEPT !.balance = Cleared(@)]
    ELSE [d EXCEPT !.balance = Refreshing(@, AddressOf(u))]

\* The requests those effects send.
CashCalls(u, b) == IF AddressOf(u) = None THEN {} ELSE {BalanceCall("cash", b)}

PortfolioCalls(t, b) == IF t = None THEN {} ELSE {BalanceCall("portfolio", b)}

DialogCalls(u, d) ==
    IF ~d.open \/ AddressOf(u) = None THEN {} ELSE {BalanceCall("dialog", d.balance)}

\* A signal that was None and stays so runs no effect.
UserBecomes(u, d) ==
    /\ user' = u
    /\ IF u = None /\ user = None
       THEN UNCHANGED cash /\ deposit' = d
       ELSE cash' = CashOf(u) /\ deposit' = DialogBalance(d, u)

TokenBecomes(t) ==
    /\ bearer' = t
    /\ portfolio' = IF t = None /\ bearer = None THEN portfolio ELSE PortfolioOf(t)

\* A page that opens with a stored session signs its account in and asks
\* fetchMe about it.
BalancesInit ==
    /\ stored \in User \cup {None}
    /\ user = stored
    /\ bearer = stored
    /\ fetching = (stored # None)
    /\ cash = IF AddressOf(stored) = None THEN NotRead ELSE Refreshing(NotRead, AddressOf(stored))
    /\ portfolio = IF stored = None THEN NotRead ELSE Refreshing(NotRead, stored)
    /\ accountMenu = FALSE
    /\ deposit = DialogClosed
    /\ onChain = [a \in WalletAddress |-> 0]
    /\ balanceCalls = CashCalls(stored, cash) \cup PortfolioCalls(stored, portfolio)
    /\ balanceSteps = 0

\* A sign-in, which a dialog closed long ago may still finish over another
\* account.
SignedIn(u) ==
    /\ BalanceStep
    /\ <<u, u>> # <<user, bearer>>
    /\ accountMenu' = FALSE
    /\ TokenBecomes(u)
    /\ UserBecomes(u, deposit)
    /\ balanceCalls' = balanceCalls \cup PortfolioCalls(u, portfolio')
          \cup CashCalls(u, cash') \cup DialogCalls(u, deposit')
    /\ UNCHANGED <<stored, fetching, onChain>>

\* Sign Out is in the menu of the account.
SignedOut ==
    /\ BalanceStep
    /\ user # None /\ accountMenu
    /\ accountMenu' = FALSE
    /\ TokenBecomes(None)
    /\ UserBecomes(None, [deposit EXCEPT !.open = FALSE])
    /\ UNCHANGED <<stored, fetching, balanceCalls, onChain>>

\* fetchMe answers for the stored session, whoever has signed in or out since:
\* the user is set and the token is not, or both are removed.
UserRefreshed(ok) ==
    /\ fetching
    /\ fetching' = FALSE
    /\ IF ok
       THEN /\ UserBecomes(stored, deposit)
            /\ balanceCalls' = balanceCalls \cup CashCalls(stored, cash')
                                            \cup DialogCalls(stored, deposit')
            /\ UNCHANGED <<bearer, portfolio>>
       ELSE /\ TokenBecomes(None)
            /\ UserBecomes(None, deposit)
            /\ UNCHANGED balanceCalls
    /\ UNCHANGED <<stored, accountMenu, onChain, balanceSteps>>

ToggleAccountMenu ==
    /\ user # None
    /\ accountMenu' = ~accountMenu
    /\ UNCHANGED <<signedInVars, cash, portfolio, deposit, balanceCalls, onChain, balanceSteps>>

\* A click elsewhere, or Escape.
DismissAccountMenu ==
    /\ accountMenu
    /\ accountMenu' = FALSE
    /\ UNCHANGED <<signedInVars, cash, portfolio, deposit, balanceCalls, onChain, balanceSteps>>

(***************************************************************************)
(* The deposit dialog.                                                     *)
(***************************************************************************)
\* Opening it runs the effect that clears it and then the one that reads.
OpenDeposit ==
    LET cleared == [deposit EXCEPT !.open = TRUE, !.amount = "empty", !.submitting = FALSE,
                       !.receipt = None, !.message = None, !.balance.failed = FALSE]
    IN  /\ BalanceStep
        /\ user # None /\ ~deposit.open
        /\ accountMenu' = FALSE
        /\ deposit' = DialogBalance(cleared, user)
        /\ balanceCalls' = balanceCalls \cup DialogCalls(user, deposit')
        /\ UNCHANGED <<signedInVars, cash, portfolio, onChain>>

CloseDeposit ==
    /\ BalanceStep
    /\ deposit.open
    /\ deposit' = DialogBalance([deposit EXCEPT !.open = FALSE], user)
    /\ UNCHANGED <<signedInVars, cash, portfolio, accountMenu, balanceCalls, onChain>>

\* What parseUsdcAmountInput makes of a text: nothing, no positive number of
\* at most six decimals, or one.
TypeAmount(amount) ==
    /\ BalanceStep
    /\ deposit.open
    /\ amount # deposit.amount
    /\ deposit' = [deposit EXCEPT !.amount = amount]
    /\ UNCHANGED <<signedInVars, cash, portfolio, accountMenu, balanceCalls, onChain>>

\* canSubmit.
CanSubmit == AddressOf(user) # None /\ deposit.amount # "empty" /\ ~deposit.submitting

\* handleSubmit up to its request.
SubmitDeposit ==
    /\ BalanceStep
    /\ deposit.open /\ CanSubmit
    /\ IF deposit.amount = "invalid"
       THEN /\ deposit' = [deposit EXCEPT !.receipt = None, !.message = "error"]
            /\ UNCHANGED balanceCalls
       ELSE /\ deposit' = [deposit EXCEPT !.receipt = None, !.message = None,
                                          !.submitting = TRUE]
            /\ balanceCalls' = balanceCalls \cup
                  {[kind |-> "faucet", request |-> balanceSteps,
                    for |-> AddressOf(user), seen |-> None]}
    /\ UNCHANGED <<signedInVars, cash, portfolio, accountMenu, onChain>>

(***************************************************************************)
(* The backend serves a request, and its answer arrives later.             *)
(***************************************************************************)
\* External: the faucet has paid when its request is answered.
FaucetPays(call) ==
    /\ call.kind = "faucet" /\ call.seen = None
    /\ onChain[call.for] < MaxCredits
    /\ onChain' = [onChain EXCEPT ![call.for] = @ + 1]
    /\ balanceCalls' = (balanceCalls \ {call}) \cup {[call EXCEPT !.seen = onChain[call.for] + 1]}
    /\ UNCHANGED <<signedInVars, cash, portfolio, accountMenu, deposit, balanceSteps>>

\* The rest of refreshNavbarBalance, of refreshPortfolioBalance, and of the
\* dialog's refreshBalance.  The backend read the chain at any time since the
\* request was sent; without an address it refuses the request.
BalanceAnswered(call, ok) ==
    /\ call.kind \in {"cash", "dialog", "portfolio"}
    /\ ok => call.for # None
    /\ balanceCalls' = balanceCalls \ {call}
    /\ \E amount \in call.seen .. OnChain(call.for) :
          /\ cash' = IF call.kind = "cash" THEN BalanceSettled(cash, call, ok, amount) ELSE cash
          /\ portfolio' = IF call.kind = "portfolio" THEN BalanceSettled(portfolio, call, ok, amount)
                          ELSE portfolio
          /\ deposit' = IF call.kind = "dialog"
                        THEN [deposit EXCEPT !.balance = BalanceSettled(@, call, ok, amount)]
                        ELSE deposit
    /\ UNCHANGED <<signedInVars, accountMenu, onChain, balanceSteps>>

\* The rest of handleSubmit: the credit is added to what is shown and both
\* balances are read again, for the account that is signed in by then.
FaucetAnswered(call, ok) ==
    LET shown    == deposit.balance.shown
        credited == IF shown = None THEN [of |-> call.for, amount |-> 1]
                    ELSE [shown EXCEPT !.amount = @ + 1]
        paid == [deposit EXCEPT !.submitting = FALSE, !.message = "success",
                    !.amount = "empty", !.receipt = [for |-> call.for, after |-> call.seen],
                    !.balance = Refreshing([@ EXCEPT !.shown = credited], AddressOf(user))]
    IN  /\ call.kind = "faucet"
        /\ ok => call.seen # None
        /\ IF ok
           THEN /\ deposit' = paid
                /\ cash' = CashOf(user)
                /\ balanceCalls' = (balanceCalls \ {call}) \cup CashCalls(user, cash')
                      \cup {BalanceCall("dialog", paid.balance)}
           ELSE /\ deposit' = [deposit EXCEPT !.submitting = FALSE, !.message = "error"]
                /\ balanceCalls' = balanceCalls \ {call}
                /\ UNCHANGED cash
        /\ UNCHANGED <<signedInVars, portfolio, accountMenu, onChain, balanceSteps>>

BalancesNext ==
    \/ \E u \in User : SignedIn(u)
    \/ \E ok \in BOOLEAN : UserRefreshed(ok)
    \/ SignedOut
    \/ ToggleAccountMenu
    \/ DismissAccountMenu
    \/ OpenDeposit
    \/ CloseDeposit
    \/ \E amount \in {"empty", "invalid", "valid"} : TypeAmount(amount)
    \/ SubmitDeposit
    \/ \E call \in balanceCalls :
          \/ FaucetPays(call)
          \/ \E ok \in BOOLEAN : BalanceAnswered(call, ok) \/ FaucetAnswered(call, ok)

BalancesSpec == BalancesInit /\ [][BalancesNext]_balanceVars

\* A balance that is neither loading nor unavailable.
Settled(b) == ~b.loading /\ ~b.failed /\ b.shown # None

\* Each balance is the answer to the latest request for it: an older answer
\* never replaces a newer one.  That request was for the wallet of the user the
\* bar names, if there is one, and for the account of its token; and the balance
\* of the open dialog was not read before the payment its receipt reports.  User
\* and token are of one account, unless fetchMe's answer for the session the
\* page was opened with came after another sign-in, or a sign-out: whatever order
\* sign-ins, sign-outs, payments and answers come in.
BalancesAreOfTheAccount ==
    LET address == AddressOf(user) IN
    /\ Settled(cash) => cash.shown.of = cash.asked
    /\ address # None => cash.asked = address
    /\ Settled(portfolio) => portfolio.shown.of = portfolio.asked
    /\ bearer # None => portfolio.asked = bearer
    /\ deposit.open /\ Settled(deposit.balance) =>
          /\ deposit.balance.shown.of = deposit.balance.asked
          /\ deposit.receipt # None /\ deposit.receipt.for = deposit.balance.asked
             => deposit.balance.shown.amount >= deposit.receipt.after
    /\ deposit.open /\ address # None => deposit.balance.asked = address
    /\ user = bearer \/ (user = stored /\ ~fetching)
=============================================================================
