-------------------------------- MODULE AdminBar --------------------------------
(***************************************************************************)
(* The admin site's bar: the account menu and the deposit dialog, which    *)
(* asks the faucet for test USDC and then reads the balance again and      *)
(* again, up to ConfirmAttempts times, until the payment shows.  Such a    *)
(* confirmation has request numbers of its own: it runs beside the reads   *)
(* of the dialog, and goes on when the dialog is closed and when another   *)
(* account signs in.  What the bar itself shows as cash is AdminSession's. *)
(***************************************************************************)
EXTENDS AdminSession

CONSTANTS ConfirmAttempts,  \* BALANCE_CONFIRMATION_ATTEMPTS
          MaxPayments,      \* bound: requests to the faucet
          MaxBarSteps       \* bound: what the admin does

VARIABLES recipient,   \* the wallet of the profile, or None
          menu,        \* the account menu is open
          transfer,    \* the deposit dialog
          transferCalls, \* its requests, and the confirmations between two of theirs
          funds,       \* external: the balance of each wallet
          barSteps

barVars == <<recipient, menu, transfer, transferCalls, funds, barSteps>>

\* shown tells who it was read for, and which code set it.
TransferShut ==
    [open |-> FALSE, amount |-> "empty", submitting |-> FALSE, receipt |-> None,
     message |-> None, shown |-> None, loading |-> FALSE, failed |-> FALSE,
     request |-> 0, confirmation |-> 0]

BarInit ==
    /\ recipient = None
    /\ menu = FALSE
    /\ transfer = TransferShut
    /\ transferCalls = {}
    /\ funds = [a \in Admin |-> 0]
    /\ barSteps = 0

BarStep == barSteps < MaxBarSteps /\ barSteps' = barSteps + 1

(***************************************************************************)
(* Reading the balance                                                     *)
(***************************************************************************)
Read(kind, number, for) ==
    [kind |-> kind, number |-> number, for |-> for, seen |-> None,
     attempt |-> 0, expected |-> 0, waiting |-> FALSE]

ShownAs(for, amount, by) == [of |-> for, amount |-> amount, by |-> by]

\* refreshBalance up to its await, and the request it sends.
Loading(d) == [d EXCEPT !.request = @ + 1, !.loading = TRUE, !.failed = FALSE]

Refresh(d, for) == Read("refresh", d.request, for)

\* The effect that reads the balance of the recipient of an open dialog.
ReadFor(d, for) ==
    IF ~d.open THEN [d EXCEPT !.loading = FALSE]
    ELSE IF for = None THEN [d EXCEPT !.shown = None, !.loading = FALSE, !.failed = FALSE]
    ELSE Loading(d)

ReadCalls(d, for) == IF d.open /\ for # None THEN {Refresh(d, for)} ELSE {}

(***************************************************************************)
(* The account, the menu and the dialog                                    *)
(***************************************************************************)
\* A sign-in, which may be an attempt begun before the account on screen; or
\* the restored session.
RecipientBecomes(a) ==
    /\ BarStep
    /\ recipient' = a
    /\ transfer' = ReadFor(transfer, a)
    /\ transferCalls' = transferCalls \cup ReadCalls(transfer', a)
    /\ UNCHANGED <<menu, funds>>

\* signOut of the bar, from its menu.
Disconnect ==
    /\ BarStep
    /\ recipient # None /\ menu
    /\ recipient' = None
    /\ menu' = FALSE
    /\ transfer' = ReadFor([transfer EXCEPT !.open = FALSE], None)
    /\ UNCHANGED <<transferCalls, funds>>

\* A click on the account.
ToggleMenu ==
    /\ recipient # None
    /\ menu' = ~menu
    /\ UNCHANGED <<recipient, transfer, transferCalls, funds, barSteps>>

\* A click elsewhere, Escape or another page closes the menu.
DismissMenu ==
    /\ menu
    /\ menu' = FALSE
    /\ UNCHANGED <<recipient, transfer, transferCalls, funds, barSteps>>

\* Opening runs the effect that resets the dialog, and the one that reads.
OpenTransfer ==
    LET reset == [transfer EXCEPT !.open = TRUE, !.amount = "empty", !.submitting = FALSE,
                     !.loading = FALSE, !.failed = FALSE, !.message = None, !.receipt = None]
    IN  /\ BarStep
        /\ recipient # None /\ ~transfer.open
        /\ menu' = FALSE
        /\ transfer' = ReadFor(reset, recipient)
        /\ transferCalls' = transferCalls \cup ReadCalls(transfer', recipient)
        /\ UNCHANGED <<recipient, funds>>

\* The button, the overlay and Escape.
CloseTransfer ==
    /\ BarStep
    /\ transfer.open
    /\ transfer' = ReadFor([transfer EXCEPT !.open = FALSE], recipient)
    /\ UNCHANGED <<recipient, menu, transferCalls, funds>>

\* A text that is no amount, or one that is.
TypeTransfer(amount) ==
    /\ transfer.open
    /\ amount # transfer.amount
    /\ transfer' = [transfer EXCEPT !.amount = amount]
    /\ UNCHANGED <<recipient, menu, transferCalls, funds, barSteps>>

\* handleSubmit up to its request; reopening the dialog re-enables the button
\* while an earlier request is out.
RequestTransfer ==
    LET tried == [transfer EXCEPT !.receipt = None, !.message = None]
        call  == [Read("faucet", barSteps, recipient) EXCEPT
                     !.expected = IF transfer.shown = None THEN 1 ELSE transfer.shown.amount + 1]
    IN  /\ BarStep
        /\ transfer.open /\ ~transfer.submitting
        /\ recipient # None /\ transfer.amount # "empty"
        /\ IF transfer.amount = "invalid"
           THEN transfer' = [tried EXCEPT !.message = "error"] /\ UNCHANGED transferCalls
           ELSE transfer' = [tried EXCEPT !.submitting = TRUE]
                /\ transferCalls' = transferCalls \cup {call}
        /\ UNCHANGED <<recipient, menu, funds>>

(***************************************************************************)
(* External: the faucet and the chain behind the backend                   *)
(***************************************************************************)
FaucetServes(call) ==
    /\ call.seen = None /\ call.for # None /\ ~call.waiting
    /\ call.kind = "faucet" => funds[call.for] < MaxPayments
    /\ funds' = IF call.kind = "faucet" THEN [funds EXCEPT ![call.for] = @ + 1] ELSE funds
    /\ transferCalls' = (transferCalls \ {call}) \cup {[call EXCEPT !.seen = funds'[call.for]]}
    /\ UNCHANGED <<recipient, menu, transfer, barSteps>>

(***************************************************************************)
(* The answers                                                             *)
(***************************************************************************)
\* The rest of refreshBalance.
RefreshAnswered(call, ok) ==
    /\ call.kind = "refresh"
    /\ ok => call.seen # None
    /\ transferCalls' = transferCalls \ {call}
    /\ transfer' = IF call.number # transfer.request THEN transfer
                   ELSE [transfer EXCEPT !.loading = FALSE, !.failed = ~ok,
                            !.shown = IF ok THEN ShownAs(call.for, call.seen, "refresh") ELSE None]
    /\ UNCHANGED <<recipient, menu, funds, barSteps>>

\* The rest of handleSubmit: the credit is added to what is shown, and its
\* confirmation starts for the account that is signed in by then.
TransferPaid(call) ==
    LET shown    == transfer.shown
        credited == IF shown = None THEN ShownAs(call.for, 1, "credit")
                    ELSE ShownAs(shown.of, shown.amount + 1, "credit")
    IN  /\ call.kind = "faucet" /\ call.seen # None
        /\ transfer' = [transfer EXCEPT !.submitting = FALSE, !.message = "success",
                           !.amount = "empty", !.shown = credited, !.confirmation = @ + 1,
                           !.receipt = [for |-> call.for, after |-> call.seen]]
        /\ transferCalls' = (transferCalls \ {call}) \cup
              {[Read("confirm", transfer'.confirmation, recipient) EXCEPT
                   !.attempt = 1, !.expected = call.expected]}
        /\ UNCHANGED <<recipient, menu, funds, barSteps>>

TransferFails(call) ==
    /\ call.kind = "faucet"
    /\ transfer' = [transfer EXCEPT !.submitting = FALSE, !.message = "error"]
    /\ transferCalls' = transferCalls \ {call}
    /\ UNCHANGED <<recipient, menu, funds, barSteps>>

\* Mutant of IsLatestConfirmation: every confirmation goes on.
IsAnyConfirmation(call) == TRUE

\* confirmationRequestId === balanceConfirmationRequestId.
IsLatestConfirmation(call) == call.number = transfer.confirmation

\* One attempt of confirmBalanceUpdate: it ends the confirmation, or is
\* followed by another, or, the last one, by an ordinary refresh.
ConfirmAnswered(call, ok) ==
    LET after == IF ok THEN [transfer EXCEPT !.failed = FALSE,
                                !.shown = ShownAs(call.for, call.seen, "confirm")]
                 ELSE transfer
        rest  == transferCalls \ {call}
        next  == [call EXCEPT !.seen = None, !.attempt = @ + 1, !.waiting = TRUE]
    IN  /\ call.kind = "confirm" /\ ~call.waiting
        /\ ok => call.seen # None
        /\ IF ~IsLatestConfirmation(call) \/ (ok /\ call.seen >= call.expected)
           THEN /\ transfer' = IF IsLatestConfirmation(call) THEN after ELSE transfer
                /\ transferCalls' = rest
           ELSE IF call.attempt < ConfirmAttempts
           THEN transfer' = after /\ transferCalls' = rest \cup {next}
           ELSE transfer' = Loading(after) /\ transferCalls' = rest \cup {Refresh(transfer', call.for)}
        /\ UNCHANGED <<recipient, menu, funds, barSteps>>

\* The delay before the next attempt is over.
ConfirmDelayEnds(call) ==
    /\ call.waiting
    /\ transferCalls' = (transferCalls \ {call}) \cup {[call EXCEPT !.waiting = FALSE]}
    /\ UNCHANGED <<recipient, menu, transfer, funds, barSteps>>

BarNext ==
    \/ \E a \in Admin : RecipientBecomes(a)
    \/ Disconnect
    \/ ToggleMenu
    \/ DismissMenu
    \/ OpenTransfer
    \/ CloseTransfer
    \/ \E amount \in {"empty", "invalid", "valid"} : TypeTransfer(amount)
    \/ RequestTransfer
    \/ \E call \in transferCalls :
          \/ FaucetServes(call)
          \/ TransferPaid(call)
          \/ TransferFails(call)
          \/ ConfirmDelayEnds(call)
          \/ \E ok \in BOOLEAN : RefreshAnswered(call, ok) \/ ConfirmAnswered(call, ok)

BarSpec == BarInit /\ [][BarNext]_barVars

\* A balance that a confirmation put on screen is not older than the payment
\* whose receipt is beside it: the reads of an earlier payment's confirmation
\* do not replace it, however late they are answered.
ConfirmedAfterPayment ==
    LET shown == transfer.shown IN
    (/\ transfer.receipt # None
     /\ shown # None
     /\ shown.by = "confirm"
     /\ shown.of = transfer.receipt.for)
        => shown.amount >= transfer.receipt.after

\* Sign-ins and sign-outs that run into each other leave the account shown and the
\* token that is stored together, but for a profile read for a replaced token; the
\* cash shown is the shown account's; and payments that run into each other do not
\* mix up the balance.
AccountsAreNotMixed ==
    ProfileIsOfTheToken /\ CashIsTheAdmins /\ ConfirmedAfterPayment
=============================================================================
