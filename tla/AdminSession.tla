----------------------------- MODULE AdminSession -----------------------------
(***************************************************************************)
(* Who the admin site is signed in as: the token in local storage, the     *)
(* session and the profile of useAdminWalletAuth, the dialog that signs in *)
(* with a wallet, and the cash shown beside the account.  An attempt is    *)
(* one click on a wallet: it goes on when the dialog is closed, so several *)
(* may run, and they share one pending flag, one challenge and one token.  *)
(* Nothing tells an attempt that another has signed in since.  Tokens,     *)
(* sessions and challenges are named by the account they are of.           *)
(***************************************************************************)
EXTENDS Site

CONSTANTS Admin,         \* the wallets that may sign in, each with its account
          MaxAttempts,   \* bound: clicks on a wallet or on Continue
          MaxCashReads   \* bound: reads of a balance

VARIABLES token,      \* the token in local storage
          identity,   \* session, profile and the last challenge
          authPending, \* useAdminWalletAuth's pending
          authDialog,  \* AdminAuthDialog
          signIns,     \* the attempts under way, and the profile reads
          attempted,  \* the attempts made
          adminCash,   \* AdminNavbar's balance and the reads of it
          closers,     \* the timers that close the dialog, and closeTimer
          overtaken    \* history: the profile was read for a token replaced by then

adminVars == <<token, identity, authPending, authDialog, signIns, attempted, adminCash,
               closers, overtaken>>

\* What the dialog's effect makes of its signals when it is closed.
DialogShut == [open |-> FALSE, wallets |-> FALSE, active |-> 0, waiting |-> None]

NoIdentity == [session |-> None, profile |-> None, challenge |-> None]

NoCash == [value |-> None, loading |-> FALSE, failed |-> FALSE]

\* One attempt.  challenge and signature name the account they are of.
AdminAttempt(stage, account) ==
    [number |-> attempted + 1, stage |-> stage, account |-> account,
     challenge |-> None, signature |-> None, username |-> FALSE]

\* restoreSession: a token found in storage is tried at once, as attempt 0.
AdminInit ==
    /\ token \in {None} \cup Admin
    /\ identity = NoIdentity
    /\ authPending = (token # None)
    /\ authDialog = DialogShut
    /\ signIns = IF token = None THEN {}
                  ELSE {[number |-> 0, stage |-> "profile", account |-> token,
                         challenge |-> None, signature |-> None, username |-> FALSE]}
    /\ attempted = 0
    /\ adminCash = [shown |-> NoCash, latest |-> 0, reads |-> {}]
    /\ closers = [due |-> {}, latest |-> 0]
    /\ overtaken = FALSE

(***************************************************************************)
(* The cash balance                                                        *)
(***************************************************************************)
CanRead == adminCash.latest < MaxCashReads

\* refreshCashBalance.  Without a wallet nothing is read.
Refreshed(account) ==
    IF account = None THEN [adminCash EXCEPT !.shown = NoCash]
    ELSE [shown  |-> [adminCash.shown EXCEPT !.loading = TRUE, !.failed = FALSE],
          latest |-> adminCash.latest + 1,
          reads  |-> adminCash.reads \cup {[number |-> adminCash.latest + 1, account |-> account]}]

\* The timer, the window's focus, the deposit dialog or a bootstrap asks again.
RefreshCash ==
    /\ identity.profile # None
    /\ CanRead
    /\ adminCash' = Refreshed(identity.profile)
    /\ UNCHANGED <<token, identity, authPending, authDialog, signIns, attempted, overtaken, closers>>

\* requestId === cashBalanceRequestId.
IsLatestRead(read) == read.number = adminCash.latest

CashRead(read, ok) ==
    /\ adminCash' = [adminCash EXCEPT !.reads = @ \ {read},
                            !.shown = IF IsLatestRead(read)
                                      THEN [value   |-> IF ok THEN read.account ELSE None,
                                            loading |-> FALSE, failed |-> ~ok]
                                      ELSE @]
    /\ UNCHANGED <<token, identity, authPending, authDialog, signIns, attempted, overtaken, closers>>

(***************************************************************************)
(* The dialog                                                              *)
(***************************************************************************)
OpenAuthDialog ==
    /\ ~authDialog.open
    /\ identity.profile = None
    /\ authDialog' = [authDialog EXCEPT !.open = TRUE, !.wallets = FALSE]
    /\ UNCHANGED <<token, identity, authPending, signIns, attempted, adminCash, overtaken, closers>>

WalletsFound ==
    /\ authDialog.open
    /\ ~authDialog.wallets
    /\ authDialog' = [authDialog EXCEPT !.wallets = TRUE]
    /\ UNCHANGED <<token, identity, authPending, signIns, attempted, adminCash, overtaken, closers>>

\* The dialog's effect clears the timer it knows of when an open dialog closes.
ClosersLeft ==
    IF authDialog.open THEN [due |-> closers.due \ {closers.latest}, latest |-> 0] ELSE closers

\* Escape, the overlay and the button close the dialog unless a call is pending.
CloseAuthDialog ==
    /\ authDialog.open
    /\ ~authPending
    /\ authDialog' = DialogShut
    /\ closers' = ClosersLeft
    /\ UNCHANGED <<token, identity, authPending, signIns, attempted, adminCash, overtaken>>

\* The timer of a sign-in closes the dialog, whoever has opened it since and
\* whatever is pending.
CloserFires(number) ==
    /\ authDialog' = IF authDialog.open THEN DialogShut ELSE authDialog
    /\ closers' = [ClosersLeft EXCEPT !.due = @ \ {number}]
    /\ UNCHANGED <<token, identity, authPending, signIns, attempted, adminCash, overtaken>>

ChooseAnotherWallet ==
    /\ authDialog.open
    /\ authDialog.waiting # None
    /\ ~authPending
    /\ authDialog' = [authDialog EXCEPT !.waiting = None]
    /\ UNCHANGED <<token, identity, authPending, signIns, attempted, adminCash, overtaken, closers>>

AdminWalletClicked ==
    LET attempt == AdminAttempt("account", None) IN
    /\ authDialog.open /\ authDialog.wallets
    /\ authDialog.waiting = None
    /\ ~authPending
    /\ authDialog.active = 0
    /\ attempted < MaxAttempts
    /\ attempted' = attempted + 1
    /\ signIns' = signIns \cup {attempt}
    /\ authDialog' = [authDialog EXCEPT !.active = attempt.number]
    /\ UNCHANGED <<token, identity, authPending, adminCash, overtaken, closers>>

\* A wallet that asked for a username sends what it has signed once more.
AdminUsernameSubmitted ==
    LET attempt == [authDialog.waiting EXCEPT !.number = attempted + 1, !.stage = "connecting",
                                          !.username = TRUE]
    IN  /\ authDialog.open
        /\ authDialog.waiting # None
        /\ ~authPending
        /\ attempted < MaxAttempts
        /\ attempted' = attempted + 1
        /\ signIns' = signIns \cup {attempt}
        /\ authDialog' = [authDialog EXCEPT !.active = attempt.number]
        /\ authPending' = TRUE
        /\ UNCHANGED <<token, identity, adminCash, overtaken, closers>>

(***************************************************************************)
(* The steps of an attempt                                                 *)
(***************************************************************************)
Goes(attempt, next) == signIns' = (signIns \ {attempt}) \cup {next}

\* handleWalletClick's finally: the dialog has no active wallet, whichever
\* attempt it was of.
Ends(attempt) ==
    /\ signIns' = signIns \ {attempt}
    /\ authDialog' = [authDialog EXCEPT !.active = 0]

AccountGranted(attempt, account) ==
    /\ attempt.stage = "account"
    /\ Goes(attempt, [attempt EXCEPT !.stage = "challenge", !.account = account])
    /\ authPending' = TRUE
    /\ UNCHANGED <<token, identity, authDialog, attempted, adminCash, overtaken, closers>>

\* requestChallenge keeps the challenge, and hands it to its attempt.
ChallengeRead(attempt) ==
    /\ attempt.stage = "challenge"
    /\ identity' = [identity EXCEPT !.challenge = attempt.account]
    /\ Goes(attempt, [attempt EXCEPT !.stage = "signing", !.challenge = attempt.account])
    /\ authPending' = FALSE
    /\ UNCHANGED <<token, authDialog, attempted, adminCash, overtaken, closers>>

MessageSigned(attempt) ==
    /\ attempt.stage = "signing"
    /\ Goes(attempt, [attempt EXCEPT !.stage = "connecting", !.signature = attempt.account])
    /\ authPending' = TRUE
    /\ UNCHANGED <<token, identity, authDialog, attempted, adminCash, overtaken, closers>>

\* The wallet refuses, or no challenge is given.
AdminAttemptFails(attempt) ==
    /\ attempt.stage \in {"account", "challenge", "signing"}
    /\ Ends(attempt)
    /\ authPending' = IF attempt.stage = "challenge" THEN FALSE ELSE authPending
    /\ UNCHANGED <<token, identity, attempted, adminCash, overtaken, closers>>

\* The backend takes a signature by the account it challenged.
AdminSignedIn(attempt) ==
    /\ attempt.stage = "connecting"
    /\ attempt.challenge = attempt.signature
    /\ token' = attempt.account
    /\ identity' = [identity EXCEPT !.session = attempt.account]
    /\ Goes(attempt, [attempt EXCEPT !.stage = "profile"])
    /\ UNCHANGED <<authPending, authDialog, attempted, adminCash, overtaken, closers>>

\* A wallet without an account is asked for a username; a username that is
\* refused is asked for again.
UsernameWanted(attempt) ==
    /\ attempt.stage = "connecting"
    /\ signIns' = signIns \ {attempt}
    /\ authDialog' = [authDialog EXCEPT !.active = 0,
                                !.waiting = IF attempt.username THEN @ ELSE attempt]
    /\ authPending' = FALSE
    /\ UNCHANGED <<token, identity, attempted, adminCash, overtaken, closers>>

SignInRefused(attempt) ==
    /\ attempt.stage = "connecting"
    /\ ~attempt.username
    /\ Ends(attempt)
    /\ authPending' = FALSE
    /\ UNCHANGED <<token, identity, attempted, adminCash, overtaken, closers>>

\* refreshProfile: the profile shown is the one read, whichever token is stored
\* by then; the dialog closes, and the balance of its wallet is read.  An attempt
\* sets the timer that closes the dialog after that.
ProfileRead(attempt) ==
    /\ attempt.stage = "profile"
    /\ CanRead
    /\ identity' = [identity EXCEPT !.profile = attempt.account,
                                    !.session = IF @ = None THEN attempt.account ELSE @]
    /\ signIns' = signIns \ {attempt}
    /\ authDialog' = DialogShut
    /\ authPending' = FALSE
    /\ adminCash' = Refreshed(attempt.account)
    /\ closers' = IF attempt.number = 0 THEN ClosersLeft
                  ELSE [due |-> ClosersLeft.due \cup {attempt.number}, latest |-> attempt.number]
    /\ overtaken' = (token # attempt.account)
    /\ UNCHANGED <<token, attempted>>

\* A token that is refused signs out; any failure of an attempt's does, and one
\* on restoring leaves what there is.
ProfileFails(attempt, denied) ==
    /\ attempt.stage = "profile"
    /\ signIns' = signIns \ {attempt}
    /\ authDialog' = IF attempt.number = 0 THEN authDialog ELSE [authDialog EXCEPT !.active = 0]
    /\ authPending' = FALSE
    /\ IF denied \/ attempt.number # 0
       THEN /\ token' = None
            /\ identity' = IF denied THEN NoIdentity
                           ELSE [identity EXCEPT !.session = None, !.profile = None]
            /\ adminCash' = IF identity.profile = None THEN adminCash ELSE Refreshed(None)
            /\ overtaken' = FALSE
       ELSE UNCHANGED <<token, identity, adminCash, overtaken>>
    /\ UNCHANGED <<attempted, closers>>

\* AdminNavbar's signOut.
SignOutAdmin ==
    /\ identity.profile # None
    /\ token' = None
    /\ identity' = NoIdentity
    /\ adminCash' = Refreshed(None)
    /\ overtaken' = FALSE
    /\ UNCHANGED <<authPending, authDialog, signIns, attempted, closers>>

AdminNext ==
    \/ RefreshCash
    \/ \E read \in adminCash.reads, ok \in BOOLEAN : CashRead(read, ok)
    \/ OpenAuthDialog
    \/ WalletsFound
    \/ CloseAuthDialog
    \/ \E number \in closers.due : CloserFires(number)
    \/ ChooseAnotherWallet
    \/ AdminWalletClicked
    \/ AdminUsernameSubmitted
    \/ SignOutAdmin
    \/ \E attempt \in signIns :
          \/ \E account \in Admin : AccountGranted(attempt, account)
          \/ ChallengeRead(attempt)
          \/ MessageSigned(attempt)
          \/ AdminAttemptFails(attempt)
          \/ AdminSignedIn(attempt)
          \/ UsernameWanted(attempt)
          \/ SignInRefused(attempt)
          \/ ProfileRead(attempt)
          \/ \E denied \in BOOLEAN : ProfileFails(attempt, denied)

AdminSpec == AdminInit /\ [][AdminNext]_adminVars

\* The account shown is the one whose token is stored and goes out with what the
\* admin does, or that one's profile is being read; and the session is the
\* token's.  The exception is a profile that was read for a token replaced by
\* then: two sign-ins whose profiles were answered in the other order, or one
\* answered after a sign-out.
ProfileIsOfTheToken ==
    /\ identity.profile # None /\ ~overtaken =>
          \/ token = identity.profile
          \/ \E attempt \in signIns : attempt.stage = "profile" /\ attempt.account = token
    /\ identity.session # None /\ token # None => identity.session = token

\* The cash shown beside an account is that account's, through sign-outs,
\* sign-ins and reads that come in any order.
CashIsTheAdmins ==
    identity.profile # None /\ ~adminCash.shown.loading /\ adminCash.shown.value # None
        => adminCash.shown.value = identity.profile
=============================================================================
