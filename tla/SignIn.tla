-------------------------------- MODULE SignIn --------------------------------
(***************************************************************************)
(* Signing in to the public site: the dialog of AuthModal, the Google      *)
(* window and the message it sends back, wallet challenges, the session    *)
(* kept in the browser and the session the navigation bar works with.  An  *)
(* attempt runs on when the dialog is closed: nothing cancels it.          *)
(***************************************************************************)
EXTENDS Site

CONSTANTS Account,         \* who may sign in
          Installed,       \* the wallets this browser has, of the kinds looked for
          MaxSignInSteps   \* bound: what the visitor does

\* The state of the buttons tells a wallet in use from none.
ASSUME SignInAssumption == None \notin Installed \cup {"challenge"}

VARIABLES dialog,          \* the signals of the dialog
          discovery,       \* the discoveries of wallets still out, by number
          attempts,        \* every sign-in started, in order
          popup,           \* external: the attempt the Google window is open for
          session,         \* the session in the browser's storage
          bar,             \* authUser and authToken of the bar
          fetchingMe,      \* the session fetchMe was asked for as the page opened
          closeTimers,     \* timers that will close the dialog: closeTimer first
          signInSteps

signInVars == <<dialog, discovery, attempts, popup, session, bar, fetchingMe,
                closeTimers, signInSteps>>

\* The signals the dialog starts with, and is closed to.
DialogReset == [discovering |-> FALSE, wallets |-> {}, google |-> FALSE,
                active |-> None, username |-> None, pending |-> None, message |-> None,
                open |-> FALSE, number |-> 0]

\* A session: its user, and the attempt its token was issued for (0: earlier).
SessionOf(account, token) == [user |-> account, token |-> token]

SignedOutBar == [user |-> None, token |-> None]

\* The page opens: readStoredAuthSession, then fetchMe with its token.
SignInInit ==
    /\ session \in {None} \cup {SessionOf(a, 0) : a \in Account}
    /\ bar = IF session = None THEN SignedOutBar ELSE session
    /\ fetchingMe = session
    /\ dialog = DialogReset
    /\ discovery = {}
    /\ attempts = <<>>
    /\ popup = None
    /\ closeTimers = [current |-> FALSE, orphans |-> 0]
    /\ signInSteps = 0

SignInStep == signInSteps < MaxSignInSteps /\ signInSteps' = signInSteps + 1

\* The dialog's own messages: an error, or how far it has come.
Says(d, message) == [d EXCEPT !.message = message]

(***************************************************************************)
(* Opening and closing the dialog: the effect that follows props.open.     *)
(***************************************************************************)
OpenDialog ==
    /\ SignInStep
    /\ bar.user = None /\ ~dialog.open
    /\ dialog' = [dialog EXCEPT !.open = TRUE, !.number = @ + 1, !.discovering = TRUE,
                                !.message = None]
    /\ discovery' = discovery \cup {dialog.number + 1}
    /\ UNCHANGED <<attempts, popup, session, bar, fetchingMe, closeTimers>>

\* What closing does to the dialog and to closeTimer.
Shut(d) == [DialogReset EXCEPT !.number = d.number]

ShutTimers(d) == IF d.open THEN [closeTimers EXCEPT !.current = FALSE] ELSE closeTimers

CloseDialog ==
    /\ SignInStep
    /\ dialog.open
    /\ dialog' = Shut(dialog)
    /\ closeTimers' = ShutTimers(dialog)
    /\ UNCHANGED <<discovery, attempts, popup, session, bar, fetchingMe>>

\* A timer set when an earlier sign-in succeeded closes whatever is open now.
CloseTimerFires ==
    /\ \/ closeTimers.current /\ closeTimers' = [closeTimers EXCEPT !.current = FALSE]
       \/ closeTimers.orphans > 0
          /\ closeTimers' = [ShutTimers(dialog) EXCEPT !.orphans = @ - 1]
    /\ dialog' = IF dialog.open THEN Shut(dialog) ELSE dialog
    /\ UNCHANGED <<discovery, attempts, popup, session, bar, fetchingMe, signInSteps>>

\* discoverInstalledWallets answers or throws: only the latest discovery counts.
WalletsDiscovered(n, ok) ==
    /\ n \in discovery
    /\ discovery' = discovery \ {n}
    /\ dialog' = IF n # dialog.number \/ ~dialog.open THEN dialog
                 ELSE IF ok THEN [dialog EXCEPT !.discovering = FALSE, !.wallets = Installed]
                 ELSE [dialog EXCEPT !.discovering = FALSE, !.message = "error"]
    /\ UNCHANGED <<attempts, popup, session, bar, fetchingMe, closeTimers, signInSteps>>

(***************************************************************************)
(* Attempts.                                                               *)
(***************************************************************************)
Alive(i) == attempts[i].stage # "ended"

Attempt(kind, wallet) ==
    [kind |-> kind, wallet |-> wallet, stage |-> "started", opened |-> dialog.number,
     credential |-> None, account |-> None, endedIn |-> None]

Ended(i) == [attempts EXCEPT ![i].stage = "ended", ![i].endedIn = dialog.number]

\* The buttons of the dialog are disabled.
Busy(d) == d.google \/ d.active # None

\* The finally block of an attempt.
Released(d, kind) == IF kind = "google" THEN [d EXCEPT !.google = FALSE]
                     ELSE [d EXCEPT !.active = None]

\* An attempt failed: the message is shown in whatever opening is there.
AttemptFails(i) ==
    /\ attempts' = Ended(i)
    /\ dialog' = Says(Released(dialog, attempts[i].kind), "error")
    /\ UNCHANGED <<discovery, session, bar, fetchingMe, closeTimers, signInSteps>>

\* finishAuthentication: the session is stored, the bar takes it over and
\* closes the dialog; then the attempt leaves its message and its timer.
Authenticated(i, account) ==
    LET shut == IF dialog.open THEN Shut(dialog) ELSE dialog
        kept == ShutTimers(dialog)
    IN  /\ session' = SessionOf(account, i)
        /\ bar' = SessionOf(account, i)
        /\ attempts' = Ended(i)
        /\ dialog' = Says([Released(shut, attempts[i].kind)
                             EXCEPT !.pending = IF attempts[i].kind = "google" THEN @ ELSE None,
                                    !.username = IF attempts[i].kind = "google" THEN @ ELSE None],
                          "status")
        /\ closeTimers' = [current |-> TRUE,
                           orphans |-> kept.orphans + IF kept.current THEN 1 ELSE 0]
        /\ UNCHANGED <<discovery, popup, fetchingMe, signInSteps>>

(***************************************************************************)
(* Google.                                                                 *)
(***************************************************************************)
\* handleGoogleClick and startGooglePopupSignIn up to the promise: every
\* attempt opens its address in the same window.
GoogleClicked(blocked) ==
    LET asked == [dialog EXCEPT !.pending = None, !.username = None] IN
    /\ SignInStep
    /\ dialog.open /\ ~Busy(dialog)
    /\ IF blocked
       THEN /\ dialog' = Says(asked, "error")
            /\ UNCHANGED <<attempts, popup>>
       ELSE /\ dialog' = Says([asked EXCEPT !.google = TRUE], "status")
            /\ attempts' = Append(attempts, Attempt("google", None))
            /\ popup' = Len(attempts) + 1
    /\ UNCHANGED <<discovery, session, bar, fetchingMe, closeTimers>>

\* Mutant of MessageAccepted: any message that holds a credential will do.
AnyMessageAccepted(i, message) == ~message.error /\ message.nonce # None

\* onMessage: the state first, then an error, a credential, and its nonce.
MessageAccepted(i, message) ==
    /\ message.state = i
    /\ ~message.error
    /\ message.nonce # None
    /\ message.nonce = i

Listening == {i \in DOMAIN attempts : attempts[i].kind = "google"
                                      /\ attempts[i].stage = "started"}

\* The callback page posts what Google sent it, which every attempt that is
\* listening hears; each closes the window and goes on or fails.
GoogleAnswers(error, nonce) ==
    LET message  == [state |-> popup, error |-> error, nonce |-> nonce]
        accepted == {i \in Listening : MessageAccepted(i, message)}
        refused  == Listening \ accepted
    IN  /\ popup # None
        /\ popup' = None
        /\ attempts' = [i \in DOMAIN attempts |->
               IF i \in accepted THEN [attempts[i] EXCEPT !.stage = "exchanging",
                                                          !.credential = nonce]
               ELSE IF i \in refused THEN [attempts[i] EXCEPT !.stage = "ended",
                                                              !.endedIn = dialog.number]
               ELSE attempts[i]]
        /\ dialog' = IF refused = {} THEN dialog
                     ELSE Says(Released(dialog, "google"), "error")
        /\ UNCHANGED <<discovery, session, bar, fetchingMe, closeTimers, signInSteps>>

\* The visitor closes the window: nobody is told.
PopupClosed ==
    /\ SignInStep
    /\ popup # None
    /\ popup' = None
    /\ UNCHANGED <<dialog, discovery, attempts, session, bar, fetchingMe, closeTimers>>

\* Mutant of GoogleTimesOut: an attempt whose window is gone is not timed out.
OpenPopupTimesOut(i) == i \in Listening /\ popup = i /\ popup' = None /\ AttemptFails(i)

\* The attempt gives up after GOOGLE_POPUP_TIMEOUT_MS, and closes the window,
\* whichever attempt it is open for by then.
GoogleTimesOut(i) == i \in Listening /\ popup' = None /\ AttemptFails(i)

GoogleExchanged(i, account) ==
    /\ attempts[i].kind = "google" /\ attempts[i].stage = "exchanging"
    /\ Authenticated(i, account)

GoogleRefused(i) ==
    /\ attempts[i].kind = "google" /\ attempts[i].stage = "exchanging"
    /\ UNCHANGED popup
    /\ AttemptFails(i)

(***************************************************************************)
(* Wallets.                                                                *)
(***************************************************************************)
\* handleWalletClick up to its first await.
WalletClicked(w) ==
    /\ SignInStep
    /\ dialog.open /\ ~Busy(dialog)
    /\ w \in dialog.wallets
    /\ dialog' = Says([dialog EXCEPT !.active = w, !.pending = None, !.username = None],
                      "status")
    /\ attempts' = Append(attempts, Attempt("wallet", w))
    /\ UNCHANGED <<discovery, popup, session, bar, fetchingMe, closeTimers>>

\* The wallet names its account, the backend issues a challenge, the wallet
\* signs it.
WalletAdvances(i, account) ==
    /\ attempts[i].kind = "wallet"
    /\ \/ /\ attempts[i].stage = "started"
          /\ attempts' = [attempts EXCEPT ![i].stage = "challenged", ![i].account = account]
       \/ /\ attempts[i].stage = "challenged" /\ account = attempts[i].account
          /\ attempts' = [attempts EXCEPT ![i].stage = "signing"]
       \/ /\ attempts[i].stage = "signing" /\ account = attempts[i].account
          /\ attempts' = [attempts EXCEPT ![i].stage = "exchanging", ![i].credential = account]
    /\ UNCHANGED <<dialog, discovery, popup, session, bar, fetchingMe, closeTimers, signInSteps>>

\* The wallet's owner refuses, or a request fails.
WalletFails(i) ==
    /\ attempts[i].kind \in {"wallet", "username"} /\ Alive(i)
    /\ UNCHANGED popup
    /\ AttemptFails(i)

\* connectWallet answers with a session.
WalletExchanged(i) ==
    /\ attempts[i].kind \in {"wallet", "username"} /\ attempts[i].stage = "exchanging"
    /\ Authenticated(i, attempts[i].credential)

\* connectWallet asks a new wallet for a username: the dialog keeps what was
\* signed and shows its form.
UsernameRequired(i) ==
    /\ attempts[i].kind = "wallet" /\ attempts[i].stage = "exchanging"
    /\ attempts' = Ended(i)
    /\ dialog' = Says([Released(dialog, "wallet") EXCEPT !.pending = attempts[i].credential],
                      "status")
    /\ UNCHANGED <<discovery, popup, session, bar, fetchingMe, closeTimers, signInSteps>>

\* The text of the form: a username the dialog accepts, or one it does not.
TypeUsername(name) ==
    /\ SignInStep
    /\ dialog.open /\ dialog.pending # None
    /\ name # dialog.username
    /\ dialog' = [dialog EXCEPT !.username = name]
    /\ UNCHANGED <<discovery, attempts, popup, session, bar, fetchingMe, closeTimers>>

\* handleWalletUsernameSubmit up to its request.
UsernameSubmitted ==
    /\ SignInStep
    /\ dialog.open /\ dialog.pending # None /\ ~Busy(dialog)
    /\ IF dialog.username # "valid"
       THEN dialog' = Says(dialog, "error") /\ UNCHANGED attempts
       ELSE /\ dialog' = Says([dialog EXCEPT !.active = "challenge"], "status")
            /\ attempts' = Append(attempts,
                  [Attempt("username", None) EXCEPT !.stage = "exchanging",
                                                    !.credential = dialog.pending])
    /\ UNCHANGED <<discovery, popup, session, bar, fetchingMe, closeTimers>>

(***************************************************************************)
(* The navigation bar.                                                     *)
(***************************************************************************)
SignOut ==
    /\ SignInStep
    /\ bar.user # None
    /\ session' = None
    /\ bar' = SignedOutBar
    /\ UNCHANGED <<dialog, discovery, attempts, popup, fetchingMe, closeTimers>>

\* fetchMe answers for the session the page opened with, whatever the visitor
\* has done since: the user is set, the token of the bar is not.
MeFetched(ok) ==
    /\ fetchingMe # None
    /\ fetchingMe' = None
    /\ session' = IF ok THEN fetchingMe ELSE None
    /\ bar' = IF ok THEN [bar EXCEPT !.user = fetchingMe.user] ELSE SignedOutBar
    /\ UNCHANGED <<dialog, discovery, attempts, popup, closeTimers, signInSteps>>

SignInVisitor ==
    \/ OpenDialog
    \/ CloseDialog
    \/ \E blocked \in BOOLEAN : GoogleClicked(blocked)
    \/ PopupClosed
    \/ \E w \in Installed : WalletClicked(w)
    \/ \E name \in {"invalid", "valid"} : TypeUsername(name)
    \/ UsernameSubmitted
    \/ SignOut

SignInAnswer ==
    \/ CloseTimerFires
    \/ \E error \in BOOLEAN, nonce \in {None} \cup DOMAIN attempts : GoogleAnswers(error, nonce)
    \/ \E i \in DOMAIN attempts :
          \/ GoogleTimesOut(i)
          \/ GoogleRefused(i)
          \/ \E account \in Account : GoogleExchanged(i, account) \/ WalletAdvances(i, account)
          \/ WalletFails(i)
          \/ WalletExchanged(i)
          \/ UsernameRequired(i)
    \/ \E ok \in BOOLEAN : MeFetched(ok) \/ \E n \in discovery : WalletsDiscovered(n, ok)

SignInNext == SignInVisitor \/ SignInAnswer

\* Timers fire and requests are answered; the visitor need do nothing.
SignInFairness == WF_signInVars(SignInAnswer)

SignInSpec == SignInInit /\ [][SignInNext]_signInVars

FairSignInSpec == SignInSpec /\ SignInFairness

\* A Google credential is only sent on by the attempt it was issued for, though
\* the attempts share one window and hear each other's messages.
GoogleCredentialIsOwn ==
    \A i \in DOMAIN attempts :
        attempts[i].kind = "google" => attempts[i].credential \in {None, i}

\* As long as no attempt of an earlier opening has ended in this one, the
\* dialog runs one sign-in at a time.  (One that does end re-enables buttons.)
OneSignInAtATime ==
    (\A i \in DOMAIN attempts :
        attempts[i].endedIn = dialog.number => attempts[i].opened = dialog.number)
    => Cardinality({i \in DOMAIN attempts : Alive(i) /\ attempts[i].opened = dialog.number}) <= 1

\* A dialog that waits for Google stops waiting, though the visitor may close
\* the window without a word.
GoogleWaitEnds == dialog.google ~> ~dialog.google
=============================================================================
