----------------------------- MODULE AccountProofs -----------------------------
(***************************************************************************)
(* What the two sites do for an account, for any accounts, wallets and     *)
(* number of steps: the sign-ins of the public site, the trades a wallet   *)
(* is asked to sign, and the sessions and payments of the admin site.      *)
(***************************************************************************)
EXTENDS SignIn, TradePanel, AdminBar, Balances, FiniteSetTheorems, SequenceTheorems, TLAPS

-----------------------------------------------------------------------------
(* Signing in to the public site *)

DialogType ==
    [discovering : BOOLEAN, wallets : SUBSET Installed, google : BOOLEAN,
     active : Installed \cup {"challenge", None}, username : {"invalid", "valid", None},
     pending : Nat \cup Account \cup {None}, message : {"error", "status", None},
     open : BOOLEAN, number : Nat]

AttemptType ==
    [kind : {"google", "wallet", "username"}, wallet : Installed \cup {None},
     stage : {"started", "challenged", "signing", "exchanging", "ended"},
     opened : Nat, credential : Nat \cup Account \cup {None},
     account : Account \cup {None}, endedIn : Nat \cup {None}]

\* A sign-in of the opening on screen that has not ended.
Here(i) == Alive(i) /\ attempts[i].opened = dialog.number

\* The signal that disables the dialog for attempt i.
Holds(i) == IF attempts[i].kind = "google" THEN dialog.google = TRUE ELSE dialog.active # None

OnlyItsOwnEnded ==
    \A i \in DOMAIN attempts :
        attempts[i].endedIn = dialog.number => attempts[i].opened = dialog.number

\* The sign-in of the opening on screen keeps the dialog disabled while it is open.
Held ==
    OnlyItsOwnEnded =>
        /\ \A i, j \in DOMAIN attempts : Here(i) /\ Here(j) => i = j
        /\ \A i \in DOMAIN attempts : Here(i) /\ dialog.open => Holds(i)

SignInTyped == dialog \in DialogType /\ attempts \in Seq(AttemptType)

NoneFromTheFuture == \A i \in DOMAIN attempts : attempts[i].opened <= dialog.number

SignInInv == SignInTyped /\ GoogleCredentialIsOwn /\ NoneFromTheFuture /\ Held

LEMMA ShutDialog ==
    ASSUME NEW d \in DialogType
    PROVE  Shut(d) \in DialogType /\ ~Shut(d).open /\ Shut(d).number = d.number
<1>1. DialogReset \in DialogType /\ ~DialogReset.open
  BY DEF DialogReset, DialogType
<1> QED
  BY <1>1 DEF Shut, DialogType

LEMMA SignInStarts == SignInInit => SignInInv
<1> SUFFICES ASSUME SignInInit PROVE SignInInv
  OBVIOUS
<1>1. dialog = [discovering |-> FALSE, wallets |-> {}, google |-> FALSE,
                active |-> None, username |-> None, pending |-> None,
                message |-> None, open |-> FALSE, number |-> 0]
  BY DEF SignInInit, DialogReset
<1>2. attempts = <<>> /\ DOMAIN attempts = {}
  BY DEF SignInInit
<1> QED
  BY <1>1, <1>2 DEF SignInInv, SignInTyped, DialogType, GoogleCredentialIsOwn,
                    NoneFromTheFuture, Held

\* A step that starts nothing and ends nothing, and opens no dialog.
LEMMA SignInQuiet ==
    ASSUME SignInInv, attempts' = attempts, dialog' \in DialogType,
           dialog'.number = dialog.number,
           dialog'.open => /\ dialog.open
                           /\ dialog'.google = dialog.google
                           /\ dialog'.active = dialog.active
    PROVE  SignInInv'
BY DEF SignInInv, SignInTyped, GoogleCredentialIsOwn, NoneFromTheFuture, Held,
       OnlyItsOwnEnded, Here, Holds, Alive

\* A button that is enabled starts a sign-in.
LEMMA SignInStartsOne ==
    ASSUME SignInInv, NEW a \in AttemptType, attempts' = Append(attempts, a),
           dialog' \in DialogType, dialog'.number = dialog.number,
           dialog.open, ~Busy(dialog),
           a.opened = dialog.number, a.kind = "google" => a.credential = None,
           a.kind = "google" => dialog'.google = TRUE,
           a.kind # "google" => dialog'.active # None
    PROVE  SignInInv'
<1>0. PICK n : n = Len(attempts) + 1
  OBVIOUS
<1>1. /\ attempts \in Seq(AttemptType) /\ attempts' \in Seq(AttemptType)
      /\ DOMAIN attempts = 1 .. Len(attempts) /\ Len(attempts) \in Nat
      /\ DOMAIN attempts' = 1 .. n
      /\ attempts'[n] = a
      /\ \A i \in DOMAIN attempts : attempts'[i] = attempts[i]
  BY <1>0 DEF SignInInv, SignInTyped
<1>2. /\ \A i \in DOMAIN attempts' : i = n \/ i \in DOMAIN attempts
      /\ DOMAIN attempts \subseteq DOMAIN attempts' /\ n \in DOMAIN attempts'
  BY <1>0, <1>1
<1>3. GoogleCredentialIsOwn' /\ NoneFromTheFuture'
  BY <1>1, <1>2 DEF SignInInv, GoogleCredentialIsOwn, NoneFromTheFuture, DialogType
<1>4. OnlyItsOwnEnded' => OnlyItsOwnEnded
  BY <1>1, <1>2 DEF OnlyItsOwnEnded
<1>5. OnlyItsOwnEnded => \A i \in DOMAIN attempts : ~Here(i)
  BY DEF SignInInv, Held, Holds, Busy, SignInTyped, DialogType
<1>6. OnlyItsOwnEnded => \A i \in DOMAIN attempts' : Here(i)' => i = n
  BY <1>1, <1>2, <1>5 DEF Here, Alive
<1>7. Holds(n)'
  BY <1>1 DEF Holds, DialogType
<1> QED
  BY <1>1, <1>3, <1>4, <1>6, <1>7 DEF SignInInv, SignInTyped, Held

\* A sign-in ends: what disabled the dialog for it is let go.
LEMMA SignInEndsOne ==
    ASSUME SignInInv, NEW i \in DOMAIN attempts, Alive(i), attempts' = Ended(i),
           dialog' \in DialogType, dialog'.number = dialog.number,
           dialog'.open => dialog.open
    PROVE  SignInInv'
<1>1. /\ attempts \in Seq(AttemptType) /\ attempts' \in Seq(AttemptType)
      /\ DOMAIN attempts' = DOMAIN attempts
      /\ attempts[i] \in AttemptType
      /\ attempts'[i].stage = "ended" /\ attempts'[i].endedIn = dialog.number
      /\ attempts'[i].opened = attempts[i].opened
      /\ attempts'[i].kind = attempts[i].kind
      /\ attempts'[i].credential = attempts[i].credential
      /\ \A j \in DOMAIN attempts : j # i => attempts'[j] = attempts[j]
  <2>1. attempts \in Seq(AttemptType) /\ attempts[i] \in AttemptType
    BY DEF SignInInv, SignInTyped
  <2>2. dialog.number \in Nat
    BY DEF SignInInv, SignInTyped, DialogType
  <2> DEFINE r == [attempts[i] EXCEPT !.stage = "ended", !.endedIn = dialog.number]
  <2>3. /\ r \in AttemptType
        /\ r.stage = "ended" /\ r.endedIn = dialog.number
        /\ r.opened = attempts[i].opened /\ r.kind = attempts[i].kind
        /\ r.credential = attempts[i].credential
    BY <2>1, <2>2 DEF AttemptType
  <2>4. attempts' = [attempts EXCEPT ![i] = r]
    BY <2>1 DEF Ended, AttemptType
  <2> HIDE DEF r
  <2>5. attempts' \in Seq(AttemptType) /\ DOMAIN attempts' = DOMAIN attempts
    BY <2>1, <2>3, <2>4
  <2> QED
    BY <2>1, <2>3, <2>4, <2>5
<1>3. GoogleCredentialIsOwn' /\ NoneFromTheFuture'
  BY <1>1 DEF SignInInv, GoogleCredentialIsOwn, NoneFromTheFuture
<1>4. OnlyItsOwnEnded' => OnlyItsOwnEnded /\ attempts[i].opened = dialog.number
  BY <1>1 DEF OnlyItsOwnEnded
<1>5. OnlyItsOwnEnded' => Here(i)
  BY <1>4 DEF Here
<1>6. OnlyItsOwnEnded' => \A j \in DOMAIN attempts : ~Here(j)'
  <2> SUFFICES ASSUME OnlyItsOwnEnded', NEW j \in DOMAIN attempts, Here(j)' PROVE FALSE
    OBVIOUS
  <2>1. j # i
    BY <1>1 DEF Here, Alive
  <2>2. Here(j)
    BY <1>1, <2>1 DEF Here, Alive
  <2> QED
    BY <1>4, <1>5, <2>1, <2>2 DEF SignInInv, Held
<1> QED
  BY <1>1, <1>3, <1>6 DEF SignInInv, SignInTyped, Held

LEMMA SignInGoesOn == SignInInv /\ [SignInNext]_signInVars => SignInInv'
<1> SUFFICES ASSUME SignInInv, [SignInNext]_signInVars PROVE SignInInv'
  OBVIOUS
<1> USE DEF SignInInv
<1>0. /\ dialog \in DialogType /\ attempts \in Seq(AttemptType)
      /\ Shut(dialog) \in DialogType /\ ~Shut(dialog).open
      /\ Shut(dialog).number = dialog.number
  BY ShutDialog DEF SignInTyped
<1>q. ASSUME attempts' = attempts, UNCHANGED dialog PROVE SignInInv'
  BY <1>q, <1>0, SignInQuiet
<1>s. ASSUME attempts' = attempts, dialog' = Shut(dialog) PROVE SignInInv'
  BY <1>s, <1>0, SignInQuiet
<1>1. CASE OpenDialog
  <2>1. /\ dialog' \in DialogType /\ dialog'.number = dialog.number + 1
        /\ attempts' = attempts
    <3>1. dialog.number + 1 \in Nat
      BY <1>0 DEF DialogType
    <3> DEFINE n == dialog.number + 1
    <3>2. dialog' = [dialog EXCEPT !.open = TRUE, !.number = n, !.discovering = TRUE,
                                   !.message = None]
      BY <1>1 DEF OpenDialog
    <3> HIDE DEF n
    <3>3. dialog' \in DialogType /\ dialog'.number = n
      BY <3>1, <3>2, <1>0 DEF DialogType, n
    <3> QED
      BY <1>1, <3>3 DEF OpenDialog, n
  <2>2. \A i \in DOMAIN attempts : attempts[i].opened \in Nat /\ attempts[i].opened <= dialog.number
    <3>1. \A i \in DOMAIN attempts : attempts[i] \in AttemptType
      BY <1>0
    <3> QED
      BY <3>1 DEF NoneFromTheFuture, AttemptType
  <2>3. \A i \in DOMAIN attempts : ~Here(i)' /\ attempts[i].opened <= dialog'.number
    BY <2>1, <2>2, <1>0 DEF Here, DialogType
  <2> QED
    BY <2>1, <2>3, <1>0 DEF SignInTyped, GoogleCredentialIsOwn, NoneFromTheFuture, Held
<1>2. CASE CloseDialog
  BY <1>2, <1>s DEF CloseDialog
<1>3. CASE \E blocked \in BOOLEAN : GoogleClicked(blocked)
  <2> PICK blocked \in BOOLEAN : GoogleClicked(blocked)
    BY <1>3
  <2>1. CASE blocked
    <3>1. attempts' = attempts
      BY <2>1 DEF GoogleClicked
    <3>2. dialog' = [dialog EXCEPT !.pending = None, !.username = None, !.message = "error"]
      BY <2>1, <1>0 DEF GoogleClicked, Says
    <3> QED
      BY <3>1, <3>2, <1>0, SignInQuiet DEF DialogType
  <2>2. CASE ~blocked
    <3> DEFINE a == Attempt("google", None)
    <3>1. /\ attempts' = Append(attempts, a) /\ dialog.open /\ ~Busy(dialog)
          /\ dialog' = [dialog EXCEPT !.pending = None, !.username = None, !.google = TRUE,
                                      !.message = "status"]
      BY <2>2, <1>0 DEF GoogleClicked, Says
    <3>2. dialog' \in DialogType /\ dialog'.number = dialog.number /\ dialog'.google = TRUE
      BY <3>1, <1>0 DEF DialogType
    <3>3. a \in AttemptType /\ a.opened = dialog.number /\ a.credential = None /\ a.kind = "google"
      BY <1>0 DEF Attempt, AttemptType, DialogType
    <3> HIDE DEF a
    <3> QED
      BY <3>1, <3>2, <3>3, SignInStartsOne
  <2> QED
    BY <2>1, <2>2
<1>4. CASE PopupClosed
  BY <1>4, <1>q DEF PopupClosed
<1>5. CASE \E w \in Installed : WalletClicked(w)
  <2> PICK w \in Installed : WalletClicked(w)
    BY <1>5
  <2> DEFINE a == Attempt("wallet", w)
  <2>1. /\ attempts' = Append(attempts, a) /\ dialog.open /\ ~Busy(dialog)
        /\ dialog' = [dialog EXCEPT !.active = w, !.pending = None, !.username = None,
                                    !.message = "status"]
    BY <1>0 DEF WalletClicked, Says
  <2>2. dialog' \in DialogType /\ dialog'.number = dialog.number /\ dialog'.active # None
    BY <2>1, <1>0, SignInAssumption DEF DialogType
  <2>3. a \in AttemptType /\ a.opened = dialog.number /\ a.kind = "wallet"
    BY <1>0 DEF Attempt, AttemptType, DialogType
  <2> HIDE DEF a
  <2> QED
    BY <2>1, <2>2, <2>3, SignInStartsOne
<1>6. CASE \E name \in {"invalid", "valid"} : TypeUsername(name)
  BY <1>6, <1>0, SignInQuiet DEF TypeUsername, DialogType
<1>7. CASE UsernameSubmitted
  <2>1. CASE dialog.username # "valid"
    BY <1>7, <2>1, <1>0, SignInQuiet DEF UsernameSubmitted, Says, DialogType
  <2>2. CASE dialog.username = "valid"
    <3> DEFINE a == [Attempt("username", None) EXCEPT !.stage = "exchanging",
                                                      !.credential = dialog.pending]
    <3>1. /\ attempts' = Append(attempts, a) /\ dialog.open /\ ~Busy(dialog)
          /\ dialog' = [dialog EXCEPT !.active = "challenge", !.message = "status"]
      BY <1>7, <2>2, <1>0 DEF UsernameSubmitted, Says
    <3>2. dialog' \in DialogType /\ dialog'.number = dialog.number /\ dialog'.active # None
      BY <3>1, <1>0, SignInAssumption DEF DialogType
    <3>3. a \in AttemptType /\ a.opened = dialog.number /\ a.kind = "username"
      BY <1>0 DEF Attempt, AttemptType, DialogType
    <3> HIDE DEF a
    <3> QED
      BY <3>1, <3>2, <3>3, SignInStartsOne
  <2> QED
    BY <2>1, <2>2
<1>8. CASE SignOut
  BY <1>8, <1>q DEF SignOut
<1>9. CASE CloseTimerFires
  BY <1>9, <1>q, <1>s DEF CloseTimerFires
\* The ways a sign-in ends.
<1>f. ASSUME NEW i \in DOMAIN attempts, Alive(i), AttemptFails(i) PROVE SignInInv'
  <2>1. attempts' = Ended(i)
    BY <1>f DEF AttemptFails
  <2>2. dialog' \in {[dialog EXCEPT !.google = FALSE, !.message = "error"],
                     [dialog EXCEPT !.active = None, !.message = "error"]}
    BY <1>f, <1>0 DEF AttemptFails, Says, Released
  <2>3. dialog' \in DialogType /\ dialog'.number = dialog.number /\ dialog'.open = dialog.open
    BY <2>2, <1>0 DEF DialogType
  <2> QED
    BY <2>1, <2>3, <1>f, SignInEndsOne
<1>g. ASSUME NEW i \in DOMAIN attempts, Alive(i), NEW account, Authenticated(i, account)
      PROVE  SignInInv'
  <2>1. attempts' = Ended(i)
    BY <1>g DEF Authenticated
  <2> DEFINE shut == IF dialog.open THEN Shut(dialog) ELSE dialog
  <2>2. shut \in DialogType /\ shut.number = dialog.number /\ ~shut.open
    BY <1>0
  <2>3. dialog' = Says([Released(shut, attempts[i].kind)
                          EXCEPT !.pending = IF attempts[i].kind = "google" THEN @ ELSE None,
                                 !.username = IF attempts[i].kind = "google" THEN @ ELSE None],
                       "status")
    BY <1>g DEF Authenticated
  <2> HIDE DEF shut
  <2> DEFINE free == Released(shut, attempts[i].kind)
  <2>4. free \in DialogType /\ free.number = dialog.number /\ ~free.open
    BY <2>2 DEF Released, DialogType
  <2> HIDE DEF free
  <2>5. dialog' \in DialogType /\ dialog'.number = dialog.number /\ ~dialog'.open
    BY <2>3, <2>4 DEF Says, DialogType, free
  <2> QED
    BY <2>1, <2>5, <1>g, SignInEndsOne
<1>10. CASE \E error \in BOOLEAN, nonce \in {None} \cup DOMAIN attempts :
                GoogleAnswers(error, nonce)
  <2> PICK error \in BOOLEAN, nonce \in {None} \cup DOMAIN attempts : GoogleAnswers(error, nonce)
    BY <1>10
  <2> DEFINE message  == [state |-> popup, error |-> error, nonce |-> nonce]
             accepted == {i \in Listening : MessageAccepted(i, message)}
             refused  == Listening \ accepted
  <2>1. /\ attempts' = [i \in DOMAIN attempts |->
               IF i \in accepted THEN [attempts[i] EXCEPT !.stage = "exchanging",
                                                          !.credential = nonce]
               ELSE IF i \in refused THEN [attempts[i] EXCEPT !.stage = "ended",
                                                              !.endedIn = dialog.number]
               ELSE attempts[i]]
        /\ dialog' = IF refused = {} THEN dialog
                     ELSE Says(Released(dialog, "google"), "error")
    BY DEF GoogleAnswers
  <2>2. /\ accepted \cap refused = {}
        /\ \A i \in accepted : i = nonce
        /\ \A i \in accepted \cup refused : i \in DOMAIN attempts /\ attempts[i].kind = "google"
                                            /\ Alive(i)
    BY DEF MessageAccepted, Listening, Alive
  <2> HIDE DEF message, accepted, refused
  <2>3. DOMAIN attempts = 1 .. Len(attempts) /\ Len(attempts) \in Nat
        /\ \A i \in DOMAIN attempts : i \in Nat /\ attempts[i] \in AttemptType
    BY <1>0
  <2>4. \A i \in DOMAIN attempts :
            /\ attempts'[i] \in AttemptType
            /\ attempts'[i].kind = attempts[i].kind
            /\ attempts'[i].opened = attempts[i].opened
            /\ attempts'[i].credential = IF i \in accepted THEN nonce ELSE attempts[i].credential
            /\ attempts'[i].endedIn = IF i \in refused THEN dialog.number ELSE attempts[i].endedIn
            /\ Alive(i)' => Alive(i) /\ i \notin refused
    <3> SUFFICES ASSUME NEW i \in DOMAIN attempts
                 PROVE  /\ attempts'[i] \in AttemptType
                        /\ attempts'[i].kind = attempts[i].kind
                        /\ attempts'[i].opened = attempts[i].opened
                        /\ attempts'[i].credential =
                              IF i \in accepted THEN nonce ELSE attempts[i].credential
                        /\ attempts'[i].endedIn =
                              IF i \in refused THEN dialog.number ELSE attempts[i].endedIn
                        /\ Alive(i)' => Alive(i) /\ i \notin refused
      OBVIOUS
    <3>0. attempts[i] \in AttemptType /\ dialog.number \in Nat /\ nonce \in Nat \cup {None}
      BY <2>3, <1>0 DEF DialogType
    <3>1. CASE i \in accepted
      <4>1. attempts'[i] = [attempts[i] EXCEPT !.stage = "exchanging", !.credential = nonce]
        BY <2>1, <3>1
      <4> QED
        BY <4>1, <3>0, <3>1, <2>2 DEF AttemptType, Alive
    <3>2. CASE i \in refused
      <4>1. attempts'[i] = [attempts[i] EXCEPT !.stage = "ended", !.endedIn = dialog.number]
        BY <2>1, <2>2, <3>2
      <4> QED
        BY <4>1, <3>0, <3>2, <2>2 DEF AttemptType, Alive
    <3>3. CASE i \notin accepted \cup refused
      <4>1. attempts'[i] = attempts[i]
        BY <2>1, <3>3
      <4> QED
        BY <4>1, <3>0, <3>3 DEF Alive
    <3> QED
      BY <3>1, <3>2, <3>3
  <2>5. DOMAIN attempts' = DOMAIN attempts /\ attempts' \in Seq(AttemptType)
    <3>1. DOMAIN attempts' = 1 .. Len(attempts)
      BY <2>1, <2>3
    <3> QED
      <4>1. attempts' \in [1 .. Len(attempts) -> AttemptType]
        BY <3>1, <2>1, <2>3, <2>4
      <4> QED
        BY <4>1, <3>1, <2>3, SeqDef
  <2>6. /\ dialog' \in DialogType /\ dialog'.number = dialog.number
        /\ dialog'.open = dialog.open /\ dialog'.active = dialog.active
        /\ dialog'.google = IF refused = {} THEN dialog.google ELSE FALSE
    BY <2>1, <1>0 DEF Says, Released, DialogType
  <2>7. GoogleCredentialIsOwn' /\ NoneFromTheFuture'
    BY <2>2, <2>4, <2>5, <2>6 DEF GoogleCredentialIsOwn, NoneFromTheFuture
  <2>8. OnlyItsOwnEnded' => OnlyItsOwnEnded
    BY <2>2, <2>4, <2>5, <2>6 DEF OnlyItsOwnEnded
  <2>9. OnlyItsOwnEnded' => \A i \in refused : Here(i)
    BY <2>2, <2>4, <2>5, <2>6 DEF OnlyItsOwnEnded, Here
  <2>10. \A i \in DOMAIN attempts : Here(i)' => Here(i) /\ i \notin refused
    BY <2>4, <2>6 DEF Here
  <2>11. Held'
    <3> SUFFICES ASSUME OnlyItsOwnEnded'
                 PROVE  /\ \A i, j \in DOMAIN attempts : Here(i)' /\ Here(j)' => i = j
                        /\ \A i \in DOMAIN attempts : Here(i)' /\ dialog.open => Holds(i)'
      BY <2>5, <2>6 DEF Held
    <3>1. \A i, j \in DOMAIN attempts : Here(i) /\ Here(j) => i = j
      BY <2>8 DEF Held
    <3>2. ASSUME NEW i \in DOMAIN attempts, Here(i)', dialog.open PROVE Holds(i)'
      <4>1. Here(i) /\ i \notin refused
        BY <3>2, <2>10
      <4>2. refused = {}
        BY <4>1, <3>1, <2>2, <2>9
      <4>3. Holds(i)
        BY <4>1, <3>2, <2>8 DEF Held
      <4> QED
        BY <4>2, <4>3, <2>4, <2>6 DEF Holds
    <3> QED
      BY <3>1, <3>2, <2>10
  <2> QED
    BY <2>5, <2>6, <2>7, <2>11 DEF SignInTyped
<1>11. ASSUME NEW i \in DOMAIN attempts,
              \/ GoogleTimesOut(i)
              \/ GoogleRefused(i)
              \/ \E account \in Account : GoogleExchanged(i, account) \/ WalletAdvances(i, account)
              \/ WalletFails(i)
              \/ WalletExchanged(i)
              \/ UsernameRequired(i)
       PROVE  SignInInv'
  <2>0. attempts[i] \in AttemptType
    BY <1>0
  <2>1. CASE GoogleTimesOut(i)
    BY <2>1, <1>f DEF GoogleTimesOut, Listening, Alive
  <2>2. CASE GoogleRefused(i)
    BY <2>2, <1>f DEF GoogleRefused, Alive
  <2>3. CASE \E account \in Account : GoogleExchanged(i, account)
    BY <2>3, <1>g DEF GoogleExchanged, Alive
  <2>4. CASE WalletFails(i)
    BY <2>4, <1>f DEF WalletFails
  <2>5. CASE WalletExchanged(i)
    BY <2>5, <1>g DEF WalletExchanged, Alive
  <2>6. CASE UsernameRequired(i)
    <3>1. attempts' = Ended(i) /\ Alive(i)
      BY <2>6 DEF UsernameRequired, Alive
    <3>2. dialog' = [dialog EXCEPT !.active = None, !.pending = attempts[i].credential,
                                   !.message = "status"]
      BY <2>6, <1>0 DEF UsernameRequired, Says, Released
    <3>3. dialog' \in DialogType /\ dialog'.number = dialog.number /\ dialog'.open = dialog.open
      BY <3>2, <2>0, <1>0 DEF DialogType, AttemptType
    <3> QED
      BY <3>1, <3>3, SignInEndsOne
  <2>7. CASE \E account \in Account : WalletAdvances(i, account)
    <3> PICK account \in Account : WalletAdvances(i, account)
      BY <2>7
    <3>1. dialog' = dialog /\ attempts[i].kind = "wallet" /\ Alive(i)
      BY DEF WalletAdvances, Alive
    <3>2. PICK r \in AttemptType :
              /\ attempts' = [attempts EXCEPT ![i] = r]
              /\ r.kind = attempts[i].kind /\ r.opened = attempts[i].opened
              /\ r.endedIn = attempts[i].endedIn
      <4>1. CASE attempts' = [attempts EXCEPT ![i].stage = "challenged", ![i].account = account]
        <5> DEFINE r == [attempts[i] EXCEPT !.stage = "challenged", !.account = account]
        <5>1. r \in AttemptType /\ r.kind = attempts[i].kind /\ r.opened = attempts[i].opened
              /\ r.endedIn = attempts[i].endedIn
          BY <2>0 DEF AttemptType
        <5>2. attempts' = [attempts EXCEPT ![i] = r]
          BY <4>1, <1>0
        <5> QED
          BY <5>1, <5>2
      <4>2. CASE attempts' = [attempts EXCEPT ![i].stage = "signing"]
        <5> DEFINE r == [attempts[i] EXCEPT !.stage = "signing"]
        <5>1. r \in AttemptType /\ r.kind = attempts[i].kind /\ r.opened = attempts[i].opened
              /\ r.endedIn = attempts[i].endedIn
          BY <2>0 DEF AttemptType
        <5>2. attempts' = [attempts EXCEPT ![i] = r]
          BY <4>2, <1>0
        <5> QED
          BY <5>1, <5>2
      <4>3. CASE attempts' = [attempts EXCEPT ![i].stage = "exchanging", ![i].credential = account]
        <5> DEFINE r == [attempts[i] EXCEPT !.stage = "exchanging", !.credential = account]
        <5>1. r \in AttemptType /\ r.kind = attempts[i].kind /\ r.opened = attempts[i].opened
              /\ r.endedIn = attempts[i].endedIn
          BY <2>0 DEF AttemptType
        <5>2. attempts' = [attempts EXCEPT ![i] = r]
          BY <4>3, <1>0
        <5> QED
          BY <5>1, <5>2
      <4> QED
        BY <4>1, <4>2, <4>3 DEF WalletAdvances
    <3>3. /\ attempts' \in Seq(AttemptType) /\ DOMAIN attempts' = DOMAIN attempts
          /\ attempts'[i] = r
          /\ \A j \in DOMAIN attempts : j # i => attempts'[j] = attempts[j]
      BY <3>2, <1>0
    <3>4. GoogleCredentialIsOwn' /\ NoneFromTheFuture'
      BY <3>1, <3>2, <3>3 DEF GoogleCredentialIsOwn, NoneFromTheFuture
    <3>5. OnlyItsOwnEnded' => OnlyItsOwnEnded
      BY <3>1, <3>2, <3>3 DEF OnlyItsOwnEnded
    <3>6. \A j \in DOMAIN attempts : (Here(j)' => Here(j)) /\ (Holds(j) => Holds(j)')
      BY <3>1, <3>2, <3>3 DEF Here, Holds, Alive
    <3>7. Held'
      BY <3>1, <3>3, <3>5, <3>6 DEF Held
    <3> QED
      BY <3>1, <3>3, <3>4, <3>7, <1>0 DEF SignInTyped
  <2> QED
    BY <1>11, <2>1, <2>2, <2>3, <2>4, <2>5, <2>6, <2>7
<1>12. CASE \E ok \in BOOLEAN : MeFetched(ok) \/ \E n \in discovery : WalletsDiscovered(n, ok)
  <2>1. CASE \E ok \in BOOLEAN : MeFetched(ok)
    BY <2>1, <1>q DEF MeFetched
  <2>2. CASE \E ok \in BOOLEAN, n \in discovery : WalletsDiscovered(n, ok)
    <3>1. /\ attempts' = attempts
          /\ \/ dialog' = dialog
             \/ dialog' = [dialog EXCEPT !.discovering = FALSE, !.wallets = Installed]
             \/ dialog' = [dialog EXCEPT !.discovering = FALSE, !.message = "error"]
      BY <2>2 DEF WalletsDiscovered
    <3> QED
      BY <3>1, <1>0, SignInQuiet DEF DialogType
  <2> QED
    BY <1>12, <2>1, <2>2
<1>13. CASE UNCHANGED signInVars
  BY <1>13, <1>q DEF signInVars
<1> QED
  BY <1>1, <1>2, <1>3, <1>4, <1>5, <1>6, <1>7, <1>8, <1>9, <1>10, <1>11, <1>12, <1>13
  DEF SignInNext, SignInVisitor, SignInAnswer

\* No attempt sends on a credential that Google issued for another, though all of
\* them listen to the one window and hear the messages of the others.
THEOREM CredentialsAreOwn == SignInSpec => []GoogleCredentialIsOwn
<1>1. SignInInv => GoogleCredentialIsOwn
  BY DEF SignInInv
<1> QED
  BY <1>1, SignInStarts, SignInGoesOn, PTL DEF SignInSpec

\* An opening of the dialog runs one sign-in at a time, as long as no attempt of
\* an earlier opening has ended in it and let its buttons go.
THEOREM SignInsOneByOne == SignInSpec => []OneSignInAtATime
<1>1. SignInInv => OneSignInAtATime
  <2> SUFFICES ASSUME SignInInv, OnlyItsOwnEnded
               PROVE  Cardinality({i \in DOMAIN attempts : Here(i)}) <= 1
    BY DEF OneSignInAtATime, OnlyItsOwnEnded, Here
  <2> DEFINE S == {i \in DOMAIN attempts : Here(i)}
  <2>1. \A i, j \in S : i = j
    BY DEF SignInInv, Held
  <2>2. CASE S = {}
    BY <2>2, FS_EmptySet
  <2>3. CASE S # {}
    <3>1. PICK i \in S : S = {i}
      BY <2>1, <2>3
    <3> QED
      BY <3>1, FS_Singleton
  <2> QED
    BY <2>2, <2>3
<1> QED
  BY <1>1, SignInStarts, SignInGoesOn, PTL DEF SignInSpec
-----------------------------------------------------------------------------
(* Trading from the event page *)

OrderFields ==
    {"stage", "market", "mode", "outcome", "amount", "session", "wallet", "from", "calls",
     "next", "hashes", "no"}

\* The transaction due is the first, or its order has sent the one before it.
Due(o) ==
    o.next = 1 \/ \E j \in DOMAIN sent : sent[j].no = o.no /\ sent[j].call = o.next - 1

\* What the order that runs has done so far.
OrderInv ==
    order # None =>
        /\ order = [f \in OrderFields |-> order[f]]
        /\ order.no \in DOMAIN placed /\ order.session = placed[order.no]
        /\ order.next \in Nat \ {0}
        /\ order.stage \in {"asked", "connecting", "connected", "signing"}
        /\ order.stage \in {"connected", "signing"} => order.from = order.session.wallet
        /\ Due(order)

SentType == [no : Nat, call : Nat \ {0}, from : {s.wallet : s \in Sessions}]

TradeInv ==
    /\ tradeSession \in Sessions \cup {None}
    /\ placed \in Seq(Sessions)
    /\ sent \in Seq(SentType)
    /\ OrderInv
    /\ TradesAreTheUsers

\* A step that sends nothing: the order ends, or goes on as it was.
LEMMA TradeSendsNothing ==
    ASSUME TradeInv, UNCHANGED <<sent, tradeSession, placed>>, OrderInv'
    PROVE  TradeInv'
BY DEF TradeInv, TradesAreTheUsers, SentFromWhoOrdered, ApprovalComesFirst

LEMMA TradeStarts == TradeInit => TradeInv
BY DEF TradeInit, TradeInv, OrderInv, TradesAreTheUsers, SentFromWhoOrdered,
   ApprovalComesFirst

LEMMA TradeGoesOn == TradeInv /\ [TradeNext]_tradeVars => TradeInv'
<1> SUFFICES ASSUME TradeInv, [TradeNext]_tradeVars PROVE TradeInv'
  OBVIOUS
<1> USE DEF TradeInv
\* Most steps leave the order, or end it.
<1>k. ASSUME UNCHANGED <<order, sent, tradeSession, placed>> PROVE TradeInv'
  <2>1. OrderInv'
    BY <1>k DEF OrderInv, Due
  <2> QED
    BY <1>k, <2>1, TradeSendsNothing
<1>e. ASSUME OrderFails PROVE TradeInv'
  BY <1>e, TradeSendsNothing DEF OrderFails, OrderInv
<1>1. CASE TradeVisitor
  <2>1. CASE \E m \in Market : TradePublished(m)
    BY <2>1, <1>k DEF TradePublished
  <2>2. CASE \/ \E mode \in {"buy", "sell"} : EditTrade("mode", mode)
             \/ \E outcome \in Outcome : EditTrade("outcome", outcome)
             \/ \E amount \in Amounts : EditTrade("amount", amount)
    BY <2>2, <1>k DEF EditTrade
  <2>3. CASE SubmitTrade
    <3> DEFINE asked == TradeAmount(trade.mode, trade.amount)
    <3>1. CASE tradeSession = None \/ asked.amount = None
      BY <2>3, <3>1, <1>k DEF SubmitTrade
    <3>2. CASE ~(tradeSession = None \/ asked.amount = None)
      <4> DEFINE n == Len(placed)
      <4>1. /\ order' = [stage |-> "asked", market |-> trade.market, mode |-> trade.mode,
                         outcome |-> trade.outcome, amount |-> asked.amount,
                         session |-> tradeSession, wallet |-> None, from |-> None,
                         calls |-> <<>>, next |-> 1, hashes |-> 0, no |-> n + 1]
            /\ UNCHANGED <<sent, tradeSession>>
            /\ placed' = Append(placed, tradeSession)
            /\ tradeSession \in Sessions
        BY <2>3, <3>2 DEF SubmitTrade
      <4> HIDE DEF asked
      <4>2. /\ placed' \in Seq(Sessions) /\ n + 1 \in DOMAIN placed'
            /\ placed'[n + 1] = tradeSession
            /\ DOMAIN placed \subseteq DOMAIN placed'
            /\ \A i \in DOMAIN placed : placed'[i] = placed[i]
        BY <4>1
      <4> HIDE DEF n
      <4>3. OrderInv'
        BY <4>1, <4>2 DEF OrderInv, OrderFields, Due
      <4>4. TradesAreTheUsers'
        BY <4>1, <4>2 DEF TradesAreTheUsers, SentFromWhoOrdered, ApprovalComesFirst
      <4> QED
        BY <4>1, <4>2, <4>3, <4>4
    <3> QED
      BY <3>1, <3>2
  <2>4. CASE CloseTradeModal
    BY <2>4, <1>k DEF CloseTradeModal
  <2>5. CASE \E p \in Provider : WalletChanged(p)
    BY <2>5, <1>k DEF WalletChanged
  <2>6. CASE \E s \in Sessions \cup {None} : TradeSessionChanged(s)
    <3>1. tradeSession' \in Sessions \cup {None} /\ UNCHANGED <<order, placed, sent>>
      BY <2>6 DEF TradeSessionChanged
    <3>2. OrderInv' /\ TradesAreTheUsers'
      BY <3>1 DEF OrderInv, Due, TradesAreTheUsers, SentFromWhoOrdered, ApprovalComesFirst
    <3> QED
      BY <3>1, <3>2
  <2> QED
    BY <1>1, <2>1, <2>2, <2>3, <2>4, <2>5, <2>6 DEF TradeVisitor
<1>2. CASE BackendTraded
  BY <1>2, TradeSendsNothing DEF BackendTraded, OrderSucceeds, OrderInv
<1>3. CASE BackendRefused
  BY <1>3, <1>e DEF BackendRefused
<1>4. CASE \E calls \in Prepared, page \in Pages :
              \E preferred \in {None} \cup {p.kind : p \in Provider} :
                  BackendPrepared(calls, page, preferred)
  <2> PICK calls \in Prepared, page \in Pages, preferred \in {None} \cup {p.kind : p \in Provider} :
             BackendPrepared(calls, page, preferred)
    BY <1>4
  <2>1. CASE OrderFails
    BY <2>1, <1>e
  <2>2. CASE ~OrderFails
    <3>1. PICK wallet :
              /\ order # None
              /\ order' = [order EXCEPT !.stage = "connecting", !.wallet = wallet,
                                        !.calls = calls]
              /\ UNCHANGED <<sent, tradeSession, placed>>
      BY <2>2 DEF BackendPrepared
    <3>2. OrderInv'
      BY <3>1 DEF OrderInv, OrderFields, Due
    <3> QED
      BY <3>1, <3>2, TradeSendsNothing
  <2> QED
    BY <2>1, <2>2
<1>5. CASE WalletConnected
  <2>1. CASE OrderFails
    BY <2>1, <1>e
  <2>2. CASE ~OrderFails
    <3>1. /\ order # None
          /\ order' = [order EXCEPT !.stage = "connected", !.from = order.session.wallet]
          /\ UNCHANGED <<sent, tradeSession, placed>>
      BY <1>5, <2>2 DEF WalletConnected, AccountMatches
    <3>2. OrderInv'
      BY <3>1 DEF OrderInv, OrderFields, Due
    <3> QED
      BY <3>1, <3>2, TradeSendsNothing
  <2> QED
    BY <2>1, <2>2
<1>6. CASE ChainChecked
  <2>1. CASE OrderFails
    BY <2>1, <1>e
  <2>2. CASE ~OrderFails
    <3>1. /\ order # None /\ order.stage = "connected"
          /\ order' = [order EXCEPT !.stage = "signing"]
          /\ UNCHANGED <<sent, tradeSession, placed>>
      BY <1>6, <2>2 DEF ChainChecked
    <3>2. OrderInv'
      BY <3>1 DEF OrderInv, OrderFields, Due
    <3> QED
      BY <3>1, <3>2, TradeSendsNothing
  <2> QED
    BY <2>1, <2>2
<1>7. CASE WalletRefuses
  BY <1>7, <1>e DEF WalletRefuses
<1>8. CASE TransactionSigned
  <2> DEFINE r == [no |-> order.no, call |-> order.next, from |-> order.from]
             n == Len(sent)
  <2>1. /\ order # None /\ order.stage = "signing"
        /\ order.no \in DOMAIN placed /\ order.from = placed[order.no].wallet
        /\ placed[order.no] \in Sessions
        /\ order.no \in Nat /\ order.next \in Nat \ {0}
        /\ Due(order)
    BY <1>8 DEF TransactionSigned, OrderInv
  <2>2. r \in SentType /\ r.no = order.no /\ r.call = order.next /\ r.from = order.from
    BY <2>1 DEF SentType
  <2>3. sent' = Append(sent, r) /\ UNCHANGED <<tradeSession, placed>>
    BY <1>8 DEF TransactionSigned
  <2> HIDE DEF r
  <2>4. /\ sent' \in Seq(SentType) /\ n \in Nat
        /\ DOMAIN sent = 1 .. n /\ DOMAIN sent' = 1 .. (n + 1)
        /\ sent'[n + 1] = r
        /\ \A j \in 1 .. n : sent'[j] = sent[j]
    BY <2>2, <2>3
  <2> HIDE DEF n
  <2>5. ApprovalComesFirst'
    <3> SUFFICES ASSUME NEW i \in DOMAIN sent', sent'[i].call > 1
                 PROVE  \E j \in 1 .. i - 1 :
                            sent'[j].no = sent'[i].no /\ sent'[j].call = sent'[i].call - 1
      BY DEF ApprovalComesFirst
    <3>1. CASE i \in 1 .. n
      <4>1. PICK j \in 1 .. i - 1 : sent[j].no = sent[i].no /\ sent[j].call = sent[i].call - 1
        BY <2>4, <3>1 DEF TradesAreTheUsers, ApprovalComesFirst
      <4>2. sent'[j] = sent[j] /\ sent'[i] = sent[i]
        BY <2>4, <3>1
      <4> QED
        BY <4>1, <4>2
    <3>2. CASE i = n + 1
      <4>1. PICK j \in DOMAIN sent : sent[j].no = order.no /\ sent[j].call = order.next - 1
        BY <2>1, <2>2, <2>4, <3>2 DEF Due
      <4>2. j \in 1 .. i - 1 /\ sent'[j] = sent[j]
        BY <4>1, <2>4, <3>2
      <4> QED
        BY <4>1, <4>2, <2>2, <2>4, <3>2
    <3> QED
      BY <2>4, <3>1, <3>2
  <2>6. OrderInv'
    <3>1. CASE order' = None
      BY <3>1 DEF OrderInv
    <3>2. CASE order' = [order EXCEPT !.next = @ + 1, !.hashes = @ + 1]
      <4> DEFINE next == order.next + 1
                 hashes == order.hashes + 1
      <4>1. order' = [order EXCEPT !.next = next, !.hashes = hashes]
        BY <3>2
      <4>2. next \in Nat \ {0} /\ next - 1 = order.next
        BY <2>1
      <4> HIDE DEF next, hashes
      <4>3. /\ order = [f \in OrderFields |-> order[f]]
            /\ order'.no = order.no /\ order'.next = next /\ order'.stage = order.stage
            /\ order'.from = order.from /\ order'.session = order.session
            /\ order' = [f \in OrderFields |-> order'[f]]
        BY <4>1, <2>1 DEF OrderInv, OrderFields
      <4>4. n + 1 \in DOMAIN sent' /\ sent'[n + 1].no = order'.no
            /\ sent'[n + 1].call = order'.next - 1
        BY <4>2, <4>3, <2>2, <2>4
      <4>5. Due(order)'
        BY <4>4 DEF Due
      <4> QED
        BY <2>1, <2>3, <4>2, <4>3, <4>5 DEF OrderInv
    <3> QED
      BY <1>8, <3>1, <3>2 DEF TransactionSigned, OrderSucceeds
  <2>7. SentFromWhoOrdered'
    <3> SUFFICES ASSUME NEW i \in DOMAIN sent'
                 PROVE  /\ sent'[i].no \in DOMAIN placed
                        /\ sent'[i].from = placed[sent'[i].no].wallet
      BY <2>3 DEF SentFromWhoOrdered
    <3>1. CASE i \in 1 .. n
      BY <2>4, <3>1 DEF TradesAreTheUsers, SentFromWhoOrdered
    <3>2. CASE i = n + 1
      BY <2>1, <2>2, <2>4, <3>2
    <3> QED
      BY <2>4, <3>1, <3>2
  <2> QED
    BY <2>3, <2>4, <2>5, <2>6, <2>7 DEF TradesAreTheUsers
<1>9. CASE TransactionRejected
  BY <1>9, <1>e DEF TransactionRejected
<1>10. CASE ModalTimerFires
  BY <1>10, <1>k DEF ModalTimerFires
<1>11. CASE UNCHANGED tradeVars
  BY <1>11, <1>k DEF tradeVars
<1> QED
  BY <1>1, <1>2, <1>3, <1>4, <1>5, <1>6, <1>7, <1>8, <1>9, <1>10, <1>11
  DEF TradeNext, TradeAnswer

\* A wallet only sends from the account whose session placed the order, though
\* the visitor may sign out or in as another, and the wallet's owner connect
\* another account, at any time; and only after what was prepared to come before.
THEOREM TradesAreOfTheUser == TradeSpec => []TradesAreTheUsers
<1>1. TradeInv => TradesAreTheUsers
  BY DEF TradeInv
<1> QED
  BY <1>1, TradeStarts, TradeGoesOn, PTL DEF TradeSpec
-----------------------------------------------------------------------------
(* Signing in to the admin site *)

SignInFields == {"number", "stage", "account", "challenge", "signature", "username"}

\* The attempts that have signed in: their profile is being read.
ReadsProfile(a) == a.stage = "profile"

AttemptInv(a) == a = [f \in SignInFields |-> a[f]]

\* While the stored session is restored nothing else is under way.
Restoring ==
    \A a \in signIns : a.number = 0 =>
        signIns = {a} /\ ReadsProfile(a) /\ authPending /\ identity.profile = None

\* Without a session, the token is that of whatever reads a profile.
TokenFollowed ==
    identity.session = None /\ token # None =>
        \A a \in signIns : ReadsProfile(a) => a.account = token

\* The stored token, the session and the profile.
TokenInv ==
    /\ identity = [f \in {"session", "profile", "challenge"} |-> identity[f]]
    /\ attempted \in Nat
    /\ \A a \in signIns : AttemptInv(a)
    /\ authDialog = [f \in {"open", "wallets", "active", "waiting"} |-> authDialog[f]]
    /\ authDialog.waiting # None => AttemptInv(authDialog.waiting)
    /\ Restoring
    /\ TokenFollowed
    /\ ProfileIsOfTheToken

\* The latest read of a balance is of the profile on screen.
CashInv ==
    /\ identity = [f \in {"session", "profile", "challenge"} |-> identity[f]]
    /\ adminCash = [f \in {"shown", "latest", "reads"} |-> adminCash[f]]
    /\ adminCash.shown = [f \in {"value", "loading", "failed"} |-> adminCash.shown[f]]
    /\ adminCash.shown.loading \in BOOLEAN
    /\ adminCash.latest \in Nat
    /\ \A r \in adminCash.reads :
          /\ r.number \in Nat /\ r.number <= adminCash.latest
          /\ identity.profile # None /\ r.number = adminCash.latest
                => r.account = identity.profile
    /\ CashIsTheAdmins

LEMMA TokenStarts == AdminInit => TokenInv
<1> SUFFICES ASSUME AdminInit PROVE TokenInv
  OBVIOUS
<1>1. /\ identity = [f \in {"session", "profile", "challenge"} |-> identity[f]]
      /\ identity.profile = None /\ identity.session = None
  BY DEF AdminInit, NoIdentity
<1>2. /\ authDialog = [f \in {"open", "wallets", "active", "waiting"} |-> authDialog[f]]
      /\ authDialog.waiting = None
  BY DEF AdminInit, DialogShut
<1>3. ASSUME NEW a \in signIns
      PROVE  /\ AttemptInv(a) /\ ReadsProfile(a) /\ a.account = token
             /\ signIns = {a} /\ authPending
  <2>1. /\ signIns = {[number |-> 0, stage |-> "profile", account |-> token,
                       challenge |-> None, signature |-> None, username |-> FALSE]}
        /\ token # None
    BY <1>3 DEF AdminInit
  <2>2. authPending
    BY <2>1, Zenon DEF AdminInit
  <2>3. a = [number |-> 0, stage |-> "profile", account |-> token, challenge |-> None,
             signature |-> None, username |-> FALSE]
    BY <1>3, <2>1
  <2>4. AttemptInv(a) /\ ReadsProfile(a) /\ a.account = token
    BY <2>3 DEF AttemptInv, SignInFields, ReadsProfile
  <2>5. signIns = {a}
    BY <2>1, <2>3
  <2> QED
    BY <2>2, <2>4, <2>5
<1>4. attempted \in Nat
  BY DEF AdminInit
<1> QED
  BY <1>1, <1>2, <1>3, <1>4 DEF TokenInv, Restoring, TokenFollowed, ProfileIsOfTheToken

LEMMA CashStarts == AdminInit => CashInv
<1> SUFFICES ASSUME AdminInit PROVE CashInv
  OBVIOUS
<1>1. /\ adminCash = [f \in {"shown", "latest", "reads"} |-> adminCash[f]]
      /\ adminCash.shown = NoCash /\ adminCash.latest = 0 /\ adminCash.reads = {}
  BY DEF AdminInit
<1>2. /\ identity = [f \in {"session", "profile", "challenge"} |-> identity[f]]
      /\ identity.profile = None
  BY DEF AdminInit, NoIdentity
<1>3. NoCash = [f \in {"value", "loading", "failed"} |-> NoCash[f]] /\ NoCash.loading = FALSE
  BY DEF NoCash
<1>4. /\ adminCash.shown = [f \in {"value", "loading", "failed"} |-> adminCash.shown[f]]
      /\ adminCash.shown.loading \in BOOLEAN /\ adminCash.latest \in Nat
  BY DEF AdminInit, NoCash
<1> QED
  BY <1>1, <1>2, <1>4 DEF CashInv, CashIsTheAdmins

\* A dialog that only changes what it lists and what it is busy with.
SameWaiting ==
    /\ authDialog' = [f \in {"open", "wallets", "active", "waiting"} |-> authDialog'[f]]
    /\ authDialog'.waiting \in {authDialog.waiting, None}

\* The session, the token and the profile stay as they are.
SameAccount == UNCHANGED <<token, overtaken>> /\ identity'.session = identity.session
               /\ identity'.profile = identity.profile
               /\ identity' = [f \in {"session", "profile", "challenge"} |-> identity'[f]]

LEMMA TokenGoesOn == TokenInv /\ [AdminNext]_adminVars => TokenInv'
<1> SUFFICES ASSUME TokenInv, [AdminNext]_adminVars PROVE TokenInv'
  OBVIOUS
<1>u. UNCHANGED authDialog => SameWaiting
  BY DEF SameWaiting, TokenInv
<1>d. ASSUME authDialog' = DialogShut PROVE SameWaiting
  BY <1>d DEF SameWaiting, DialogShut
<1>a. ASSUME NEW x, authDialog' = [authDialog EXCEPT !.active = x] PROVE SameWaiting
  BY <1>a DEF SameWaiting, TokenInv
<1>w. SameWaiting => /\ authDialog' = [f \in {"open", "wallets", "active", "waiting"} |-> authDialog'[f]]
                     /\ authDialog'.waiting # None => AttemptInv(authDialog'.waiting)
  BY DEF SameWaiting, TokenInv
<1>i. UNCHANGED identity => /\ identity'.session = identity.session
                            /\ identity'.profile = identity.profile
                            /\ identity' = [f \in {"session", "profile", "challenge"} |-> identity'[f]]
  BY DEF TokenInv
\* Nothing is signed in, and nothing is under way that was not.
<1>q. ASSUME SameAccount, UNCHANGED <<signIns, attempted, authPending>>, SameWaiting
      PROVE  TokenInv'
  BY <1>q, <1>w DEF TokenInv, SameAccount, Restoring, TokenFollowed, ProfileIsOfTheToken
\* An attempt begins.
<1>n. ASSUME NEW b, AttemptInv(b), ~ReadsProfile(b), b.number # 0, SameAccount, SameWaiting,
             ~authPending, signIns' = signIns \cup {b}, attempted' \in Nat
      PROVE  TokenInv'
  <2>1. \A a \in signIns' : AttemptInv(a) /\ a.number # 0
    BY <1>n DEF TokenInv, Restoring
  <2>2. \A a \in signIns' : ReadsProfile(a) => a \in signIns
    BY <1>n
  <2>3. \A a \in signIns : a \in signIns'
    BY <1>n
  <2> QED
    BY <1>n, <1>w, <2>1, <2>2, <2>3
    DEF TokenInv, SameAccount, Restoring, TokenFollowed, ProfileIsOfTheToken, ReadsProfile
\* An attempt that has not signed in goes on, or ends.
<1>g. ASSUME NEW a \in signIns, ~ReadsProfile(a),
             \A b \in signIns : b = a \/ b \in signIns',
             \A b \in signIns' :
                 b \in signIns \/ (AttemptInv(b) /\ ~ReadsProfile(b) /\ b.number = a.number),
             SameAccount, UNCHANGED attempted,
             authDialog' = [f \in {"open", "wallets", "active", "waiting"} |-> authDialog'[f]],
             authDialog'.waiting # None => AttemptInv(authDialog'.waiting)
      PROVE  TokenInv'
  <2>1. \A b \in signIns' : AttemptInv(b) /\ b.number # 0
    BY <1>g DEF TokenInv, Restoring
  <2>2. \A b \in signIns' : ReadsProfile(b) => b \in signIns
    BY <1>g
  <2>3. \A b \in signIns : ReadsProfile(b) => b \in signIns'
    BY <1>g
  <2> QED
    BY <1>g, <2>1, <2>2, <2>3
    DEF TokenInv, SameAccount, Restoring, TokenFollowed, ProfileIsOfTheToken, ReadsProfile
<1>1. CASE RefreshCash \/ \E read \in adminCash.reads, ok \in BOOLEAN : CashRead(read, ok)
  BY <1>1, <1>i, <1>q, <1>u DEF RefreshCash, CashRead, SameAccount
<1>2. CASE OpenAuthDialog \/ WalletsFound \/ ChooseAnotherWallet
  <2>1. SameWaiting
    BY <1>2 DEF OpenAuthDialog, WalletsFound, ChooseAnotherWallet, SameWaiting, TokenInv
  <2> QED
    BY <1>2, <1>i, <2>1, <1>q DEF OpenAuthDialog, WalletsFound, ChooseAnotherWallet, SameAccount
<1>3. CASE CloseAuthDialog \/ \E number \in closers.due : CloserFires(number)
  <2>1. SameWaiting
    BY <1>3, <1>d, <1>u DEF CloseAuthDialog, CloserFires
  <2> QED
    BY <1>3, <1>i, <2>1, <1>q DEF CloseAuthDialog, CloserFires, SameAccount
<1>4. CASE AdminWalletClicked
  <2> DEFINE a == AdminAttempt("account", None)
  <2>1. AttemptInv(a) /\ ~ReadsProfile(a) /\ a.number = attempted + 1
    BY DEF AdminAttempt, AttemptInv, SignInFields, ReadsProfile
  <2>2. signIns' = signIns \cup {a} /\ SameWaiting
    BY <1>4, <1>a DEF AdminWalletClicked
  <2>3. attempted' \in Nat /\ attempted + 1 # 0 /\ ~authPending /\ SameAccount
    BY <1>4, <1>i DEF AdminWalletClicked, TokenInv, SameAccount
  <2> HIDE DEF a
  <2> QED
    BY <2>1, <2>2, <2>3, <1>n
<1>5. CASE AdminUsernameSubmitted
  <2> DEFINE n == attempted + 1
             a == [authDialog.waiting EXCEPT !.number = n, !.stage = "connecting",
                                             !.username = TRUE]
  <2>1. AttemptInv(authDialog.waiting) /\ signIns' = signIns \cup {a} /\ SameWaiting
    BY <1>5, <1>a DEF AdminUsernameSubmitted, TokenInv
  <2>2. attempted' \in Nat /\ n # 0 /\ ~authPending /\ SameAccount
    BY <1>5, <1>i DEF AdminUsernameSubmitted, TokenInv, SameAccount
  <2> HIDE DEF n
  <2>3. AttemptInv(a) /\ ~ReadsProfile(a) /\ a.number = n
    BY <2>1 DEF AttemptInv, SignInFields, ReadsProfile
  <2> HIDE DEF a
  <2> QED
    BY <2>1, <2>2, <2>3, <1>n
<1>6. CASE SignOutAdmin
  <2>1. /\ identity' = NoIdentity /\ identity.profile # None /\ token' = None
        /\ UNCHANGED <<authPending, authDialog, signIns, attempted>>
    BY <1>6 DEF SignOutAdmin
  <2>2. /\ identity' = [f \in {"session", "profile", "challenge"} |-> identity'[f]]
        /\ identity'.profile = None /\ identity'.session = None
    BY <2>1 DEF NoIdentity
  <2> QED
    BY <2>1, <2>2 DEF TokenInv, Restoring, TokenFollowed, ProfileIsOfTheToken
<1>7. ASSUME NEW a \in signIns, NEW account \in Admin, AccountGranted(a, account)
      PROVE  TokenInv'
  <2> DEFINE b == [a EXCEPT !.stage = "challenge", !.account = account]
  <2>1. AttemptInv(a) /\ ~ReadsProfile(a)
    BY <1>7 DEF TokenInv, AccountGranted, ReadsProfile
  <2>2. AttemptInv(b) /\ ~ReadsProfile(b) /\ b.number = a.number
    BY <2>1 DEF AttemptInv, SignInFields, ReadsProfile
  <2>3. /\ signIns' = (signIns \ {a}) \cup {b} /\ UNCHANGED attempted
        /\ UNCHANGED authDialog
    BY <1>7 DEF AccountGranted, Goes
  <2>4. SameAccount
    BY <1>7, <1>i DEF AccountGranted, SameAccount
  <2> HIDE DEF b
  <2>5. /\ \A c \in signIns : c = a \/ c \in signIns'
        /\ \A c \in signIns' :
               c \in signIns \/ (AttemptInv(c) /\ ~ReadsProfile(c) /\ c.number = a.number)
    BY <2>2, <2>3
  <2>6. /\ authDialog' = [f \in {"open", "wallets", "active", "waiting"} |-> authDialog'[f]]
        /\ authDialog'.waiting # None => AttemptInv(authDialog'.waiting)
    BY <2>3, <1>u, <1>w
  <2> QED
    BY <2>1, <2>3, <2>4, <2>5, <2>6, <1>g
<1>8. ASSUME NEW a \in signIns, ChallengeRead(a) PROVE TokenInv'
  <2> DEFINE b == [a EXCEPT !.stage = "signing", !.challenge = a.account]
  <2>1. AttemptInv(a) /\ ~ReadsProfile(a)
    BY <1>8 DEF TokenInv, ChallengeRead, ReadsProfile
  <2>2. AttemptInv(b) /\ ~ReadsProfile(b) /\ b.number = a.number
    BY <2>1 DEF AttemptInv, SignInFields, ReadsProfile
  <2>3. /\ signIns' = (signIns \ {a}) \cup {b} /\ UNCHANGED attempted
        /\ UNCHANGED authDialog
    BY <1>8 DEF ChallengeRead, Goes
  <2>4. SameAccount
    BY <1>8 DEF ChallengeRead, SameAccount, TokenInv
  <2> HIDE DEF b
  <2>5. /\ \A c \in signIns : c = a \/ c \in signIns'
        /\ \A c \in signIns' :
               c \in signIns \/ (AttemptInv(c) /\ ~ReadsProfile(c) /\ c.number = a.number)
    BY <2>2, <2>3
  <2>6. /\ authDialog' = [f \in {"open", "wallets", "active", "waiting"} |-> authDialog'[f]]
        /\ authDialog'.waiting # None => AttemptInv(authDialog'.waiting)
    BY <2>3, <1>u, <1>w
  <2> QED
    BY <2>1, <2>3, <2>4, <2>5, <2>6, <1>g
<1>9. ASSUME NEW a \in signIns, MessageSigned(a) PROVE TokenInv'
  <2> DEFINE b == [a EXCEPT !.stage = "connecting", !.signature = a.account]
  <2>1. AttemptInv(a) /\ ~ReadsProfile(a)
    BY <1>9 DEF TokenInv, MessageSigned, ReadsProfile
  <2>2. AttemptInv(b) /\ ~ReadsProfile(b) /\ b.number = a.number
    BY <2>1 DEF AttemptInv, SignInFields, ReadsProfile
  <2>3. /\ signIns' = (signIns \ {a}) \cup {b} /\ UNCHANGED attempted
        /\ UNCHANGED authDialog
    BY <1>9 DEF MessageSigned, Goes
  <2>4. SameAccount
    BY <1>9, <1>i DEF MessageSigned, SameAccount
  <2> HIDE DEF b
  <2>5. /\ \A c \in signIns : c = a \/ c \in signIns'
        /\ \A c \in signIns' :
               c \in signIns \/ (AttemptInv(c) /\ ~ReadsProfile(c) /\ c.number = a.number)
    BY <2>2, <2>3
  <2>6. /\ authDialog' = [f \in {"open", "wallets", "active", "waiting"} |-> authDialog'[f]]
        /\ authDialog'.waiting # None => AttemptInv(authDialog'.waiting)
    BY <2>3, <1>u, <1>w
  <2> QED
    BY <2>1, <2>3, <2>4, <2>5, <2>6, <1>g
<1>10. ASSUME NEW a \in signIns, AdminAttemptFails(a) \/ SignInRefused(a) PROVE TokenInv'
  <2>1. /\ ~ReadsProfile(a) /\ UNCHANGED <<attempted, token, overtaken, identity>>
        /\ \A c \in signIns : c = a \/ c \in signIns'
        /\ signIns' \subseteq signIns
        /\ authDialog' = [authDialog EXCEPT !.active = 0]
    BY <1>10 DEF AdminAttemptFails, SignInRefused, Ends, ReadsProfile
  <2>2. SameAccount
    BY <2>1, <1>i DEF SameAccount
  <2>3. /\ authDialog' = [f \in {"open", "wallets", "active", "waiting"} |-> authDialog'[f]]
        /\ authDialog'.waiting # None => AttemptInv(authDialog'.waiting)
    BY <2>1, <1>a, <1>w
  <2> QED
    BY <2>1, <2>2, <2>3, <1>g
<1>11. ASSUME NEW a \in signIns, AdminSignedIn(a) PROVE TokenInv'
  <2> DEFINE b == [a EXCEPT !.stage = "profile"]
  <2>1. AttemptInv(a) /\ ~ReadsProfile(a)
    BY <1>11 DEF TokenInv, AdminSignedIn, ReadsProfile
  <2>2. AttemptInv(b) /\ ReadsProfile(b) /\ b.number = a.number /\ b.account = a.account
    BY <2>1 DEF AttemptInv, SignInFields, ReadsProfile
  <2>3. /\ signIns' = (signIns \ {a}) \cup {b} /\ UNCHANGED <<attempted, overtaken, authDialog>>
        /\ token' = a.account /\ identity' = [identity EXCEPT !.session = a.account]
    BY <1>11 DEF AdminSignedIn, Goes
  <2>4. /\ identity' = [f \in {"session", "profile", "challenge"} |-> identity'[f]]
        /\ identity'.profile = identity.profile /\ identity'.session = a.account
    BY <2>3 DEF TokenInv
  <2> HIDE DEF b
  <2>5. \A c \in signIns' : AttemptInv(c) /\ c.number # 0
    BY <2>1, <2>2, <2>3 DEF TokenInv, Restoring
  <2>6. b \in signIns'
    BY <2>3
  <2> QED
    BY <2>2, <2>3, <2>4, <2>5, <2>6, <1>u, <1>w
    DEF TokenInv, Restoring, TokenFollowed, ProfileIsOfTheToken, ReadsProfile
<1>12. ASSUME NEW a \in signIns, UsernameWanted(a) PROVE TokenInv'
  <2>1. /\ AttemptInv(a) /\ ~ReadsProfile(a)
        /\ UNCHANGED <<attempted, token, overtaken, identity>>
        /\ \A c \in signIns : c = a \/ c \in signIns'
        /\ signIns' \subseteq signIns
    BY <1>12 DEF UsernameWanted, TokenInv, ReadsProfile
  <2>2. /\ authDialog' = [f \in {"open", "wallets", "active", "waiting"} |-> authDialog'[f]]
        /\ authDialog'.waiting \in {authDialog.waiting, a}
    BY <1>12 DEF UsernameWanted, TokenInv
  <2>3. authDialog'.waiting # None => AttemptInv(authDialog'.waiting)
    BY <2>1, <2>2 DEF TokenInv
  <2>4. SameAccount
    BY <2>1, <1>i DEF SameAccount
  <2> QED
    BY <2>1, <2>2, <2>3, <2>4, <1>g
<1>13. ASSUME NEW a \in signIns, ProfileRead(a) PROVE TokenInv'
  <2>1. /\ identity' = [identity EXCEPT !.profile = a.account,
                            !.session = IF identity.session = None THEN a.account
                                        ELSE identity.session]
        /\ signIns' = signIns \ {a} /\ ReadsProfile(a) /\ UNCHANGED <<token, attempted>>
        /\ overtaken' = (token # a.account) /\ SameWaiting
    BY <1>13, <1>d DEF ProfileRead, ReadsProfile
  <2> DEFINE s == IF identity.session = None THEN a.account ELSE identity.session
  <2>2. /\ identity' = [f \in {"session", "profile", "challenge"} |-> identity'[f]]
        /\ identity'.profile = a.account /\ identity'.session = s
    <3> HIDE DEF s
    <3>1. identity' = [identity EXCEPT !.profile = a.account, !.session = s]
      BY <2>1 DEF s
    <3> QED
      BY <3>1 DEF TokenInv
  <2>3. \A c \in signIns' : AttemptInv(c) /\ c.number # 0 /\ c \in signIns
    BY <2>1 DEF TokenInv, Restoring
  <2>4. TokenFollowed' /\ ProfileIsOfTheToken'
    BY <2>1, <2>2, <2>3 DEF TokenInv, TokenFollowed, ProfileIsOfTheToken
  <2> QED
    BY <2>1, <2>2, <2>3, <2>4, <1>w DEF TokenInv, Restoring
<1>14. ASSUME NEW a \in signIns, NEW denied \in BOOLEAN, ProfileFails(a, denied)
       PROVE  TokenInv'
  <2>1. /\ signIns' = signIns \ {a} /\ UNCHANGED attempted /\ SameWaiting /\ ReadsProfile(a)
    BY <1>14, <1>a, <1>u DEF ProfileFails, ReadsProfile
  <2>2. \A c \in signIns' : AttemptInv(c) /\ c.number # 0 /\ c \in signIns
    BY <2>1 DEF TokenInv, Restoring
  <2>3. CASE denied \/ a.number # 0
    <3>1. /\ token' = None
          /\ identity' = NoIdentity
             \/ identity' = [identity EXCEPT !.session = None, !.profile = None]
      BY <1>14, <2>3 DEF ProfileFails
    <3>2. /\ identity' = [f \in {"session", "profile", "challenge"} |-> identity'[f]]
          /\ identity'.profile = None /\ identity'.session = None
      <4>1. CASE identity' = NoIdentity
        BY <4>1 DEF NoIdentity
      <4>2. CASE identity' = [identity EXCEPT !.session = None, !.profile = None]
        BY <4>2 DEF TokenInv
      <4> QED
        BY <3>1, <4>1, <4>2
    <3> QED
      BY <2>1, <2>2, <3>1, <3>2, <1>w
      DEF TokenInv, Restoring, TokenFollowed, ProfileIsOfTheToken
  <2>4. CASE ~denied /\ a.number = 0
    <3>1. UNCHANGED <<token, identity, overtaken>> /\ identity.profile = None /\ signIns = {a}
      BY <1>14, <2>4 DEF ProfileFails, TokenInv, Restoring
    <3> QED
      BY <2>1, <2>2, <3>1, <1>w DEF TokenInv, Restoring, TokenFollowed, ProfileIsOfTheToken
  <2> QED
    BY <2>3, <2>4
<1>15. CASE UNCHANGED adminVars
  BY <1>15, <1>i, <1>u, <1>q DEF adminVars, SameAccount
<1> QED
  BY <1>1, <1>2, <1>3, <1>4, <1>5, <1>6, <1>7, <1>8, <1>9, <1>10, <1>11, <1>12, <1>13, <1>14,
     <1>15
  DEF AdminNext

\* A read is begun for the profile that is shown then, and is the latest.
LEMMA CashReadBegins ==
    ASSUME CashInv, adminCash' = Refreshed(identity'.profile),
           identity' = [f \in {"session", "profile", "challenge"} |-> identity'[f]]
    PROVE  CashInv'
<1> DEFINE n == adminCash.latest + 1
<1>1. CASE identity'.profile = None
  <2>1. adminCash' = [adminCash EXCEPT !.shown = NoCash]
    BY <1>1 DEF Refreshed
  <2>2. /\ adminCash' = [f \in {"shown", "latest", "reads"} |-> adminCash'[f]]
        /\ adminCash'.shown = NoCash /\ adminCash'.latest = adminCash.latest
        /\ adminCash'.reads = adminCash.reads
    BY <2>1 DEF CashInv
  <2> QED
    BY <2>2, <1>1 DEF CashInv, CashIsTheAdmins, NoCash
<1>2. CASE identity'.profile # None
  <2> DEFINE shown == [adminCash.shown EXCEPT !.loading = TRUE, !.failed = FALSE]
             read  == [number |-> n, account |-> identity'.profile]
  <2>1. adminCash' = [shown |-> shown, latest |-> n, reads |-> adminCash.reads \cup {read}]
    BY <1>2 DEF Refreshed
  <2>2. shown = [f \in {"value", "loading", "failed"} |-> shown[f]] /\ shown.loading = TRUE
    BY DEF CashInv
  <2>3. n \in Nat /\ n > adminCash.latest /\ adminCash.latest \in Nat
    BY DEF CashInv
  <2> HIDE DEF shown, n
  <2>4. ASSUME NEW r \in adminCash'.reads
        PROVE  /\ r.number \in Nat /\ r.number <= adminCash'.latest
               /\ identity'.profile # None /\ r.number = adminCash'.latest
                     => r.account = identity'.profile
    <3>1. CASE r = read
      BY <3>1, <2>1, <2>3
    <3>2. CASE r \in adminCash.reads
      <4>1. r.number \in Nat /\ r.number <= adminCash.latest
        BY <3>2 DEF CashInv
      <4> QED
        BY <4>1, <2>1, <2>3
    <3> QED
      BY <2>1, <2>4, <3>1, <3>2
  <2> QED
    <3>1. /\ adminCash' = [f \in {"shown", "latest", "reads"} |-> adminCash'[f]]
          /\ adminCash'.shown = shown /\ adminCash'.latest = n
      BY <2>1
    <3> QED
      BY <3>1, <2>2, <2>3, <2>4 DEF CashInv, CashIsTheAdmins
<1> QED
  BY <1>1, <1>2

LEMMA CashGoesOn == CashInv /\ [AdminNext]_adminVars => CashInv'
<1> SUFFICES ASSUME CashInv, [AdminNext]_adminVars PROVE CashInv'
  OBVIOUS
<1>k. ASSUME UNCHANGED adminCash,
             identity' = [f \in {"session", "profile", "challenge"} |-> identity'[f]],
             identity'.profile \in {identity.profile, None}
      PROVE  CashInv'
  BY <1>k DEF CashInv, CashIsTheAdmins
<1>u. ASSUME UNCHANGED <<identity, adminCash>> PROVE CashInv'
  BY <1>u, <1>k DEF CashInv
<1>1. CASE RefreshCash
  BY <1>1, CashReadBegins DEF RefreshCash, CashInv
<1>2. ASSUME NEW read \in adminCash.reads, NEW ok \in BOOLEAN, CashRead(read, ok) PROVE CashInv'
  <2>1. UNCHANGED identity
    BY <1>2 DEF CashRead
  <2>2. CASE IsLatestRead(read)
    <3>1. adminCash' = [adminCash EXCEPT !.reads = @ \ {read},
                            !.shown = [value   |-> IF ok THEN read.account ELSE None,
                                       loading |-> FALSE, failed |-> ~ok]]
      BY <1>2, <2>2 DEF CashRead
    <3>2. /\ adminCash' = [f \in {"shown", "latest", "reads"} |-> adminCash'[f]]
          /\ adminCash'.reads = adminCash.reads \ {read}
          /\ adminCash'.latest = adminCash.latest
          /\ adminCash'.shown = [value   |-> IF ok THEN read.account ELSE None,
                                 loading |-> FALSE, failed |-> ~ok]
      BY <3>1 DEF CashInv
    <3>3. /\ adminCash'.shown = [f \in {"value", "loading", "failed"} |-> adminCash'.shown[f]]
          /\ adminCash'.shown.loading = FALSE
          /\ adminCash'.shown.value \in {read.account, None}
      BY <3>2
    <3>4. identity.profile # None => read.account = identity.profile
      BY <2>2 DEF CashInv, IsLatestRead
    <3> QED
      BY <2>1, <3>2, <3>3, <3>4 DEF CashInv, CashIsTheAdmins
  <2>3. CASE ~IsLatestRead(read)
    <3>1. adminCash' = [adminCash EXCEPT !.reads = @ \ {read}, !.shown = @]
      BY <1>2, <2>3 DEF CashRead
    <3>2. /\ adminCash' = [f \in {"shown", "latest", "reads"} |-> adminCash'[f]]
          /\ adminCash'.reads = adminCash.reads \ {read}
          /\ adminCash'.latest = adminCash.latest
          /\ adminCash'.shown = adminCash.shown
      BY <3>1 DEF CashInv
    <3> QED
      BY <2>1, <3>2 DEF CashInv, CashIsTheAdmins
  <2> QED
    BY <2>2, <2>3
<1>3. CASE \/ OpenAuthDialog \/ WalletsFound \/ CloseAuthDialog \/ ChooseAnotherWallet
           \/ AdminWalletClicked \/ AdminUsernameSubmitted
           \/ \E number \in closers.due : CloserFires(number)
  BY <1>3, <1>u DEF CloserFires, OpenAuthDialog, WalletsFound, CloseAuthDialog, ChooseAnotherWallet,
                    AdminWalletClicked, AdminUsernameSubmitted
<1>4. CASE SignOutAdmin
  <2>1. identity' = NoIdentity /\ adminCash' = Refreshed(None)
    BY <1>4 DEF SignOutAdmin
  <2> QED
    BY <2>1, CashReadBegins DEF NoIdentity
<1>5. ASSUME NEW a \in signIns,
             \/ \E account \in Admin : AccountGranted(a, account)
             \/ MessageSigned(a) \/ AdminAttemptFails(a) \/ UsernameWanted(a) \/ SignInRefused(a)
      PROVE  CashInv'
  BY <1>5, <1>u DEF AccountGranted, MessageSigned, AdminAttemptFails, UsernameWanted,
                    SignInRefused
<1>6. ASSUME NEW a \in signIns, ChallengeRead(a) \/ AdminSignedIn(a) PROVE CashInv'
  <2>1. PICK x : identity' = [identity EXCEPT !.challenge = x]
                 \/ identity' = [identity EXCEPT !.session = x]
    BY <1>6 DEF ChallengeRead, AdminSignedIn
  <2>2. /\ identity' = [f \in {"session", "profile", "challenge"} |-> identity'[f]]
        /\ identity'.profile = identity.profile
    BY <2>1 DEF CashInv
  <2> QED
    BY <1>6, <2>2, <1>k DEF ChallengeRead, AdminSignedIn
<1>7. ASSUME NEW a \in signIns, ProfileRead(a) PROVE CashInv'
  <2>1. PICK x : identity' = [identity EXCEPT !.profile = a.account, !.session = x]
    BY <1>7 DEF ProfileRead
  <2>2. /\ identity' = [f \in {"session", "profile", "challenge"} |-> identity'[f]]
        /\ identity'.profile = a.account
    BY <2>1 DEF CashInv
  <2> QED
    BY <1>7, <2>2, CashReadBegins DEF ProfileRead
<1>8. ASSUME NEW a \in signIns, NEW denied \in BOOLEAN, ProfileFails(a, denied) PROVE CashInv'
  <2>1. CASE UNCHANGED <<identity, adminCash>>
    BY <2>1, <1>u
  <2>2. CASE denied \/ a.number # 0
    <3>1. identity' \in {NoIdentity, [identity EXCEPT !.session = None, !.profile = None]}
      BY <1>8, <2>2 DEF ProfileFails
    <3>2. /\ identity' = [f \in {"session", "profile", "challenge"} |-> identity'[f]]
          /\ identity'.profile = None
      <4>1. CASE identity' = NoIdentity
        BY <4>1 DEF NoIdentity
      <4>2. CASE identity' = [identity EXCEPT !.session = None, !.profile = None]
        BY <4>2 DEF CashInv
      <4> QED
        BY <3>1, <4>1, <4>2
    <3>3. adminCash' \in {adminCash, Refreshed(None)}
      BY <1>8, <2>2 DEF ProfileFails
    <3> QED
      BY <3>2, <3>3, <1>k, CashReadBegins
  <2> QED
    BY <1>8, <2>1, <2>2 DEF ProfileFails
<1>9. CASE UNCHANGED adminVars
  BY <1>9, <1>u DEF adminVars
<1> QED
  BY <1>1, <1>2, <1>3, <1>4, <1>5, <1>6, <1>7, <1>8, <1>9 DEF AdminNext
-----------------------------------------------------------------------------
(* Payments to the account of the admin site *)

TransferFields ==
    {"open", "amount", "submitting", "receipt", "message", "shown", "loading", "failed",
     "request", "confirmation"}

PaymentFields == {"kind", "number", "for", "seen", "attempt", "expected", "waiting"}

\* What a call has seen was there when it was served, and is there still.
CallInv(c) ==
    /\ c = [f \in PaymentFields |-> c[f]]
    /\ c.for \in Admin \cup {None}
    /\ c.seen # None => /\ c.for \in Admin
                        /\ c.seen \in Nat
                        /\ c.seen <= funds[c.for]
    /\ c.kind = "confirm" => c.number \in Nat /\ c.number <= transfer.confirmation

\* The latest confirmation reads balances that have the payment of the receipt.
ConfirmInv(c) ==
    /\ c.kind = "confirm" /\ c.number = transfer.confirmation /\ c.seen # None
    /\ transfer.receipt # None /\ c.for = transfer.receipt.for
    => c.seen >= transfer.receipt.after

BarInv ==
    /\ recipient \in Admin \cup {None}
    /\ funds \in [Admin -> Nat]
    /\ transfer = [f \in TransferFields |-> transfer[f]]
    /\ transfer.confirmation \in Nat
    /\ transfer.receipt # None => /\ transfer.receipt.for \in Admin
                                  /\ transfer.receipt.after \in Nat
                                  /\ transfer.receipt.after <= funds[transfer.receipt.for]
    /\ \A c \in transferCalls : CallInv(c) /\ ConfirmInv(c)
    /\ ConfirmedAfterPayment

LEMMA BarStarts == BarInit => BarInv
<1> SUFFICES ASSUME BarInit PROVE BarInv
  OBVIOUS
<1>1. /\ transfer = [f \in TransferFields |-> transfer[f]]
      /\ transfer.confirmation = 0 /\ transfer.receipt = None
  BY DEF BarInit, TransferShut, TransferFields
<1> QED
  BY <1>1 DEF BarInit, BarInv, ConfirmedAfterPayment

\* Nothing is paid and nothing confirmed: a receipt or a balance may be taken off
\* the screen, a balance that is no confirmation's put on it, and calls that have
\* seen nothing sent.
LEMMA BarQuiet ==
    ASSUME BarInv, recipient' \in Admin \cup {None}, UNCHANGED funds,
           transfer' = [f \in TransferFields |-> transfer'[f]],
           transfer'.confirmation = transfer.confirmation,
           transfer'.receipt \in {transfer.receipt, None},
           \/ transfer'.shown \in {transfer.shown, None}
           \/ transfer'.shown.by # "confirm",
           \A c \in transferCalls' :
               \/ c \in transferCalls
               \/ CallInv(c) /\ c.seen = None
    PROVE  BarInv'
<1>1. ConfirmedAfterPayment'
  BY DEF BarInv, ConfirmedAfterPayment
<1>2. ASSUME NEW c \in transferCalls' PROVE CallInv(c)' /\ ConfirmInv(c)'
  BY <1>2 DEF BarInv, CallInv, ConfirmInv
<1> QED
  BY <1>1, <1>2 DEF BarInv

\* Asking for a balance leaves the receipt, and may take the balance off.
LEMMA Asked ==
    ASSUME NEW d, d = [f \in TransferFields |-> d[f]], NEW a \in Admin \cup {None}
    PROVE  /\ ReadFor(d, a) = [f \in TransferFields |-> ReadFor(d, a)[f]]
           /\ ReadFor(d, a).confirmation = d.confirmation
           /\ ReadFor(d, a).receipt = d.receipt
           /\ ReadFor(d, a).shown \in {d.shown, None}
<1> DEFINE n == d.request + 1
<1>1. Loading(d) = [d EXCEPT !.request = n, !.loading = TRUE, !.failed = FALSE]
  BY DEF Loading
<1> HIDE DEF n
<1>2. ReadFor(d, a) \in {[d EXCEPT !.loading = FALSE],
                         [d EXCEPT !.shown = None, !.loading = FALSE, !.failed = FALSE],
                         [d EXCEPT !.request = n, !.loading = TRUE, !.failed = FALSE]}
  BY <1>1 DEF ReadFor
<1> DEFINE e == ReadFor(d, a)
<1>3. CASE e = [d EXCEPT !.loading = FALSE]
  BY <1>3 DEF TransferFields
<1>4. CASE e = [d EXCEPT !.shown = None, !.loading = FALSE, !.failed = FALSE]
  BY <1>4 DEF TransferFields
<1>5. CASE e = [d EXCEPT !.request = n, !.loading = TRUE, !.failed = FALSE]
  BY <1>5 DEF TransferFields
<1> QED
  BY <1>2, <1>3, <1>4, <1>5

\* What is asked for has seen nothing.
LEMMA AskedCalls ==
    ASSUME BarInv, NEW a \in Admin \cup {None}, NEW n, NEW kind \in {"refresh", "faucet"}
    PROVE  CallInv(Read(kind, n, a)) /\ Read(kind, n, a).seen = None
BY DEF CallInv, Read, PaymentFields

LEMMA BarGoesOn == BarInv /\ [BarNext]_barVars => BarInv'
<1> SUFFICES ASSUME BarInv, [BarNext]_barVars PROVE BarInv'
  OBVIOUS
<1>t. /\ transfer = [f \in TransferFields |-> transfer[f]]
      /\ recipient \in Admin \cup {None} /\ funds \in [Admin -> Nat]
      /\ transfer.confirmation \in Nat
  BY DEF BarInv
<1>k. ASSUME UNCHANGED <<transfer, funds>>, recipient' \in Admin \cup {None},
             transferCalls' \subseteq transferCalls
      PROVE  BarInv'
  BY <1>k, <1>t, BarQuiet
\* The effect that reads the balance, after signals that are not the receipt's.
<1>r. ASSUME NEW d, NEW a \in Admin \cup {None},
             d = [f \in TransferFields |-> d[f]], d.confirmation = transfer.confirmation,
             d.receipt \in {transfer.receipt, None}, d.shown = transfer.shown,
             transfer' = ReadFor(d, a), recipient' \in Admin \cup {None}, UNCHANGED funds,
             transferCalls' \subseteq transferCalls \cup ReadCalls(transfer', a)
      PROVE  BarInv'
  <2>1. \A c \in ReadCalls(transfer', a) : CallInv(c) /\ c.seen = None
    BY AskedCalls DEF ReadCalls, Refresh
  <2>2. /\ transfer' = [f \in TransferFields |-> transfer'[f]]
        /\ transfer'.confirmation = d.confirmation
        /\ transfer'.receipt = d.receipt
        /\ transfer'.shown \in {d.shown, None}
    BY <1>r, Asked
  <2> QED
    BY <1>r, <2>1, <2>2, BarQuiet
<1>1. ASSUME NEW a \in Admin, RecipientBecomes(a) PROVE BarInv'
  BY <1>1, <1>r, <1>t DEF RecipientBecomes
<1>2. CASE Disconnect
  <2> DEFINE d == [transfer EXCEPT !.open = FALSE]
  <2>1. d = [f \in TransferFields |-> d[f]] /\ d.confirmation = transfer.confirmation
        /\ d.receipt = transfer.receipt /\ d.shown = transfer.shown
    BY <1>t DEF TransferFields
  <2>2. transfer' = ReadFor(d, None) /\ UNCHANGED <<transferCalls, funds>> /\ recipient' = None
    BY <1>2 DEF Disconnect
  <2> HIDE DEF d
  <2> QED
    BY <2>1, <2>2, <1>r
<1>3. CASE ToggleMenu \/ DismissMenu
  BY <1>3, <1>k, <1>t DEF ToggleMenu, DismissMenu
<1>4. CASE OpenTransfer
  <2> DEFINE d == [transfer EXCEPT !.open = TRUE, !.amount = "empty", !.submitting = FALSE,
                     !.loading = FALSE, !.failed = FALSE, !.message = None, !.receipt = None]
  <2>1. d = [f \in TransferFields |-> d[f]] /\ d.confirmation = transfer.confirmation
        /\ d.receipt = None /\ d.shown = transfer.shown
    BY <1>t DEF TransferFields
  <2>2. /\ transfer' = ReadFor(d, recipient) /\ UNCHANGED <<recipient, funds>>
        /\ transferCalls' = transferCalls \cup ReadCalls(transfer', recipient)
    BY <1>4 DEF OpenTransfer
  <2> HIDE DEF d
  <2> QED
    BY <2>1, <2>2, <1>r, <1>t
<1>5. CASE CloseTransfer
  <2> DEFINE d == [transfer EXCEPT !.open = FALSE]
  <2>1. d = [f \in TransferFields |-> d[f]] /\ d.confirmation = transfer.confirmation
        /\ d.receipt = transfer.receipt /\ d.shown = transfer.shown
    BY <1>t DEF TransferFields
  <2>2. transfer' = ReadFor(d, recipient) /\ UNCHANGED <<recipient, transferCalls, funds>>
    BY <1>5 DEF CloseTransfer
  <2> HIDE DEF d
  <2> QED
    BY <2>1, <2>2, <1>r, <1>t
<1>6. ASSUME NEW amount, TypeTransfer(amount) PROVE BarInv'
  <2>1. transfer' = [transfer EXCEPT !.amount = amount]
        /\ UNCHANGED <<recipient, transferCalls, funds>>
    BY <1>6 DEF TypeTransfer
  <2>2. /\ transfer' = [f \in TransferFields |-> transfer'[f]]
        /\ transfer'.confirmation = transfer.confirmation
        /\ transfer'.receipt = transfer.receipt /\ transfer'.shown = transfer.shown
    BY <2>1, <1>t DEF TransferFields
  <2> QED
    BY <2>1, <2>2, <1>t, BarQuiet
<1>7. CASE RequestTransfer
  <2> DEFINE n == IF transfer.shown = None THEN 1 ELSE transfer.shown.amount + 1
             call == [Read("faucet", barSteps, recipient) EXCEPT !.expected = n]
  <2>1. \/ transfer' = [transfer EXCEPT !.receipt = None, !.message = None, !.message = "error"]
        \/ transfer' = [transfer EXCEPT !.receipt = None, !.message = None, !.submitting = TRUE]
    BY <1>7 DEF RequestTransfer
  <2>2. /\ transfer' = [f \in TransferFields |-> transfer'[f]]
        /\ transfer'.confirmation = transfer.confirmation
        /\ transfer'.receipt = None /\ transfer'.shown = transfer.shown
    BY <2>1, <1>t DEF TransferFields
  <2>3. UNCHANGED <<recipient, funds>> /\ transferCalls' \subseteq transferCalls \cup {call}
    BY <1>7 DEF RequestTransfer
  <2> HIDE DEF n
  <2>4. CallInv(call) /\ call.seen = None
    BY <1>t DEF CallInv, Read, PaymentFields
  <2> HIDE DEF call
  <2> QED
    BY <2>2, <2>3, <2>4, <1>t, BarQuiet
<1>8. ASSUME NEW call \in transferCalls, FaucetServes(call) PROVE BarInv'
  <2>0. PICK done : done = [call EXCEPT !.seen = funds'[call.for]]
    OBVIOUS
  <2> DEFINE seen == funds'[call.for]
  <2>1. call.for \in Admin /\ CallInv(call)
    BY <1>8 DEF FaucetServes, BarInv, CallInv
  <2>2. /\ funds' \in [Admin -> Nat]
        /\ \A a \in Admin : funds[a] <= funds'[a]
    <3>1. CASE funds' = funds
      BY <3>1, <1>t
    <3>2. CASE funds' = [funds EXCEPT ![call.for] = @ + 1]
      BY <3>2, <1>t, <2>1
    <3> QED
      BY <1>8, <3>1, <3>2 DEF FaucetServes
  <2>3. transferCalls' = (transferCalls \ {call}) \cup {done}
        /\ UNCHANGED <<recipient, transfer>>
    BY <1>8, <2>0 DEF FaucetServes
  <2>4. seen \in Nat /\ seen = funds'[call.for]
    BY <2>1, <2>2
  <2>s. done = [call EXCEPT !.seen = seen]
    BY <2>0
  <2> HIDE DEF seen
  <2>5. /\ done = [f \in PaymentFields |-> done[f]] /\ done.seen = seen /\ done.for = call.for
        /\ done.kind = call.kind /\ done.number = call.number
    BY <2>1, <2>s DEF CallInv, PaymentFields
  <2>6. ASSUME NEW c \in transferCalls PROVE CallInv(c)' /\ ConfirmInv(c)'
    <3>1. CallInv(c) /\ ConfirmInv(c)
      BY DEF BarInv
    <3>2. c.seen # None => c.for \in Admin /\ c.seen \in Nat /\ c.seen <= funds'[c.for]
      <4>1. c.seen # None => c.for \in Admin /\ c.seen \in Nat /\ c.seen <= funds[c.for]
        BY <3>1 DEF CallInv
      <4>2. c.for \in Admin => funds[c.for] <= funds'[c.for] /\ funds[c.for] \in Nat
                               /\ funds'[c.for] \in Nat
        BY <2>2, <1>t
      <4> QED
        BY <4>1, <4>2
    <3> QED
      BY <3>1, <3>2, <2>3 DEF CallInv, ConfirmInv
  <2>7. transfer.receipt # None =>
            /\ transfer.receipt.for \in Admin
            /\ transfer.receipt.after \in Nat
            /\ transfer.receipt.after <= funds'[transfer.receipt.for]
    <3>1. transfer.receipt # None =>
              /\ transfer.receipt.for \in Admin
              /\ transfer.receipt.after \in Nat
              /\ transfer.receipt.after <= funds[transfer.receipt.for]
      BY DEF BarInv
    <3>2. \A a \in Admin : funds[a] \in Nat /\ funds'[a] \in Nat /\ funds[a] <= funds'[a]
      BY <2>2, <1>t
    <3> QED
      BY <3>1, <3>2
  <2>8. CallInv(done)'
    BY <2>1, <2>3, <2>4, <2>5 DEF CallInv
  <2>9. ConfirmInv(done)'
    BY <2>3, <2>4, <2>5, <2>7 DEF ConfirmInv
  <2>10. ConfirmedAfterPayment'
    BY <2>3 DEF BarInv, ConfirmedAfterPayment
  <2> QED
    BY <1>t, <2>2, <2>3, <2>6, <2>7, <2>8, <2>9, <2>10 DEF BarInv
<1>9. ASSUME NEW call \in transferCalls, TransferPaid(call) PROVE BarInv'
  <2> DEFINE n == transfer.confirmation + 1
             shown == IF transfer.shown = None THEN ShownAs(call.for, 1, "credit")
                      ELSE ShownAs(transfer.shown.of, transfer.shown.amount + 1, "credit")
             receipt == [for |-> call.for, after |-> call.seen]
  <2>0. PICK next : next = [Read("confirm", n, recipient) EXCEPT
                               !.attempt = 1, !.expected = call.expected]
    OBVIOUS
  <2>1. /\ call.seen # None /\ UNCHANGED <<recipient, funds>>
        /\ transfer' = [transfer EXCEPT !.submitting = FALSE, !.message = "success",
                           !.amount = "empty", !.shown = shown, !.confirmation = n,
                           !.receipt = receipt]
    BY <1>9 DEF TransferPaid
  <2>2. shown.by = "credit" /\ n \in Nat /\ n > transfer.confirmation
    BY <1>t DEF ShownAs
  <2> HIDE DEF shown
  <2>3. /\ transfer' = [f \in TransferFields |-> transfer'[f]]
        /\ transfer'.confirmation = n
        /\ transfer'.receipt = receipt /\ transfer'.shown = shown
    BY <2>1, <1>t DEF TransferFields
  <2>4. transferCalls' = (transferCalls \ {call}) \cup {next}
    BY <1>9, <2>0, <2>3 DEF TransferPaid
  <2>5. CallInv(call)
    BY DEF BarInv
  <2>6. /\ receipt.for \in Admin /\ receipt.after \in Nat
        /\ receipt.after <= funds[receipt.for]
    BY <2>1, <2>5 DEF CallInv
  <2>7. /\ next = [f \in PaymentFields |-> next[f]] /\ next.seen = None
        /\ next.for = recipient /\ next.number = n
    <3> HIDE DEF n
    <3> QED
      BY <2>0 DEF Read, PaymentFields
  <2>n. PICK k : k = n
    OBVIOUS
  <2> HIDE DEF n, receipt
  <2>8. CallInv(next)' /\ ConfirmInv(next)'
    <3>1. ConfirmInv(next)'
      BY <2>7 DEF ConfirmInv
    <3>2. next.for \in Admin \cup {None} /\ next.number \in Nat
          /\ next.number <= transfer'.confirmation
      BY <1>t, <2>2, <2>3, <2>7
    <3> QED
      BY <3>1, <3>2, <2>7 DEF CallInv
  <2>9. ASSUME NEW c \in transferCalls PROVE CallInv(c)' /\ ConfirmInv(c)'
    <3>1. CallInv(c)
      BY DEF BarInv
    <3>2. c.kind = "confirm" => c.number \in Nat /\ c.number < n
      BY <3>1, <2>2, <1>t DEF CallInv
    <3> QED
      BY <3>1, <3>2, <2>1, <2>2, <2>3 DEF CallInv, ConfirmInv
  <2>10. ConfirmedAfterPayment'
    BY <2>2, <2>3 DEF ConfirmedAfterPayment
  <2> QED
    BY <1>t, <2>1, <2>2, <2>3, <2>4, <2>6, <2>8, <2>9, <2>10 DEF BarInv
<1>10. ASSUME NEW call \in transferCalls, TransferFails(call) PROVE BarInv'
  <2>1. transfer' = [transfer EXCEPT !.submitting = FALSE, !.message = "error"]
        /\ UNCHANGED <<recipient, funds>> /\ transferCalls' \subseteq transferCalls
    BY <1>10 DEF TransferFails
  <2>2. /\ transfer' = [f \in TransferFields |-> transfer'[f]]
        /\ transfer'.confirmation = transfer.confirmation
        /\ transfer'.receipt = transfer.receipt /\ transfer'.shown = transfer.shown
    BY <2>1, <1>t DEF TransferFields
  <2> QED
    BY <2>1, <2>2, <1>t, BarQuiet
<1>11. ASSUME NEW call \in transferCalls, ConfirmDelayEnds(call) PROVE BarInv'
  <2> DEFINE next == [call EXCEPT !.waiting = FALSE]
  <2>1. UNCHANGED <<recipient, transfer, funds>>
        /\ transferCalls' = (transferCalls \ {call}) \cup {next}
    BY <1>11 DEF ConfirmDelayEnds
  <2>2. CallInv(call) /\ ConfirmInv(call)
    BY DEF BarInv
  <2>3. /\ next = [f \in PaymentFields |-> next[f]] /\ next.seen = call.seen
        /\ next.for = call.for /\ next.number = call.number /\ next.kind = call.kind
    BY <2>2 DEF CallInv, PaymentFields
  <2> HIDE DEF next
  <2>4. CallInv(next)' /\ ConfirmInv(next)'
    BY <2>1, <2>2, <2>3 DEF CallInv, ConfirmInv
  <2>5. \A c \in transferCalls : CallInv(c)' /\ ConfirmInv(c)'
    BY <2>1 DEF BarInv, CallInv, ConfirmInv
  <2> QED
    BY <2>1, <2>4, <2>5 DEF BarInv, ConfirmedAfterPayment
<1>12. ASSUME NEW call \in transferCalls, NEW ok \in BOOLEAN, RefreshAnswered(call, ok)
       PROVE  BarInv'
  <2>1. UNCHANGED <<recipient, funds>> /\ transferCalls' \subseteq transferCalls
    BY <1>12 DEF RefreshAnswered
  <2>2. CASE call.number # transfer.request
    BY <1>12, <2>1, <2>2, <1>k, <1>t DEF RefreshAnswered
  <2>3. CASE call.number = transfer.request
    <3> DEFINE shown == IF ok THEN ShownAs(call.for, call.seen, "refresh") ELSE None
    <3>1. transfer' = [transfer EXCEPT !.loading = FALSE, !.failed = ~ok, !.shown = shown]
      BY <1>12, <2>3 DEF RefreshAnswered
    <3>2. shown = None \/ shown.by # "confirm"
      BY DEF ShownAs
    <3> HIDE DEF shown
    <3>3. /\ transfer' = [f \in TransferFields |-> transfer'[f]]
          /\ transfer'.confirmation = transfer.confirmation
          /\ transfer'.receipt = transfer.receipt /\ transfer'.shown = shown
      BY <3>1, <1>t DEF TransferFields
    <3> QED
      BY <2>1, <3>2, <3>3, <1>t, BarQuiet
  <2> QED
    BY <2>2, <2>3
<1>13. ASSUME NEW call \in transferCalls, NEW ok \in BOOLEAN, ConfirmAnswered(call, ok)
       PROVE  BarInv'
  <2> DEFINE after == IF ok THEN [transfer EXCEPT !.failed = FALSE,
                                      !.shown = ShownAs(call.for, call.seen, "confirm")]
                      ELSE transfer
             n == call.attempt + 1
             next == [call EXCEPT !.seen = None, !.attempt = n, !.waiting = TRUE]
  <2>1. /\ UNCHANGED <<recipient, funds>> /\ call.kind = "confirm"
        /\ ok => call.seen # None
    BY <1>13 DEF ConfirmAnswered
  <2>2. CallInv(call) /\ ConfirmInv(call)
    BY DEF BarInv
  <2>3. CASE ~IsLatestConfirmation(call)
    BY <1>13, <2>1, <2>3, <1>t, <1>k DEF ConfirmAnswered
  <2>4. CASE IsLatestConfirmation(call)
    <3>1. /\ after = [f \in TransferFields |-> after[f]]
          /\ after.confirmation = transfer.confirmation
          /\ after.receipt = transfer.receipt
          /\ IF ok THEN after.shown = ShownAs(call.for, call.seen, "confirm")
             ELSE after.shown = transfer.shown
      BY <1>t DEF TransferFields
    \* What is shown then is as new as the receipt.
    <3>2. /\ after.shown # None /\ after.receipt # None /\ after.shown.by = "confirm"
          /\ after.shown.of = after.receipt.for
          => after.shown.amount >= after.receipt.after
      <4>1. CASE ok
        BY <4>1, <2>1, <2>2, <2>4, <3>1 DEF ConfirmInv, IsLatestConfirmation, ShownAs
      <4>2. CASE ~ok
        BY <4>2, <3>1 DEF BarInv, ConfirmedAfterPayment
      <4> QED
        BY <4>1, <4>2
    <3> HIDE DEF after
    <3>3. /\ next = [f \in PaymentFields |-> next[f]] /\ next.seen = None
          /\ next.for = call.for /\ next.number = call.number /\ next.kind = call.kind
      <4> HIDE DEF n
      <4> QED
        BY <2>2 DEF CallInv, PaymentFields
    <3> DEFINE last == Loading(after)
               m == after.request + 1
    <3>4. /\ last = [f \in TransferFields |-> last[f]]
          /\ last.confirmation = after.confirmation
          /\ last.receipt = after.receipt /\ last.shown = after.shown
      <4>1. last = [after EXCEPT !.request = m, !.loading = TRUE, !.failed = FALSE]
        BY DEF Loading
      <4> HIDE DEF last, m
      <4> QED
        BY <4>1, <3>1 DEF TransferFields
    <3>5. \/ transfer' = after /\ transferCalls' \subseteq transferCalls \cup {next}
          \/ transfer' = last
             /\ transferCalls' \subseteq transferCalls \cup {Refresh(last, call.for)}
      BY <1>13, <2>4 DEF ConfirmAnswered, after
    <3> HIDE DEF next, last
    <3>6. /\ transfer' = [f \in TransferFields |-> transfer'[f]]
          /\ transfer'.confirmation = transfer.confirmation
          /\ transfer'.receipt = transfer.receipt
          /\ transfer'.shown = after.shown
      BY <3>1, <3>4, <3>5
    <3>7. ConfirmedAfterPayment'
      BY <3>1, <3>2, <3>6 DEF ConfirmedAfterPayment
    <3>8. ASSUME NEW c \in transferCalls'
          PROVE  c \in transferCalls \/ (CallInv(c) /\ c.seen = None)
      <4>1. CallInv(next) /\ next.seen = None
        BY <2>2, <3>3 DEF CallInv
      <4> DEFINE refresh == Refresh(last, call.for)
      <4>2. CallInv(refresh) /\ refresh.seen = None
        BY <2>2, AskedCalls DEF Refresh, CallInv
      <4>3. transferCalls' \subseteq transferCalls \cup {next, refresh}
        BY <3>5
      <4> HIDE DEF refresh
      <4>4. CASE c = next
        BY <4>1, <4>4
      <4>5. CASE c = refresh
        BY <4>2, <4>5
      <4> QED
        BY <4>3, <4>4, <4>5
    <3>9. \A c \in transferCalls' : CallInv(c)' /\ ConfirmInv(c)'
      BY <2>1, <3>6, <3>8 DEF BarInv, CallInv, ConfirmInv
    <3> QED
      BY <1>t, <2>1, <3>6, <3>7, <3>9 DEF BarInv
  <2> QED
    BY <2>3, <2>4
<1>14. CASE UNCHANGED barVars
  BY <1>14, <1>k, <1>t DEF barVars
<1> QED
  BY <1>1, <1>2, <1>3, <1>4, <1>5, <1>6, <1>7, <1>8, <1>9, <1>10, <1>11, <1>12, <1>13, <1>14
  DEF BarNext

\* The session and the bar beside it: the account shown is the stored token's, or
\* that one's profile is being read, or the one shown was read for a token replaced
\* by then; the cash shown is that of the profile shown; and a balance put on screen
\* by a confirmation has the payment that is confirmed, in whatever order attempts,
\* timers, reads and payments of several accounts come.
THEOREM AccountsKeptApart == AdminSpec /\ BarSpec => []AccountsAreNotMixed
<1>1. TokenInv => ProfileIsOfTheToken
  BY DEF TokenInv
<1>2. CashInv => CashIsTheAdmins
  BY DEF CashInv
<1>3. BarInv => ConfirmedAfterPayment
  BY DEF BarInv
<1>4. AdminSpec => []ProfileIsOfTheToken
  BY <1>1, TokenStarts, TokenGoesOn, PTL DEF AdminSpec
<1>5. AdminSpec => []CashIsTheAdmins
  BY <1>2, CashStarts, CashGoesOn, PTL DEF AdminSpec
<1>6. BarSpec => []ConfirmedAfterPayment
  BY <1>3, BarStarts, BarGoesOn, PTL DEF BarSpec
<1>7. ProfileIsOfTheToken /\ CashIsTheAdmins /\ ConfirmedAfterPayment
        => AccountsAreNotMixed
  BY DEF AccountsAreNotMixed
<1> QED
  BY <1>4, <1>5, <1>6, <1>7, PTL

-----------------------------------------------------------------------------
(***************************************************************************)
(* The balances of the public site.  Cash, portfolio and the dialog's      *)
(* balance follow one discipline, which Fresh states once: a request that  *)
(* carries the present number is the latest, which was sent for the        *)
(* account there is, and an answer shown is that request's.                *)
(***************************************************************************)
Holder == User \cup WalletAddress \cup {None}

ShownBalance == {None} \cup [of: Holder, amount: Nat]

Balance ==
    [shown: ShownBalance, loading: BOOLEAN, failed: BOOLEAN, request: Nat, asked: Holder]

Dialog ==
    [open: BOOLEAN, amount: {"empty", "invalid", "valid"}, submitting: BOOLEAN,
     receipt: {None} \cup [for: WalletAddress, after: Nat],
     message: {None, "error", "success"}, balance: Balance]

\* A request to the faucet has been served when it has an amount.
BCall ==
    [kind: {"portfolio", "cash", "dialog"}, request: Nat, for: Holder, seen: Nat]
    \cup [kind: {"faucet"}, request: Nat, for: WalletAddress, seen: {None} \cup Nat]

BTypeOK ==
    /\ user \in User \cup {None}
    /\ bearer \in User \cup {None}
    /\ stored \in User \cup {None}
    /\ cash \in Balance
    /\ portfolio \in Balance
    /\ deposit \in Dialog
    /\ balanceCalls \subseteq BCall
    /\ onChain \in [WalletAddress -> Nat]
    /\ balanceSteps \in Nat

\* The calls of that kind are older than balance b's latest request, or carry it.
Numbered(b, calls, kind) ==
    \A call \in calls : call.kind = kind =>
        /\ call.request <= b.request
        /\ call.request = b.request => call.for = b.asked

\* Balance b, of the account who when there is one, by the calls of that kind.
Fresh(b, calls, kind, who, visible) ==
    /\ Numbered(b, calls, kind)
    /\ who # None => b.asked = who
    /\ visible /\ ~b.loading /\ b.shown # None => b.shown.of = b.asked

\* The account whose balance the dialog shows.
Recipient == IF deposit.open THEN AddressOf(user) ELSE None

\* What the dialog d reads once it has a receipt, and what it shows then, is from
\* after the payment.
AfterPayment(d, calls) ==
    d.receipt # None =>
        /\ \A call \in calls :
               /\ call.kind = "dialog" /\ call.request = d.balance.request
               /\ call.for = d.receipt.for
               => call.seen >= d.receipt.after
        /\ /\ d.open /\ ~d.balance.loading
           /\ d.balance.shown # None /\ d.balance.shown.of = d.receipt.for
           => d.balance.shown.amount >= d.receipt.after

\* What a receipt reports is on chain.
ReceiptBacked(d, ledger) == d.receipt # None => d.receipt.after <= ledger[d.receipt.for]

\* What the faucet has paid is on chain.
Backed(d, calls, ledger) ==
    /\ \A call \in calls :
           call.kind = "faucet" /\ call.seen # None => call.seen <= ledger[call.for]
    /\ ReceiptBacked(d, ledger)

\* The user and the token are of one account, or the user is the stored session's.
OneAccount == user = bearer \/ (user = stored /\ ~fetching)

BInv ==
    /\ BTypeOK
    /\ Fresh(cash, balanceCalls, "cash", AddressOf(user), TRUE)
    /\ Fresh(portfolio, balanceCalls, "portfolio", bearer, TRUE)
    /\ Fresh(deposit.balance, balanceCalls, "dialog", Recipient, deposit.open)
    /\ AfterPayment(deposit, balanceCalls)
    /\ Backed(deposit, balanceCalls, onChain)
    /\ OneAccount

-----------------------------------------------------------------------------

LEMMA AddressType ==
    ASSUME NEW u \in User \cup {None}
    PROVE  AddressOf(u) \in WalletAddress \cup {None}
BY DEF AddressOf, WalletAddress

LEMMA RefreshingType ==
    ASSUME NEW b \in Balance, NEW for \in Holder
    PROVE  /\ Refreshing(b, for) \in Balance
           /\ Refreshing(b, for).request = b.request + 1
           /\ Refreshing(b, for).loading = TRUE /\ Refreshing(b, for).asked = for
<1> DEFINE n == b.request + 1
<1>1. n \in Nat
  BY DEF Balance
<1>2. Refreshing(b, for)
         = [b EXCEPT !.request = n, !.loading = TRUE, !.failed = FALSE, !.asked = for]
  BY DEF Refreshing
<1> HIDE DEF n
<1>3. [b EXCEPT !.request = n, !.loading = TRUE, !.failed = FALSE, !.asked = for] \in Balance
  BY <1>1 DEF Balance
<1>4. /\ Refreshing(b, for).request = n /\ Refreshing(b, for).loading = TRUE
      /\ Refreshing(b, for).asked = for
  BY <1>2 DEF Balance
<1> QED
  BY <1>2, <1>3, <1>4 DEF n

LEMMA ClearedType ==
    ASSUME NEW b \in Balance
    PROVE  /\ Cleared(b) \in Balance /\ Cleared(b).request = b.request
           /\ Cleared(b).asked = b.asked /\ Cleared(b).shown = None
BY DEF Cleared, Balance, ShownBalance

LEMMA CallType ==
    ASSUME NEW b \in Balance, NEW kind \in {"cash", "dialog", "portfolio"},
           onChain \in [WalletAddress -> Nat]
    PROVE  BalanceCall(kind, b) \in BCall
<1>1. OnChain(b.asked) \in Nat
  BY DEF OnChain
<1> QED
  BY <1>1 DEF BalanceCall, BCall, Balance

LEMMA BalanceCallFields ==
    ASSUME NEW b, NEW kind
    PROVE  /\ BalanceCall(kind, b).kind = kind /\ BalanceCall(kind, b).request = b.request
           /\ BalanceCall(kind, b).for = b.asked /\ BalanceCall(kind, b).seen = OnChain(b.asked)
BY DEF BalanceCall

LEMMA FundingDialogType ==
    ASSUME NEW d \in Dialog, NEW u \in User \cup {None}
    PROVE  /\ DialogBalance(d, u) \in Dialog
           /\ DialogBalance(d, u).open = d.open
           /\ DialogBalance(d, u).receipt = d.receipt
           /\ ~d.open => DialogBalance(d, u).balance = [d.balance EXCEPT !.loading = FALSE]
           /\ d.open /\ AddressOf(u) = None => DialogBalance(d, u).balance = Cleared(d.balance)
           /\ d.open /\ AddressOf(u) # None =>
                  DialogBalance(d, u).balance = Refreshing(d.balance, AddressOf(u))
<1> DEFINE r == Refreshing(d.balance, AddressOf(u))
<1>1. /\ d.balance \in Balance /\ [d.balance EXCEPT !.loading = FALSE] \in Balance
      /\ Cleared(d.balance) \in Balance /\ r \in Balance
  <2>1. d.balance \in Balance
    BY DEF Dialog
  <2>2. AddressOf(u) \in Holder
    BY AddressType DEF Holder
  <2>3. r \in Balance
    BY <2>1, <2>2, RefreshingType
  <2> QED
    BY <2>1, <2>3, ClearedType DEF Balance
<1>2. CASE ~d.open
  BY <1>1, <1>2 DEF DialogBalance, Dialog
<1>3. CASE d.open /\ AddressOf(u) = None
  BY <1>1, <1>3 DEF DialogBalance, Dialog
<1>4. CASE d.open /\ AddressOf(u) # None
  <2>1. DialogBalance(d, u) = [d EXCEPT !.balance = r]
    BY <1>4 DEF DialogBalance
  <2> HIDE DEF r
  <2>2. /\ DialogBalance(d, u) \in Dialog /\ DialogBalance(d, u).open = d.open
        /\ DialogBalance(d, u).receipt = d.receipt /\ DialogBalance(d, u).balance = r
    BY <1>1, <2>1 DEF Dialog
  <2> QED
    BY <1>4, <2>2 DEF r
<1> QED
  BY <1>2, <1>3, <1>4

-----------------------------------------------------------------------------
(* The frame *)

\* A refresh: the only call with the new number is the one it sends.
LEMMA RefreshFresh ==
    ASSUME NEW b \in Balance, NEW kind, NEW calls, NEW who \in Holder, NEW visible,
           balanceCalls \subseteq BCall,
           \A call \in balanceCalls : call.kind = kind => call.request <= b.request,
           \A call \in calls : call.kind = kind =>
               call \in balanceCalls \/ call = BalanceCall(kind, Refreshing(b, who))
    PROVE  Fresh(Refreshing(b, who), calls, kind, who, visible)
<1> DEFINE r == Refreshing(b, who)
           new == BalanceCall(kind, r)
<1>1. b.request \in Nat /\ \A call \in balanceCalls : call.request \in Nat
  BY DEF Balance, BCall
<1>2. r.request = b.request + 1 /\ r.loading = TRUE /\ r.asked = who
  BY RefreshingType
<1>3. new.request = r.request /\ new.for = r.asked
  BY BalanceCallFields
<1> HIDE DEF r, new
<1>4. Fresh(r, calls, kind, who, visible)
  <2>1. \A call \in calls : call.kind = kind => call \in balanceCalls \/ call = new
    BY DEF r, new
  <2> QED
    BY <1>1, <1>2, <1>3, <2>1 DEF Fresh, Numbered
<1> QED
  BY <1>4 DEF r

\* The effect of the bar on a balance, with or without an account.
LEMMA EffectFresh ==
    ASSUME NEW b \in Balance, NEW e, NEW kind, NEW calls, NEW who \in Holder,
           balanceCalls \subseteq BCall, Numbered(b, balanceCalls, kind),
           who = None => e = Cleared(b), who # None => e = Refreshing(b, who),
           \A call \in calls : call.kind = kind =>
               call \in balanceCalls \/ (who # None /\ call = BalanceCall(kind, e))
    PROVE  e \in Balance /\ Fresh(e, calls, kind, who, TRUE)
<1>1. CASE who = None
  <2>1. /\ e \in Balance /\ e.request = b.request /\ e.asked = b.asked /\ e.shown = None
    BY <1>1, ClearedType
  <2> QED
    BY <1>1, <2>1 DEF Fresh, Numbered
<1>2. CASE who # None
  <2>1. e = Refreshing(b, who)
    BY <1>2
  <2>2. \A call \in balanceCalls : call.kind = kind => call.request <= b.request
    BY DEF Fresh, Numbered
  <2>3. \A call \in calls : call.kind = kind =>
            call \in balanceCalls \/ call = BalanceCall(kind, Refreshing(b, who))
    BY <2>1
  <2>4. Fresh(Refreshing(b, who), calls, kind, who, TRUE)
    BY <2>2, <2>3, RefreshFresh
  <2> QED
    BY <2>1, <2>4, RefreshingType
<1> QED
  BY <1>1, <1>2

LEMMA SettledType ==
    ASSUME NEW b \in Balance, NEW call \in BCall, NEW ok, NEW amount \in Nat
    PROVE  /\ BalanceSettled(b, call, ok, amount) \in Balance
           /\ BalanceSettled(b, call, ok, amount).request = b.request
           /\ BalanceSettled(b, call, ok, amount).asked = b.asked
           /\ call.request = b.request =>
                  BalanceSettled(b, call, ok, amount).shown =
                      IF ok THEN [of |-> call.for, amount |-> amount] ELSE None
<1> DEFINE s == IF ok THEN [of |-> call.for, amount |-> amount] ELSE None
           after == BalanceSettled(b, call, ok, amount)
<1>1. s \in ShownBalance
  BY DEF BCall, ShownBalance, Holder
<1>2. CASE call.request # b.request
  BY <1>2 DEF BalanceSettled
<1>3. CASE call.request = b.request
  <2> DEFINE f == ~ok
  <2>1. after = [b EXCEPT !.shown = s, !.failed = f, !.loading = FALSE]
    BY <1>3 DEF BalanceSettled
  <2>2. f \in BOOLEAN
    OBVIOUS
  <2> HIDE DEF s, f, after
  <2>3. /\ [b EXCEPT !.shown = s, !.failed = f, !.loading = FALSE] \in Balance
        /\ after.request = b.request /\ after.asked = b.asked /\ after.shown = s
    BY <1>1, <2>1, <2>2 DEF Balance
  <2> QED
    BY <2>1, <2>3 DEF s, after
<1> QED
  BY <1>2, <1>3

\* An answer: it is shown only when its call carries the present number.
LEMMA AnswerFresh ==
    ASSUME NEW b \in Balance, NEW kind, NEW who, NEW visible, NEW call \in balanceCalls,
           balanceCalls \subseteq BCall, call.kind = kind, NEW ok, NEW amount \in Nat,
           Fresh(b, balanceCalls, kind, who, visible)
    PROVE  Fresh(BalanceSettled(b, call, ok, amount), balanceCalls \ {call}, kind, who, visible)
<1>1. CASE call.request # b.request
  BY <1>1 DEF BalanceSettled, Fresh, Numbered
<1>2. CASE call.request = b.request
  <2> DEFINE after == BalanceSettled(b, call, ok, amount)
  <2>1. /\ after.request = b.request /\ after.asked = b.asked
        /\ after.shown = IF ok THEN [of |-> call.for, amount |-> amount] ELSE None
    BY <1>2, SettledType
  <2>2. call.for = b.asked
    BY <1>2 DEF Fresh, Numbered
  <2>3. after.shown # None => after.shown.of = b.asked
    BY <2>1, <2>2
  <2> HIDE DEF after
  <2>4. Fresh(after, balanceCalls \ {call}, kind, who, visible)
    BY <2>1, <2>3 DEF Fresh, Numbered
  <2> QED
    BY <2>4 DEF after
<1> QED
  BY <1>1, <1>2

\* Calls of other kinds come and go.
LEMMA OtherFresh ==
    ASSUME NEW b, NEW kind, NEW who, NEW visible, NEW calls,
           Fresh(b, balanceCalls, kind, who, visible),
           \A call \in calls : call.kind = kind => call \in balanceCalls
    PROVE  Fresh(b, calls, kind, who, visible)
BY DEF Fresh, Numbered

\* The effect of the dialog, over the calls there are and the one it sends.
LEMMA DialogEffect ==
    ASSUME NEW d \in Dialog, NEW u \in User \cup {None}, NEW calls, NEW old, NEW visible,
           balanceCalls \subseteq BCall, onChain \in [WalletAddress -> Nat],
           Fresh(d.balance, balanceCalls, "dialog", old, visible),
           AfterPayment(d, balanceCalls), ReceiptBacked(d, onChain),
           \A call \in calls : call.kind = "dialog" =>
               call \in balanceCalls \cup DialogCalls(u, DialogBalance(d, u))
    PROVE  /\ Fresh(DialogBalance(d, u).balance, calls, "dialog",
                    IF d.open THEN AddressOf(u) ELSE None, d.open)
           /\ AfterPayment(DialogBalance(d, u), calls)
<1> DEFINE D == DialogBalance(d, u)
           A == AddressOf(u)
           new == BalanceCall("dialog", D.balance)
<1>1. /\ d.balance \in Balance /\ D \in Dialog /\ D.open = d.open /\ D.receipt = d.receipt
      /\ A \in WalletAddress \cup {None} /\ A \in Holder
  BY FundingDialogType, AddressType DEF Dialog, Holder
<1>2. CASE ~d.open
  <2>1. D.balance = [d.balance EXCEPT !.loading = FALSE] /\ DialogCalls(u, D) = {}
    BY <1>1, <1>2, FundingDialogType DEF DialogCalls
  <2>2. D.balance.request = d.balance.request /\ D.balance.asked = d.balance.asked
    BY <1>1, <2>1 DEF Balance
  <2> HIDE DEF D
  <2> QED
    BY <1>1, <1>2, <2>1, <2>2 DEF D, Fresh, Numbered, AfterPayment
<1>3. CASE d.open /\ A = None
  <2>1. D.balance = Cleared(d.balance) /\ DialogCalls(u, D) = {}
    BY <1>3, FundingDialogType DEF DialogCalls
  <2>2. D.balance.request = d.balance.request /\ D.balance.shown = None
    BY <1>1, <2>1, ClearedType
  <2>3. Fresh(D.balance, calls, "dialog", A, TRUE)
    <3>1. Numbered(d.balance, balanceCalls, "dialog")
      BY DEF Fresh
    <3> QED
      BY <1>1, <1>3, <2>1, <3>1, EffectFresh
  <2> HIDE DEF D, A
  <2>4. AfterPayment(D, calls)
    BY <1>1, <2>1, <2>2 DEF D, AfterPayment
  <2> QED
    BY <1>3, <2>3, <2>4 DEF D, A
<1>4. CASE d.open /\ A # None
  <2>1. /\ D.balance = Refreshing(d.balance, A) /\ DialogCalls(u, D) = {new}
    BY <1>1, <1>4, FundingDialogType DEF DialogCalls
  <2>2. /\ D.balance.request = d.balance.request + 1 /\ D.balance.loading = TRUE
        /\ D.balance.asked = A
    <3> DEFINE r == Refreshing(d.balance, A)
    <3>1. r.request = d.balance.request + 1 /\ r.loading = TRUE /\ r.asked = A
      <4> HIDE DEF A
      <4> QED
        BY <1>1, RefreshingType
    <3>2. D.balance = r
      BY <2>1
    <3> HIDE DEF A, D, r
    <3> QED
      BY <3>1, <3>2
  <2>3. /\ new.for = A /\ new.request = D.balance.request /\ new.seen = OnChain(A)
    BY <2>2, BalanceCallFields
  <2> HIDE DEF D, A, new
  <2>4. \A call \in calls : call.kind = "dialog" => call \in balanceCalls \/ call = new
    BY <2>1 DEF D
  <2>5. Fresh(D.balance, calls, "dialog", A, TRUE)
    <3>1. \A call \in calls : call.kind = "dialog" =>
              call \in balanceCalls \/ (A # None /\ call = BalanceCall("dialog", D.balance))
      BY <1>4, <2>4 DEF new
    <3>2. Numbered(d.balance, balanceCalls, "dialog")
      BY DEF Fresh
    <3> QED
      BY <1>1, <1>4, <2>1, <3>1, <3>2, EffectFresh
  <2>6. AfterPayment(D, calls)
    <3>1. d.balance.request \in Nat /\ \A call \in balanceCalls : call.request \in Nat
      BY <1>1 DEF Balance, BCall
    <3>2. \A call \in calls : call.kind = "dialog" /\ call.request = D.balance.request
              => call = new
      BY <2>2, <2>4, <3>1 DEF Fresh, Numbered
    <3>3. d.receipt # None /\ new.for = d.receipt.for => new.seen >= d.receipt.after
      <4>1. A \in WalletAddress /\ OnChain(A) = onChain[A] /\ onChain[A] \in Nat
        BY <1>1, <1>4 DEF OnChain
      <4>2. d.receipt # None => d.receipt.after \in Nat
        BY DEF Dialog
      <4> QED
        BY <2>3, <4>1, <4>2 DEF ReceiptBacked
    <3> QED
      BY <1>1, <2>2, <3>2, <3>3 DEF AfterPayment
  <2> QED
    BY <1>4, <2>5, <2>6 DEF D, A
<1> QED
  BY <1>2, <1>3, <1>4

-----------------------------------------------------------------------------
(* The actions *)

\* Another account, or the same one read again: the user and the token change,
\* or the user alone, with the calls of the effects.
LEMMA AccountStep ==
    ASSUME BInv, NEW u \in User \cup {None}, NEW t \in User \cup {None}, NEW d \in Dialog,
           NEW portfolioCalls,
           d.balance = deposit.balance, d.receipt = deposit.receipt, d.open => deposit.open,
           UserBecomes(u, d),
           \/ TokenBecomes(t) /\ portfolioCalls = PortfolioCalls(t, portfolio')
           \/ UNCHANGED <<bearer, portfolio>> /\ portfolioCalls = {},
           balanceCalls' = balanceCalls \cup portfolioCalls \cup CashCalls(u, cash')
                              \cup DialogCalls(u, deposit'),
           UNCHANGED <<stored, onChain>>, balanceSteps' \in Nat, OneAccount'
    PROVE  BInv'
<1> DEFINE A == AddressOf(u)
           stays == u = None /\ user = None
           c == BalanceCall("cash", cash')
           p == BalanceCall("portfolio", portfolio')
<1>1. /\ user' = u /\ onChain' = onChain /\ stored' = stored
      /\ stays => cash' = cash /\ deposit' = d
      /\ ~stays => /\ cash' = IF A = None THEN Cleared(cash) ELSE Refreshing(cash, A)
                   /\ deposit' = DialogBalance(d, u)
  BY DEF UserBecomes, CashOf
<1>2. /\ cash \in Balance /\ portfolio \in Balance /\ deposit \in Dialog
      /\ balanceCalls \subseteq BCall /\ A \in WalletAddress \cup {None} /\ A \in Holder
      /\ u \in Holder /\ t \in Holder /\ onChain \in [WalletAddress -> Nat]
      /\ bearer \in User \cup {None} /\ stored \in User \cup {None}
  BY AddressType DEF BInv, BTypeOK, Holder
<1>3. stays => A = None
  BY DEF AddressOf
<1>4. /\ c.kind = "cash" /\ p.kind = "portfolio"
      /\ \A call \in DialogCalls(u, deposit') :
             call.kind = "dialog" /\ call = BalanceCall("dialog", deposit'.balance)
  BY BalanceCallFields DEF DialogCalls
<1>5. portfolioCalls = {} \/ (portfolioCalls = {p} /\ TokenBecomes(t) /\ t # None)
  BY DEF PortfolioCalls
<1>6. CashCalls(u, cash') = IF A = None THEN {} ELSE {c}
  BY DEF CashCalls
<1> HIDE DEF A, c, p
<1>7. \A call \in balanceCalls' :
          \/ call \in balanceCalls
          \/ A # None /\ call = c
          \/ call \in portfolioCalls /\ call = p
          \/ call \in DialogCalls(u, deposit')
  BY <1>5, <1>6
<1>8. \A call \in balanceCalls' :
          /\ call.kind = "cash" => call \in balanceCalls \/ (A # None /\ call = c)
          /\ call.kind = "portfolio" => call \in balanceCalls \/ call \in portfolioCalls
          /\ call.kind = "dialog" => call \in balanceCalls \cup DialogCalls(u, deposit')
          /\ call.kind = "faucet" => call \in balanceCalls
  BY <1>4, <1>7
<1>9. cash' \in Balance /\ Fresh(cash', balanceCalls', "cash", A, TRUE)
  <2>1. CASE stays
    <3>1. A = None /\ cash' = cash
      BY <1>1, <1>3, <2>1
    <3> QED
      BY <1>2, <1>8, <3>1 DEF BInv, Fresh, Numbered
  <2>2. CASE ~stays
    <3>1. \A call \in balanceCalls' : call.kind = "cash" =>
              call \in balanceCalls \/ (A # None /\ call = BalanceCall("cash", cash'))
      BY <1>8 DEF c
    <3>2. Numbered(cash, balanceCalls, "cash")
      BY DEF BInv, Fresh
    <3>3. cash' = IF A = None THEN Cleared(cash) ELSE Refreshing(cash, A)
      BY <1>1, <2>2 DEF A
    <3>4. /\ A = None => cash' = Cleared(cash)
          /\ A # None => cash' = Refreshing(cash, A)
      BY <3>3
    <3>5. cash \in Balance /\ balanceCalls \subseteq BCall /\ A \in Holder
      BY <1>2
    <3> QED
      BY <3>1, <3>2, <3>4, <3>5, EffectFresh
  <2> QED
    BY <2>1, <2>2
<1>10. /\ bearer' \in User \cup {None} /\ portfolio' \in Balance
       /\ Fresh(portfolio', balanceCalls', "portfolio", bearer', TRUE)
  <2>1. CASE UNCHANGED <<bearer, portfolio>> /\ portfolioCalls = {}
    <3>1. Fresh(portfolio, balanceCalls', "portfolio", bearer, TRUE)
      BY <1>8, <2>1, OtherFresh DEF BInv
    <3> QED
      BY <1>2, <2>1, <3>1
  <2>2. CASE TokenBecomes(t) /\ portfolioCalls = PortfolioCalls(t, portfolio')
    <3>1. bearer' = t
      BY <2>2 DEF TokenBecomes
    <3>2. CASE t = None /\ bearer = None
      <4>1. portfolio' = portfolio /\ portfolioCalls = {}
        BY <2>2, <3>2 DEF TokenBecomes, PortfolioCalls
      <4> QED
        BY <1>2, <1>8, <3>1, <3>2, <4>1 DEF BInv, Fresh, Numbered
    <3>3. CASE ~(t = None /\ bearer = None)
      <4>1. portfolio' = IF t = None THEN Cleared(portfolio) ELSE Refreshing(portfolio, t)
        BY <2>2, <3>3 DEF TokenBecomes, PortfolioOf
      <4>2. \A call \in balanceCalls' : call.kind = "portfolio" =>
                call \in balanceCalls
                \/ (t # None /\ call = BalanceCall("portfolio", portfolio'))
        BY <1>5, <1>8 DEF p
      <4>3. Numbered(portfolio, balanceCalls, "portfolio")
        BY DEF BInv, Fresh, Numbered
      <4>4. portfolio' \in Balance /\ Fresh(portfolio', balanceCalls', "portfolio", t, TRUE)
        <5>1. /\ t = None => portfolio' = Cleared(portfolio)
              /\ t # None => portfolio' = Refreshing(portfolio, t)
          BY <4>1
        <5>2. portfolio \in Balance /\ balanceCalls \subseteq BCall /\ t \in Holder
          BY <1>2
        <5> QED
          BY <4>2, <4>3, <5>1, <5>2, EffectFresh
      <4> QED
        BY <3>1, <4>4
    <3> QED
      BY <3>2, <3>3
  <2> QED
    BY <2>1, <2>2
<1>11. /\ deposit' \in Dialog /\ deposit'.open = d.open /\ deposit'.receipt = deposit.receipt
       /\ Fresh(deposit'.balance, balanceCalls', "dialog", IF d.open THEN A ELSE None, d.open)
       /\ AfterPayment(deposit', balanceCalls')
  <2>1. /\ AfterPayment(d, balanceCalls) /\ ReceiptBacked(d, onChain)
        /\ Fresh(d.balance, balanceCalls, "dialog", Recipient, deposit.open)
    BY DEF BInv, AfterPayment, Backed, ReceiptBacked
  <2>2. CASE stays
    <3>1. A = None /\ deposit' = d /\ DialogCalls(u, deposit') = {}
      BY <1>1, <1>3, <2>2 DEF DialogCalls, A
    <3>2. \A call \in balanceCalls' : call.kind = "dialog" => call \in balanceCalls
      BY <1>8, <3>1
    <3>3. AfterPayment(d, balanceCalls')
      BY <2>1, <3>2 DEF AfterPayment
    <3>4. Fresh(d.balance, balanceCalls', "dialog", None, d.open)
      BY <2>1, <3>2 DEF Fresh, Numbered
    <3> QED
      BY <3>1, <3>3, <3>4
  <2>3. CASE ~stays
    <3>1. deposit' = DialogBalance(d, u)
      BY <1>1, <2>3
    <3>2. \A call \in balanceCalls' : call.kind = "dialog" =>
              call \in balanceCalls \cup DialogCalls(u, DialogBalance(d, u))
      BY <1>8, <3>1
    <3>3. /\ Fresh(DialogBalance(d, u).balance, balanceCalls', "dialog",
                   IF d.open THEN AddressOf(u) ELSE None, d.open)
          /\ AfterPayment(DialogBalance(d, u), balanceCalls')
      BY <1>2, <2>1, <3>2, DialogEffect
    <3> QED
      BY <3>1, <3>3, FundingDialogType DEF A
  <2> QED
    BY <2>2, <2>3
<1>12. balanceCalls' \subseteq BCall
  <2>1. deposit'.balance \in Balance
    BY <1>11 DEF Dialog
  <2>2. c \in BCall /\ p \in BCall /\ BalanceCall("dialog", deposit'.balance) \in BCall
    BY <1>2, <1>9, <1>10, <2>1, CallType DEF c, p
  <2> QED
    BY <1>2, <1>4, <1>7, <2>2
<1>13. Backed(deposit', balanceCalls', onChain')
  BY <1>1, <1>8, <1>11 DEF BInv, Backed, ReceiptBacked
<1>14. BTypeOK'
  BY <1>1, <1>2, <1>9, <1>10, <1>11, <1>12 DEF BTypeOK
<1>15. AddressOf(user') = A /\ Recipient' = IF d.open THEN A ELSE None
  BY <1>1, <1>11 DEF A, AddressOf, Recipient
<1> QED
  BY <1>1, <1>9, <1>10, <1>11, <1>13, <1>14, <1>15 DEF BInv

LEMMA OpenStep == ASSUME BInv, OpenDeposit PROVE BInv'
<1> DEFINE e == [deposit EXCEPT !.open = TRUE, !.amount = "empty", !.submitting = FALSE,
                    !.receipt = None, !.message = None, !.balance.failed = FALSE]
<1>1. /\ user \in User \cup {None} /\ balanceCalls \subseteq BCall /\ deposit \in Dialog
      /\ deposit.balance \in Balance /\ onChain \in [WalletAddress -> Nat]
      /\ UNCHANGED <<user, bearer, stored, fetching, cash, portfolio, onChain>>
      /\ balanceSteps' \in Nat
  BY DEF OpenDeposit, BalanceStep, BInv, BTypeOK, Dialog, signedInVars
<1>2. /\ deposit' = DialogBalance(e, user)
      /\ balanceCalls' = balanceCalls \cup DialogCalls(user, deposit')
  BY DEF OpenDeposit
<1>3. /\ e \in Dialog /\ e.open = TRUE /\ e.receipt = None
      /\ e.balance.request = deposit.balance.request
      /\ e.balance.asked = deposit.balance.asked
  <2> DEFINE b == [deposit.balance EXCEPT !.failed = FALSE]
  <2>1. b \in Balance /\ b.request = deposit.balance.request /\ b.asked = deposit.balance.asked
    BY <1>1 DEF Balance
  <2>2. e = [deposit EXCEPT !.open = TRUE, !.amount = "empty", !.submitting = FALSE,
                !.receipt = None, !.message = None, !.balance = b]
    OBVIOUS
  <2> HIDE DEF b, e
  <2>3. /\ [deposit EXCEPT !.open = TRUE, !.amount = "empty", !.submitting = FALSE,
                !.receipt = None, !.message = None, !.balance = b] \in Dialog
        /\ e.open = TRUE /\ e.receipt = None /\ e.balance = b
    BY <1>1, <2>1, <2>2 DEF Dialog, b
  <2> QED
    BY <2>1, <2>2, <2>3 DEF b
<1> HIDE DEF e
<1>4. /\ deposit' \in Dialog /\ deposit'.open = TRUE /\ deposit'.receipt = None
      /\ deposit'.balance \in Balance
  <2>1. DialogBalance(e, user) \in Dialog /\ DialogBalance(e, user).open = e.open
        /\ DialogBalance(e, user).receipt = e.receipt
    BY <1>1, <1>3, FundingDialogType
  <2>2. deposit' \in Dialog /\ deposit'.open = TRUE /\ deposit'.receipt = None
    BY <1>2, <1>3, <2>1
  <2> QED
    BY <2>2 DEF Dialog
<1>5. \A call \in DialogCalls(user, deposit') : call.kind = "dialog" /\ call \in BCall
  BY <1>1, <1>4, CallType, BalanceCallFields DEF DialogCalls
<1>6. /\ Fresh(deposit'.balance, balanceCalls', "dialog", AddressOf(user), TRUE)
      /\ AfterPayment(deposit', balanceCalls')
  <2>1. Fresh(e.balance, balanceCalls, "dialog", None, FALSE)
    BY <1>3 DEF BInv, Fresh, Numbered
  <2>2. \A call \in balanceCalls' : call.kind = "dialog" =>
            call \in balanceCalls \cup DialogCalls(user, DialogBalance(e, user))
    BY <1>2
  <2>3. AfterPayment(e, balanceCalls) /\ ReceiptBacked(e, onChain)
    BY <1>3 DEF AfterPayment, ReceiptBacked
  <2>4. /\ Fresh(DialogBalance(e, user).balance, balanceCalls', "dialog",
                 IF e.open THEN AddressOf(user) ELSE None, e.open)
        /\ AfterPayment(DialogBalance(e, user), balanceCalls')
    BY <1>1, <1>3, <2>1, <2>2, <2>3, DialogEffect
  <2> QED
    BY <1>2, <1>3, <2>4
<1>7. /\ Fresh(cash, balanceCalls', "cash", AddressOf(user), TRUE)
      /\ Fresh(portfolio, balanceCalls', "portfolio", bearer, TRUE)
  BY <1>2, <1>5, OtherFresh DEF BInv
<1>8. Backed(deposit', balanceCalls', onChain)
  BY <1>2, <1>4, <1>5 DEF BInv, Backed, ReceiptBacked
<1>9. BTypeOK'
  BY <1>1, <1>2, <1>4, <1>5 DEF BInv, BTypeOK
<1>10. AddressOf(user') = AddressOf(user) /\ Recipient' = AddressOf(user) /\ OneAccount'
  BY <1>1, <1>4 DEF AddressOf, Recipient, OneAccount, BInv
<1> QED
  BY <1>1, <1>4, <1>6, <1>7, <1>8, <1>9, <1>10 DEF BInv

LEMMA CloseDepositStep == ASSUME BInv, CloseDeposit PROVE BInv'
<1> DEFINE e == [deposit EXCEPT !.open = FALSE]
<1>1. /\ user \in User \cup {None} /\ balanceCalls \subseteq BCall /\ deposit \in Dialog
      /\ UNCHANGED <<user, bearer, stored, fetching, cash, portfolio, balanceCalls, onChain>>
      /\ balanceSteps' \in Nat /\ onChain \in [WalletAddress -> Nat]
      /\ deposit' = DialogBalance(e, user)
  BY DEF CloseDeposit, BalanceStep, BInv, BTypeOK, signedInVars
<1>2. /\ e \in Dialog /\ e.open = FALSE /\ e.receipt = deposit.receipt
      /\ e.balance = deposit.balance
  BY <1>1 DEF Dialog
<1> HIDE DEF e
<1>3. deposit' \in Dialog /\ deposit'.open = FALSE /\ deposit'.receipt = deposit.receipt
  BY <1>1, <1>2, FundingDialogType
<1>4. /\ Fresh(deposit'.balance, balanceCalls, "dialog", None, FALSE)
      /\ AfterPayment(deposit', balanceCalls)
  <2>1. Fresh(e.balance, balanceCalls, "dialog", Recipient, deposit.open)
    BY <1>2 DEF BInv
  <2>2. AfterPayment(e, balanceCalls) /\ ReceiptBacked(e, onChain)
    BY <1>2 DEF BInv, AfterPayment, Backed, ReceiptBacked
  <2>3. /\ Fresh(DialogBalance(e, user).balance, balanceCalls, "dialog",
                 IF e.open THEN AddressOf(user) ELSE None, e.open)
        /\ AfterPayment(DialogBalance(e, user), balanceCalls)
    BY <1>1, <1>2, <2>1, <2>2, DialogEffect
  <2> QED
    BY <1>1, <1>2, <2>3
<1>5. Backed(deposit', balanceCalls, onChain)
  BY <1>3 DEF BInv, Backed, ReceiptBacked
<1>6. BTypeOK'
  BY <1>1, <1>3 DEF BInv, BTypeOK
<1>7. AddressOf(user') = AddressOf(user) /\ Recipient' = None /\ OneAccount'
  BY <1>1, <1>3 DEF AddressOf, Recipient, OneAccount, BInv
<1> QED
  BY <1>1, <1>3, <1>4, <1>5, <1>6, <1>7 DEF BInv

\* What is typed, sent or refused in the dialog leaves its balance alone.
LEMMA SameBalance ==
    ASSUME BInv, deposit' \in Dialog, deposit'.open = deposit.open,
           deposit'.balance = deposit.balance,
           deposit'.receipt = None \/ deposit'.receipt = deposit.receipt,
           UNCHANGED <<user, bearer, stored, fetching, cash, portfolio, onChain>>,
           balanceSteps' \in Nat, balanceCalls' \subseteq BCall,
           \A call \in balanceCalls' :
               call \in balanceCalls \/ (call.kind = "faucet" /\ call.seen = None)
    PROVE  BInv'
<1>1. /\ Fresh(cash, balanceCalls', "cash", AddressOf(user), TRUE)
      /\ Fresh(portfolio, balanceCalls', "portfolio", bearer, TRUE)
      /\ Fresh(deposit.balance, balanceCalls', "dialog", Recipient, deposit.open)
  BY OtherFresh DEF BInv
<1>2. AfterPayment(deposit', balanceCalls')
  BY DEF BInv, AfterPayment
<1>3. Backed(deposit', balanceCalls', onChain)
  BY DEF BInv, Backed, ReceiptBacked
<1>4. BTypeOK'
  BY DEF BInv, BTypeOK
<1>5. AddressOf(user') = AddressOf(user) /\ Recipient' = Recipient /\ OneAccount'
  BY DEF AddressOf, Recipient, OneAccount, BInv
<1> QED
  BY <1>1, <1>2, <1>3, <1>4, <1>5 DEF BInv

LEMMA TypeStep ==
    ASSUME BInv, NEW amount \in {"empty", "invalid", "valid"}, TypeAmount(amount)
    PROVE  BInv'
<1>1. /\ deposit \in Dialog /\ deposit' = [deposit EXCEPT !.amount = amount]
      /\ UNCHANGED <<user, bearer, stored, fetching, cash, portfolio, balanceCalls, onChain>>
      /\ balanceSteps' \in Nat /\ balanceCalls \subseteq BCall
  BY DEF TypeAmount, BalanceStep, BInv, BTypeOK, signedInVars
<1>2. /\ deposit' \in Dialog /\ deposit'.open = deposit.open
      /\ deposit'.balance = deposit.balance /\ deposit'.receipt = deposit.receipt
  BY <1>1 DEF Dialog
<1> QED
  BY <1>1, <1>2, SameBalance

LEMMA SubmitDepositStep == ASSUME BInv, SubmitDeposit PROVE BInv'
<1> DEFINE posted == [kind |-> "faucet", request |-> balanceSteps,
                    for |-> AddressOf(user), seen |-> None]
<1>1. /\ deposit \in Dialog /\ balanceCalls \subseteq BCall
      /\ UNCHANGED <<user, bearer, stored, fetching, cash, portfolio, onChain>>
      /\ balanceSteps' \in Nat
  BY DEF SubmitDeposit, BalanceStep, BInv, BTypeOK, signedInVars
<1>2. posted \in BCall /\ posted.kind = "faucet" /\ posted.seen = None
  <2>1. AddressOf(user) \in WalletAddress /\ balanceSteps \in Nat
    BY AddressType DEF SubmitDeposit, CanSubmit, BInv, BTypeOK
  <2> QED
    BY <2>1 DEF BCall
<1> HIDE DEF posted
<1>3. CASE deposit.amount = "invalid"
  <2>1. /\ deposit' = [deposit EXCEPT !.receipt = None, !.message = "error"]
        /\ balanceCalls' = balanceCalls
    BY <1>3 DEF SubmitDeposit
  <2>2. /\ deposit' \in Dialog /\ deposit'.open = deposit.open
        /\ deposit'.balance = deposit.balance /\ deposit'.receipt = None
    BY <1>1, <2>1 DEF Dialog
  <2> QED
    BY <1>1, <2>1, <2>2, SameBalance
<1>4. CASE deposit.amount # "invalid"
  <2>1. /\ deposit' = [deposit EXCEPT !.receipt = None, !.message = None, !.submitting = TRUE]
        /\ balanceCalls' = balanceCalls \cup {posted}
    BY <1>4 DEF SubmitDeposit, posted
  <2>2. /\ deposit' \in Dialog /\ deposit'.open = deposit.open
        /\ deposit'.balance = deposit.balance /\ deposit'.receipt = None
    BY <1>1, <2>1 DEF Dialog
  <2>3. /\ balanceCalls' \subseteq BCall
        /\ \A call \in balanceCalls' :
               call \in balanceCalls \/ (call.kind = "faucet" /\ call.seen = None)
    BY <1>1, <1>2, <2>1
  <2> QED
    BY <1>1, <2>2, <2>3, SameBalance
<1> QED
  BY <1>3, <1>4

LEMMA MenuStep ==
    ASSUME BInv,
           UNCHANGED <<signedInVars, cash, portfolio, deposit, balanceCalls, onChain, balanceSteps>>
    PROVE  BInv'
BY DEF BInv, BTypeOK, Fresh, Numbered, AfterPayment, Backed, ReceiptBacked, Recipient,
       AddressOf, OneAccount, signedInVars

LEMMA PaysStep ==
    ASSUME BInv, NEW call \in balanceCalls, FaucetPays(call)
    PROVE  BInv'
<1> DEFINE a == call.for
           n == onChain[a] + 1
           served == [call EXCEPT !.seen = n]
<1>1. /\ call \in BCall /\ call.kind = "faucet" /\ deposit \in Dialog
      /\ onChain \in [WalletAddress -> Nat] /\ balanceCalls \subseteq BCall
      /\ onChain' = [onChain EXCEPT ![a] = n]
      /\ balanceCalls' = (balanceCalls \ {call}) \cup {served}
      /\ UNCHANGED <<user, bearer, stored, fetching, cash, portfolio, deposit, balanceSteps>>
  BY DEF FaucetPays, BInv, BTypeOK, signedInVars
<1>2. a \in WalletAddress /\ n \in Nat /\ onChain[a] \in Nat /\ n = onChain[a] + 1
  <2>1. a \in WalletAddress
    BY <1>1 DEF BCall
  <2> QED
    BY <1>1, <2>1
<1> HIDE DEF n
<1>3. onChain' \in [WalletAddress -> Nat] /\ onChain'[a] = n
      /\ \A w \in WalletAddress : onChain[w] \in Nat /\ onChain'[w] >= onChain[w]
  BY <1>1, <1>2
<1>4. /\ balanceCalls' \subseteq BCall
      /\ \A c \in balanceCalls' : c \in balanceCalls
             \/ (c.kind = "faucet" /\ c.for = a /\ c.seen = n)
  <2>1. served \in BCall /\ served.kind = "faucet" /\ served.for = a /\ served.seen = n
    BY <1>1, <1>2 DEF BCall
  <2> HIDE DEF served
  <2> QED
    BY <1>1, <2>1
<1>5. AfterPayment(deposit, balanceCalls')
  BY <1>4 DEF BInv, AfterPayment
<1>6. Backed(deposit, balanceCalls', onChain')
  <2>1. ASSUME NEW c \in balanceCalls', c.kind = "faucet", c.seen # None
        PROVE  c.seen <= onChain'[c.for]
    <3>1. CASE c \in balanceCalls
      <4>1. c.for \in WalletAddress /\ c.seen \in Nat
        BY <1>4, <2>1 DEF BCall
      <4>2. c.seen <= onChain[c.for]
        BY <2>1, <3>1 DEF BInv, Backed
      <4>3. onChain[c.for] \in Nat /\ onChain'[c.for] \in Nat /\ onChain'[c.for] >= onChain[c.for]
        BY <1>3, <4>1
      <4> QED
        BY <4>1, <4>2, <4>3
    <3>2. CASE c.for = a /\ c.seen = n
      BY <1>2, <1>3, <3>2
    <3> QED
      BY <1>4, <3>1, <3>2
  <2>2. ASSUME deposit.receipt # None
        PROVE  deposit.receipt.after <= onChain'[deposit.receipt.for]
    <3>1. deposit.receipt.for \in WalletAddress /\ deposit.receipt.after \in Nat
      BY <1>1, <2>2 DEF Dialog
    <3>2. deposit.receipt.after <= onChain[deposit.receipt.for]
      BY <2>2 DEF BInv, Backed, ReceiptBacked
    <3>3. /\ onChain[deposit.receipt.for] \in Nat /\ onChain'[deposit.receipt.for] \in Nat
          /\ onChain'[deposit.receipt.for] >= onChain[deposit.receipt.for]
      BY <1>3, <3>1
    <3> QED
      BY <3>1, <3>2, <3>3
  <2> QED
    BY <2>1, <2>2 DEF Backed, ReceiptBacked
<1>7. BTypeOK'
  BY <1>1, <1>3, <1>4 DEF BInv, BTypeOK
<1>8. /\ Fresh(cash, balanceCalls', "cash", AddressOf(user), TRUE)
      /\ Fresh(portfolio, balanceCalls', "portfolio", bearer, TRUE)
      /\ Fresh(deposit.balance, balanceCalls', "dialog", Recipient, deposit.open)
  BY <1>4, OtherFresh DEF BInv
<1>9. AddressOf(user') = AddressOf(user) /\ Recipient' = Recipient /\ OneAccount'
  BY <1>1 DEF AddressOf, Recipient, OneAccount, BInv
<1> QED
  BY <1>1, <1>5, <1>6, <1>7, <1>8, <1>9 DEF BInv

LEMMA BalanceAnswerStep ==
    ASSUME BInv, NEW call \in balanceCalls, NEW ok \in BOOLEAN, BalanceAnswered(call, ok)
    PROVE  BInv'
<1>1. /\ call \in BCall /\ balanceCalls \subseteq BCall /\ deposit \in Dialog
      /\ cash \in Balance /\ portfolio \in Balance /\ deposit.balance \in Balance
      /\ call.kind \in {"cash", "dialog", "portfolio"} /\ onChain \in [WalletAddress -> Nat]
      /\ UNCHANGED <<user, bearer, stored, fetching, accountMenu, onChain, balanceSteps>>
      /\ balanceCalls' = balanceCalls \ {call}
  BY DEF BalanceAnswered, BInv, BTypeOK, Dialog, signedInVars
<1>2. PICK amount \in call.seen .. OnChain(call.for) :
          /\ cash' = IF call.kind = "cash" THEN BalanceSettled(cash, call, ok, amount) ELSE cash
          /\ portfolio' = IF call.kind = "portfolio" THEN BalanceSettled(portfolio, call, ok, amount)
                          ELSE portfolio
          /\ deposit' = IF call.kind = "dialog"
                        THEN [deposit EXCEPT !.balance = BalanceSettled(@, call, ok, amount)]
                        ELSE deposit
  BY DEF BalanceAnswered
<1>3. call.seen \in Nat /\ amount \in Nat /\ amount >= call.seen
  <2>1. call.seen \in Nat
    BY <1>1 DEF BCall
  <2>2. OnChain(call.for) \in Nat
    BY <1>1 DEF OnChain
  <2> QED
    BY <2>1, <2>2
<1>4. balanceCalls' \subseteq balanceCalls /\ AddressOf(user') = AddressOf(user) /\ OneAccount'
  BY <1>1 DEF AddressOf, OneAccount, BInv
<1>5. /\ Fresh(cash, balanceCalls', "cash", AddressOf(user), TRUE)
      /\ Fresh(portfolio, balanceCalls', "portfolio", bearer, TRUE)
      /\ Fresh(deposit.balance, balanceCalls', "dialog", Recipient, deposit.open)
      /\ AfterPayment(deposit, balanceCalls') /\ Backed(deposit, balanceCalls', onChain)
  BY <1>4 DEF BInv, Fresh, Numbered, AfterPayment, Backed
<1>6. CASE call.kind = "cash"
  <2>1. /\ cash' = BalanceSettled(cash, call, ok, amount)
        /\ UNCHANGED <<portfolio, deposit>>
    BY <1>2, <1>6
  <2>2. Fresh(cash', balanceCalls', "cash", AddressOf(user), TRUE) /\ cash' \in Balance
    BY <1>1, <1>3, <1>6, <2>1, AnswerFresh, SettledType DEF BInv
  <2>3. BTypeOK' /\ Recipient' = Recipient
    BY <1>1, <1>4, <2>1, <2>2 DEF BInv, BTypeOK, Recipient
  <2> QED
    BY <1>1, <1>4, <1>5, <2>1, <2>2, <2>3 DEF BInv
<1>7. CASE call.kind = "portfolio"
  <2>1. /\ portfolio' = BalanceSettled(portfolio, call, ok, amount)
        /\ UNCHANGED <<cash, deposit>>
    BY <1>2, <1>7
  <2>2. Fresh(portfolio', balanceCalls', "portfolio", bearer, TRUE) /\ portfolio' \in Balance
    BY <1>1, <1>3, <1>7, <2>1, AnswerFresh, SettledType DEF BInv
  <2>3. BTypeOK' /\ Recipient' = Recipient
    BY <1>1, <1>4, <2>1, <2>2 DEF BInv, BTypeOK, Recipient
  <2> QED
    BY <1>1, <1>4, <1>5, <2>1, <2>2, <2>3 DEF BInv
<1>8. CASE call.kind = "dialog"
  <2> DEFINE b == BalanceSettled(deposit.balance, call, ok, amount)
  <2>1. deposit' = [deposit EXCEPT !.balance = b] /\ UNCHANGED <<cash, portfolio>>
    BY <1>2, <1>8
  <2>2. /\ b \in Balance /\ b.request = deposit.balance.request
        /\ call.request = deposit.balance.request =>
               b.shown = IF ok THEN [of |-> call.for, amount |-> amount] ELSE None
    BY <1>1, <1>3, SettledType
  <2>3. Fresh(b, balanceCalls', "dialog", Recipient, deposit.open)
    BY <1>1, <1>3, <1>8, AnswerFresh DEF BInv
  <2>4. \/ b = deposit.balance
        \/ b.shown = None
        \/ /\ call.request = deposit.balance.request
           /\ b.shown.of = call.for /\ b.shown.amount = amount
    <3>1. CASE call.request # deposit.balance.request
      BY <3>1 DEF BalanceSettled
    <3>2. CASE call.request = deposit.balance.request
      <4>1. b.shown = IF ok THEN [of |-> call.for, amount |-> amount] ELSE None
        BY <2>2, <3>2
      <4> QED
        BY <3>2, <4>1
    <3> QED
      BY <3>1, <3>2
  <2> HIDE DEF b
  <2>5. /\ deposit' \in Dialog /\ deposit'.open = deposit.open /\ deposit'.balance = b
        /\ deposit'.receipt = deposit.receipt
    BY <1>1, <2>1, <2>2 DEF Dialog
  <2>6. AfterPayment(deposit', balanceCalls')
    <3>1. ASSUME deposit.receipt # None
          PROVE  \A c \in balanceCalls' :
                     /\ c.kind = "dialog" /\ c.request = b.request
                     /\ c.for = deposit.receipt.for
                     => c.seen >= deposit.receipt.after
      BY <1>4, <2>2, <3>1 DEF BInv, AfterPayment
    <3>2. ASSUME deposit.receipt # None, deposit.open, ~b.loading, b.shown # None,
                 b.shown.of = deposit.receipt.for
          PROVE  b.shown.amount >= deposit.receipt.after
      <4>1. CASE b = deposit.balance
        BY <3>2, <4>1 DEF BInv, AfterPayment
      <4>2. CASE /\ call.request = deposit.balance.request
                 /\ b.shown.of = call.for /\ b.shown.amount = amount
        <5>1. call.seen >= deposit.receipt.after
          BY <1>8, <3>2, <4>2 DEF BInv, AfterPayment
        <5>2. deposit.receipt.after \in Nat
          BY <1>1, <3>2 DEF Dialog
        <5> QED
          BY <1>3, <4>2, <5>1, <5>2
      <4> QED
        BY <2>4, <3>2, <4>1, <4>2
    <3> QED
      BY <2>5, <3>1, <3>2 DEF AfterPayment
  <2>7. /\ BTypeOK' /\ Backed(deposit', balanceCalls', onChain) /\ Recipient' = Recipient
    BY <1>1, <1>4, <1>5, <2>1, <2>5 DEF BInv, BTypeOK, Backed, ReceiptBacked, Recipient
  <2> QED
    BY <1>1, <1>4, <1>5, <2>1, <2>3, <2>5, <2>6, <2>7 DEF BInv
<1> QED
  BY <1>1, <1>6, <1>7, <1>8

LEMMA FaucetFailedStep ==
    ASSUME BInv, NEW call \in balanceCalls, FaucetAnswered(call, FALSE)
    PROVE  BInv'
<1>1. /\ deposit \in Dialog /\ balanceCalls \subseteq BCall /\ balanceSteps' \in Nat
      /\ UNCHANGED <<user, bearer, stored, fetching, cash, portfolio, onChain>>
      /\ deposit' = [deposit EXCEPT !.submitting = FALSE, !.message = "error"]
      /\ balanceCalls' = balanceCalls \ {call}
  BY DEF FaucetAnswered, BInv, BTypeOK, signedInVars
<1>2. /\ deposit' \in Dialog /\ deposit'.open = deposit.open
      /\ deposit'.balance = deposit.balance /\ deposit'.receipt = deposit.receipt
  BY <1>1 DEF Dialog
<1> QED
  BY <1>1, <1>2, SameBalance

\* The balance after a payment is one more than what was shown of it.
LEMMA CreditedType ==
    ASSUME NEW b \in Balance, NEW for \in WalletAddress
    PROVE  LET credited == IF b.shown = None THEN [of |-> for, amount |-> 1]
                           ELSE [b.shown EXCEPT !.amount = @ + 1]
           IN  /\ [b EXCEPT !.shown = credited] \in Balance
               /\ [b EXCEPT !.shown = credited].request = b.request
<1> DEFINE credited == IF b.shown = None THEN [of |-> for, amount |-> 1]
                       ELSE [b.shown EXCEPT !.amount = @ + 1]
<1>1. credited \in ShownBalance
  <2>1. CASE b.shown = None
    BY <2>1 DEF ShownBalance, Holder
  <2>2. CASE b.shown # None
    <3> DEFINE n == b.shown.amount + 1
    <3>1. b.shown \in [of: Holder, amount: Nat]
      BY <2>2 DEF Balance, ShownBalance
    <3>2. n \in Nat /\ credited = [b.shown EXCEPT !.amount = n]
      BY <2>2, <3>1
    <3> HIDE DEF n, credited
    <3> QED
      BY <3>1, <3>2 DEF ShownBalance
  <2> QED
    BY <2>1, <2>2
<1> HIDE DEF credited
<1>2. [b EXCEPT !.shown = credited] \in Balance /\ [b EXCEPT !.shown = credited].request = b.request
  BY <1>1 DEF Balance
<1> QED
  BY <1>2 DEF credited

LEMMA FaucetPaidStep ==
    ASSUME BInv, NEW call \in balanceCalls, FaucetAnswered(call, TRUE)
    PROVE  BInv'
<1> DEFINE A == AddressOf(user)
           shown == deposit.balance.shown
           credited == IF shown = None THEN [of |-> call.for, amount |-> 1]
                       ELSE [shown EXCEPT !.amount = @ + 1]
           b == [deposit.balance EXCEPT !.shown = credited]
           r == [for |-> call.for, after |-> call.seen]
           c == BalanceCall("cash", cash')
           n == BalanceCall("dialog", Refreshing(b, A))
<1>1. /\ call \in BCall /\ call.kind = "faucet" /\ call.seen # None
      /\ user \in User \cup {None} /\ balanceCalls \subseteq BCall
      /\ deposit \in Dialog /\ deposit.balance \in Balance
      /\ cash \in Balance /\ A \in WalletAddress \cup {None} /\ A \in Holder
      /\ onChain \in [WalletAddress -> Nat]
      /\ UNCHANGED <<user, bearer, stored, fetching, portfolio, accountMenu, onChain, balanceSteps>>
  BY AddressType DEF FaucetAnswered, BInv, BTypeOK, Dialog, Holder, signedInVars
<1>2. call.for \in WalletAddress /\ r \in [for: WalletAddress, after: Nat]
      /\ r.for = call.for /\ r.after = call.seen
  BY <1>1 DEF BCall
<1>3. b \in Balance /\ b.request = deposit.balance.request
  BY <1>1, <1>2, CreditedType
<1>4. deposit' = [deposit EXCEPT !.submitting = FALSE, !.message = "success",
                     !.amount = "empty", !.receipt = r, !.balance = Refreshing(b, A)]
  BY <1>1 DEF FaucetAnswered
<1>5. /\ cash' = IF A = None THEN Cleared(cash) ELSE Refreshing(cash, A)
      /\ balanceCalls' = (balanceCalls \ {call}) \cup (IF A = None THEN {} ELSE {c}) \cup {n}
  <2>1. cash' = CashOf(user)
    BY DEF FaucetAnswered
  <2>2. balanceCalls' = (balanceCalls \ {call}) \cup CashCalls(user, cash')
                           \cup {BalanceCall("dialog", Refreshing(b, A))}
    BY <1>1, <1>4 DEF FaucetAnswered, Dialog
  <2> QED
    BY <2>1, <2>2 DEF CashOf, CashCalls
<1>6. /\ Refreshing(b, A) \in Balance /\ Refreshing(b, A).request = deposit.balance.request + 1
      /\ Refreshing(b, A).loading = TRUE /\ Refreshing(b, A).asked = A
  <2>1. A \in Holder /\ b \in Balance /\ b.request = deposit.balance.request
    BY <1>1, <1>3
  <2> HIDE DEF b, A
  <2>2. /\ Refreshing(b, A) \in Balance /\ Refreshing(b, A).request = b.request + 1
        /\ Refreshing(b, A).loading = TRUE /\ Refreshing(b, A).asked = A
    BY <2>1, RefreshingType
  <2> QED
    BY <2>1, <2>2
<1>7. /\ c.kind = "cash" /\ n.kind = "dialog" /\ n.for = A
      /\ n.request = Refreshing(b, A).request /\ n.seen = OnChain(A)
  BY <1>6, BalanceCallFields
<1>8. n \in BCall
  BY <1>1, <1>6, CallType
<1> HIDE DEF b, r, c, n, A, credited
<1>9. /\ deposit' \in Dialog /\ deposit'.open = deposit.open /\ deposit'.receipt = r
      /\ deposit'.balance = Refreshing(b, A)
  BY <1>1, <1>2, <1>4, <1>6 DEF Dialog
<1>10. \A o \in balanceCalls' :
           \/ o \in balanceCalls
           \/ A # None /\ o = c
           \/ o = n
  BY <1>5
<1>11. \A o \in balanceCalls' :
           /\ o.kind = "cash" => o \in balanceCalls \/ (A # None /\ o = c)
           /\ o.kind = "dialog" => o \in balanceCalls \/ o = n
           /\ o.kind \in {"portfolio", "faucet"} => o \in balanceCalls
  BY <1>7, <1>10
<1>12. cash' \in Balance /\ Fresh(cash', balanceCalls', "cash", A, TRUE)
  <2>1. \A o \in balanceCalls' : o.kind = "cash" =>
            o \in balanceCalls \/ (A # None /\ o = BalanceCall("cash", cash'))
    BY <1>11 DEF c
  <2>2. Numbered(cash, balanceCalls, "cash")
    BY DEF BInv, Fresh, Numbered
  <2>3. /\ A = None => cash' = Cleared(cash)
        /\ A # None => cash' = Refreshing(cash, A)
    BY <1>5
  <2> QED
    BY <1>1, <2>1, <2>2, <2>3, EffectFresh
<1>13. balanceCalls' \subseteq BCall
  <2>1. c \in BCall
    BY <1>1, <1>12, CallType DEF c
  <2> QED
    BY <1>1, <1>8, <1>10, <2>1
<1>14. Fresh(portfolio, balanceCalls', "portfolio", bearer, TRUE)
  BY <1>11, OtherFresh DEF BInv
<1>15. \A o \in balanceCalls : o.kind = "dialog" => o.request <= b.request
  BY <1>3 DEF BInv, Fresh, Numbered
<1>16. Fresh(Refreshing(b, A), balanceCalls', "dialog", A, TRUE)
  <2>1. \A o \in balanceCalls' : o.kind = "dialog" =>
            o \in balanceCalls \/ o = BalanceCall("dialog", Refreshing(b, A))
    BY <1>11 DEF n
  <2> QED
    BY <1>1, <1>3, <1>15, <2>1, RefreshFresh
<1>17. /\ Recipient \in {A, None} /\ Recipient' = Recipient /\ AddressOf(user') = A
       /\ OneAccount'
  BY <1>1, <1>9 DEF Recipient, A, AddressOf, OneAccount, BInv
<1>18. Fresh(Refreshing(b, A), balanceCalls', "dialog", Recipient, deposit.open)
  BY <1>16, <1>17 DEF Fresh, Numbered
<1>19. r.after <= onChain[r.for] /\ onChain[r.for] \in Nat /\ r.after \in Nat
  BY <1>1, <1>2 DEF BInv, Backed
<1>20. AfterPayment(deposit', balanceCalls')
  <2>1. b.request \in Nat /\ \A o \in balanceCalls : o.request \in Nat
    BY <1>1, <1>3 DEF Balance, BCall
  <2>2. \A o \in balanceCalls' : o.kind = "dialog" /\ o.request = Refreshing(b, A).request
            => o = n
    BY <1>3, <1>6, <1>11, <1>15, <2>1
  <2>3. n.for = r.for => n.seen >= r.after
    BY <1>2, <1>7, <1>19 DEF OnChain
  <2> QED
    BY <1>6, <1>9, <2>2, <2>3 DEF AfterPayment
<1>21. Backed(deposit', balanceCalls', onChain)
  BY <1>9, <1>11, <1>19 DEF BInv, Backed, ReceiptBacked
<1>22. BTypeOK'
  BY <1>1, <1>9, <1>12, <1>13 DEF BInv, BTypeOK
<1> QED
  BY <1>1, <1>9, <1>12, <1>14, <1>17, <1>18, <1>20, <1>21, <1>22 DEF BInv, A

-----------------------------------------------------------------------------
(* The invariant *)

LEMMA BalancesStart == BalancesInit => BInv
<1> SUFFICES ASSUME BalancesInit PROVE BInv
  OBVIOUS
<1> DEFINE A == AddressOf(stored)
           c == BalanceCall("cash", cash)
           p == BalanceCall("portfolio", portfolio)
<1>1. NotRead \in Balance /\ NotRead.shown = None
  BY DEF NotRead, Balance, ShownBalance, Holder
<1>2. DialogClosed \in Dialog /\ DialogClosed.receipt = None /\ DialogClosed.open = FALSE
      /\ DialogClosed.balance = NotRead
  BY <1>1 DEF DialogClosed, Dialog
<1>3. /\ stored \in User \cup {None} /\ user = stored /\ bearer = stored
      /\ deposit = DialogClosed /\ onChain \in [WalletAddress -> Nat] /\ balanceSteps = 0
      /\ A \in WalletAddress \cup {None} /\ A \in Holder /\ stored \in Holder
  BY AddressType DEF BalancesInit, Holder
<1>4. /\ cash = IF A = None THEN NotRead ELSE Refreshing(NotRead, A)
      /\ portfolio = IF stored = None THEN NotRead ELSE Refreshing(NotRead, stored)
      /\ balanceCalls = (IF A = None THEN {} ELSE {c}) \cup (IF stored = None THEN {} ELSE {p})
  BY DEF BalancesInit, CashCalls, PortfolioCalls
<1> HIDE DEF A
<1>5. /\ cash \in Balance /\ portfolio \in Balance
      /\ A # None => cash.asked = A /\ cash.loading = TRUE
      /\ A = None => cash.shown = None
      /\ stored # None => portfolio.asked = stored /\ portfolio.loading = TRUE
      /\ stored = None => portfolio.shown = None
  <2>1. Refreshing(NotRead, A) \in Balance /\ Refreshing(NotRead, stored) \in Balance
        /\ Refreshing(NotRead, A).asked = A /\ Refreshing(NotRead, stored).asked = stored
        /\ Refreshing(NotRead, A).loading = TRUE /\ Refreshing(NotRead, stored).loading = TRUE
    BY <1>1, <1>3, RefreshingType
  <2> QED
    BY <1>1, <1>4, <2>1
<1>6. /\ c.kind = "cash" /\ c.request = cash.request /\ c.for = cash.asked
      /\ p.kind = "portfolio" /\ p.request = portfolio.request /\ p.for = portfolio.asked
      /\ c \in BCall /\ p \in BCall
  BY <1>3, <1>5, BalanceCallFields, CallType
<1> HIDE DEF c, p
<1>7. \A call \in balanceCalls : call = c \/ call = p
  BY <1>4
<1>8. BTypeOK
  BY <1>1, <1>2, <1>3, <1>5, <1>6, <1>7 DEF BTypeOK
<1>9. cash.request \in Nat /\ portfolio.request \in Nat
  BY <1>5 DEF Balance
<1>10. /\ Fresh(cash, balanceCalls, "cash", A, TRUE)
       /\ Fresh(portfolio, balanceCalls, "portfolio", stored, TRUE)
       /\ Fresh(NotRead, balanceCalls, "dialog", None, FALSE)
  BY <1>5, <1>6, <1>7, <1>9 DEF Fresh, Numbered
<1>11. AfterPayment(deposit, balanceCalls) /\ Backed(deposit, balanceCalls, onChain)
  BY <1>2, <1>3, <1>6, <1>7 DEF AfterPayment, Backed, ReceiptBacked
<1> QED
  BY <1>2, <1>3, <1>8, <1>10, <1>11 DEF BInv, A, Recipient, OneAccount

LEMMA SignedInStep ==
    ASSUME BInv, NEW u \in User, SignedIn(u)
    PROVE  BInv'
<1>1. /\ deposit \in Dialog /\ balanceSteps' \in Nat
      /\ TokenBecomes(u) /\ UserBecomes(u, deposit) /\ UNCHANGED <<stored, onChain>>
      /\ balanceCalls' = balanceCalls \cup PortfolioCalls(u, portfolio') \cup CashCalls(u, cash')
                            \cup DialogCalls(u, deposit')
  BY DEF SignedIn, BalanceStep, BInv, BTypeOK
<1>2. OneAccount'
  BY <1>1 DEF OneAccount, TokenBecomes, UserBecomes
<1> QED
  BY <1>1, <1>2, AccountStep

LEMMA SignedOutStep == ASSUME BInv, SignedOut PROVE BInv'
<1> DEFINE e == [deposit EXCEPT !.open = FALSE]
<1>1. /\ deposit \in Dialog /\ balanceSteps' \in Nat /\ TokenBecomes(None)
      /\ UserBecomes(None, e) /\ UNCHANGED <<stored, onChain, balanceCalls>>
  BY DEF SignedOut, BalanceStep, BInv, BTypeOK
<1>2. /\ e \in Dialog /\ e.open = FALSE /\ e.balance = deposit.balance
      /\ e.receipt = deposit.receipt
  BY <1>1 DEF Dialog
<1> HIDE DEF e
<1>3. /\ PortfolioCalls(None, portfolio') = {} /\ CashCalls(None, cash') = {}
      /\ DialogCalls(None, deposit') = {}
  BY DEF PortfolioCalls, CashCalls, DialogCalls, AddressOf
<1>4. OneAccount'
  BY <1>1 DEF OneAccount, TokenBecomes, UserBecomes
<1>5. balanceCalls' = balanceCalls \cup PortfolioCalls(None, portfolio')
                         \cup CashCalls(None, cash') \cup DialogCalls(None, deposit')
  BY <1>1, <1>3
<1> QED
  BY <1>1, <1>2, <1>4, <1>5, AccountStep

LEMMA RefreshedStep ==
    ASSUME BInv, NEW ok \in BOOLEAN, UserRefreshed(ok)
    PROVE  BInv'
<1>1. /\ deposit \in Dialog /\ balanceSteps' \in Nat /\ stored \in User \cup {None}
      /\ UNCHANGED <<stored, onChain>> /\ fetching' = FALSE
  BY DEF UserRefreshed, BInv, BTypeOK
<1>2. CASE ok
  <2>1. /\ UserBecomes(stored, deposit) /\ UNCHANGED <<bearer, portfolio>>
        /\ balanceCalls' = balanceCalls \cup {} \cup CashCalls(stored, cash')
                                        \cup DialogCalls(stored, deposit')
    BY <1>2 DEF UserRefreshed
  <2>2. OneAccount'
    BY <1>1, <2>1 DEF OneAccount, UserBecomes
  <2> QED
    BY <1>1, <2>1, <2>2, AccountStep
<1>3. CASE ~ok
  <2>1. /\ TokenBecomes(None) /\ UserBecomes(None, deposit) /\ UNCHANGED balanceCalls
    BY <1>3 DEF UserRefreshed
  <2>2. /\ PortfolioCalls(None, portfolio') = {} /\ CashCalls(None, cash') = {}
        /\ DialogCalls(None, deposit') = {}
    BY DEF PortfolioCalls, CashCalls, DialogCalls, AddressOf
  <2>3. OneAccount'
    BY <2>1 DEF OneAccount, TokenBecomes, UserBecomes
  <2>4. balanceCalls' = balanceCalls \cup PortfolioCalls(None, portfolio')
                           \cup CashCalls(None, cash') \cup DialogCalls(None, deposit')
    BY <2>1, <2>2
  <2> QED
    BY <1>1, <2>1, <2>3, <2>4, AccountStep
<1> QED
  BY <1>2, <1>3

LEMMA BalancesStep == ASSUME BInv, [BalancesNext]_balanceVars PROVE BInv'
<1>1. CASE (\E u \in User : SignedIn(u)) \/ (\E ok \in BOOLEAN : UserRefreshed(ok)) \/ SignedOut
  BY <1>1, SignedInStep, RefreshedStep, SignedOutStep
<1>2. CASE ToggleAccountMenu \/ DismissAccountMenu \/ UNCHANGED balanceVars
  BY <1>2, MenuStep DEF ToggleAccountMenu, DismissAccountMenu, balanceVars
<1>3. CASE OpenDeposit
  BY <1>3, OpenStep
<1>4. CASE CloseDeposit
  BY <1>4, CloseDepositStep
<1>5. CASE \E amount \in {"empty", "invalid", "valid"} : TypeAmount(amount)
  BY <1>5, TypeStep
<1>6. CASE SubmitDeposit
  BY <1>6, SubmitDepositStep
<1>7. ASSUME NEW call \in balanceCalls,
             \/ FaucetPays(call)
             \/ \E ok \in BOOLEAN : BalanceAnswered(call, ok) \/ FaucetAnswered(call, ok)
      PROVE  BInv'
  <2>1. CASE FaucetPays(call)
    BY <2>1, PaysStep
  <2>2. CASE \E ok \in BOOLEAN : BalanceAnswered(call, ok)
    BY <2>2, BalanceAnswerStep
  <2>3. CASE FaucetAnswered(call, TRUE)
    BY <2>3, FaucetPaidStep
  <2>4. CASE FaucetAnswered(call, FALSE)
    BY <2>4, FaucetFailedStep
  <2> QED
    BY <1>7, <2>1, <2>2, <2>3, <2>4
<1> QED
  BY <1>1, <1>2, <1>3, <1>4, <1>5, <1>6, <1>7 DEF BalancesNext

\* The numbers of the requests work, for any users, wallets and payments, in
\* any order of sign-ins, sign-outs, effects and answers, fetchMe's late one
\* included: what the bar and the open deposit dialog show settled answers the
\* latest request, which was sent for the account they name, and the dialog's is
\* not older than the payment its receipt reports.  The bar names an account
\* other than its token's only when fetchMe's answer came late.
THEOREM BalancesAgree == BalancesSpec => []BalancesAreOfTheAccount
<1>1. BInv => BalancesAreOfTheAccount
  BY DEF BInv, Fresh, AfterPayment, Recipient, OneAccount, BalancesAreOfTheAccount, Settled
<1> QED
  BY <1>1, BalancesStart, BalancesStep, PTL DEF BalancesSpec
=============================================================================
