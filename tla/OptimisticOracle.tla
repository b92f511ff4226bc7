--------------------------- MODULE OptimisticOracle ---------------------------
(***************************************************************************)
(* What an optimistic oracle promises, whoever implements it.  A question  *)
(* gets at most one verdict.  Somebody claims an answer; until a deadline  *)
(* later than the claim it can be challenged, and a challenged claim never *)
(* becomes the verdict; a claim that stood until its deadline may be       *)
(* accepted, and stays on record as what the verdict rests on.  A ruling   *)
(* decides a question at any time and strikes its claim off the record: it *)
(* is no way to give a claim an early verdict.                             *)
(***************************************************************************)
EXTENDS Naturals

CONSTANTS
    Question,
    Answer,
    Moment,       \* the instants of time, a set of naturals
    NoClaim,
    Undecided

VARIABLES
    claim,        \* question -> the claim on record for it, or NoClaim
    verdict,      \* question -> its answer, or Undecided
    clock

ovars == <<claim, verdict, clock>>

Init ==
    /\ claim = [q \in Question |-> NoClaim]
    /\ verdict = [q \in Question |-> Undecided]
    /\ clock = 0

\* A challenged claim is replaced, one that still stands is not.
Claim(q, a, until) ==
    /\ verdict[q] = Undecided
    /\ claim[q] # NoClaim => claim[q].challenged
    /\ until > clock
    /\ claim' = [claim EXCEPT
           ![q] = [answer |-> a, until |-> until, challenged |-> FALSE]]
    /\ UNCHANGED <<verdict, clock>>

Challenge(q) ==
    /\ verdict[q] = Undecided
    /\ claim[q] # NoClaim
    /\ ~claim[q].challenged
    /\ clock < claim[q].until
    /\ claim' = [claim EXCEPT
           ![q] = [answer |-> @.answer, until |-> @.until, challenged |-> TRUE]]
    /\ UNCHANGED <<verdict, clock>>

Decide(q, a) ==
    /\ verdict[q] = Undecided
    /\ verdict' = [verdict EXCEPT ![q] = a]
    /\ UNCHANGED clock

Accept(q) ==
    /\ claim[q] # NoClaim
    /\ ~claim[q].challenged
    /\ clock >= claim[q].until
    /\ Decide(q, claim[q].answer)
    /\ UNCHANGED claim

Rule(q, a) ==
    /\ Decide(q, a)
    /\ claim' = [claim EXCEPT ![q] = NoClaim]

Tick ==
    /\ clock' \in Moment
    /\ clock' > clock
    /\ UNCHANGED <<claim, verdict>>

Next ==
    \/ \E q \in Question :
        \/ \E a \in Answer, until \in Moment : Claim(q, a, until)
        \/ Challenge(q)
        \/ Accept(q)
        \/ \E a \in Answer : Rule(q, a)
    \/ Tick

Spec == Init /\ [][Next]_ovars
=============================================================================
