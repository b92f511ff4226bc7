----------------------------- MODULE Conditions -----------------------------
(***************************************************************************)
(* The condition registry of sabi_ctf: which conditions are prepared, and  *)
(* the payout vector each one was resolved with.  It is the part of the    *)
(* CTF contract that sabi_market writes, so the position ledger (Ctf) and  *)
(* the market registry (Market) both extend this module.                   *)
(*                                                                         *)
(* A condition id is the hash of its oracle, question and slot count; the  *)
(* hash is injective here, so a condition is a model value, and SlotCount  *)
(* says what slot count went into it.                                      *)
(***************************************************************************)
EXTENDS Ledger, Sequences

CONSTANTS
    Condition,    \* the condition ids that callers ever name
    SlotCount,    \* [Condition -> Nat]: the outcome slot count hashed into the id
    Payouts       \* the payout vectors that reporters ever send

ASSUME ConditionAssumption ==
    /\ SlotCount \in [Condition -> Nat]
    /\ Payouts \subseteq Seq(Nat)

VARIABLES
    prepared,     \* the conditions that have a storage entry
    numerators,   \* condition -> the payout vector reported, << >> before
    denominator   \* condition -> the sum of that vector, 0 before

conditionVars == <<prepared, numerators, denominator>>

ConditionTypeOK ==
    /\ prepared \subseteq Condition
    /\ numerators \in [Condition -> Seq(Nat)]
    /\ denominator \in [Condition -> Nat]

ConditionInit ==
    /\ prepared = {}
    /\ numerators = [c \in Condition |-> << >>]
    /\ denominator = [c \in Condition |-> 0]

Slots(c) == 1..SlotCount[c]

Resolved(c) == denominator[c] # 0

\* Mutant of PrepareCondition: a condition prepared before is taken.
PrepareAgain(c) ==
    /\ SlotCount[c] \in 2..32
    /\ prepared' = prepared \cup {c}
    /\ UNCHANGED <<numerators, denominator>>

\* prepare_condition: anyone may prepare a condition, once.
PrepareCondition(c) ==
    /\ SlotCount[c] \in 2..32
    /\ c \notin prepared
    /\ prepared' = prepared \cup {c}
    /\ UNCHANGED <<numerators, denominator>>

\* Mutant of ApplyPayouts: a condition reported before is taken.
ApplyPayoutsAgain(c, payouts) ==
    /\ c \in prepared
    /\ Len(payouts) = SlotCount[c]
    /\ TotalOf(payouts) # 0
    /\ numerators' = [numerators EXCEPT ![c] = payouts]
    /\ denominator' = [denominator EXCEPT ![c] = TotalOf(payouts)]
    /\ UNCHANGED prepared

\* apply_payouts: the vector is accepted once, when it has one entry per slot
\* and does not sum to zero.
ApplyPayouts(c, payouts) ==
    /\ c \in prepared
    /\ ~Resolved(c)
    /\ Len(payouts) = SlotCount[c]
    /\ TotalOf(payouts) # 0
    /\ numerators' = [numerators EXCEPT ![c] = payouts]
    /\ denominator' = [denominator EXCEPT ![c] = TotalOf(payouts)]
    /\ UNCHANGED prepared
=============================================================================
