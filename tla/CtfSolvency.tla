----------------------------- MODULE CtfSolvency -----------------------------
(***************************************************************************)
(* What the positions of the CTF contract are worth, and the properties    *)
(* that relate that worth to the collateral locked in the contract.        *)
(*                                                                         *)
(* A position is paid the product of its links' shares, each the part of   *)
(* a condition's payout that goes to the link's index set.  A product of   *)
(* shares is a part of all the ways to draw: draw one unit of the payout   *)
(* vector of every condition, anew for every level of nesting, and the     *)
(* position wins when each of its links drew one of its slots.  So what a  *)
(* position is worth is counted, in integers, by the draws that it wins.   *)
(***************************************************************************)
EXTENDS Ctf

ASSUME SolvencyAssumption == IsFiniteSet(Condition)

\* The payout vectors that could resolve a condition.
Shares(c) == {v \in Payouts : Len(v) = SlotCount[c] /\ TotalOf(v) # 0}

\* A world is a payout vector for every condition.
World == [Condition -> UNION {Shares(c) : c \in Condition}]

\* The worlds still possible: the reported vector where a condition is resolved.
Worlds ==
    {w \in World : \A c \in Condition :
        w[c] \in IF Resolved(c) THEN {numerators[c]} ELSE Shares(c)}

Levels == 1..MaxDepth

Draws(w) ==
    {d \in [Levels \X Condition -> UNION {Units(w[c]) : c \in Condition}] :
        \A k \in Levels, c \in Condition : d[<<k, c>>] \in Units(w[c])}

Wins(d, q) == \A k \in DOMAIN q : d[<<k, q[k][1]>>][1] \in q[k][2]

\* The draws that a collection wins; one unit of collateral, the root, wins all.
Worth == [w \in World |-> [q \in Collections |-> Cardinality({d \in Draws(w) : Wins(d, q)})]]

\* What the contract owes in world w, and what it holds to pay it.
Owed(w) == TotalOf([p \in Position |-> supply[p] * Worth[w][p]])

Locked(w) == usdc[CtfContract] * Worth[w][Root]

\* However the unresolved conditions resolve, the contract can pay everything.
Solvent == \A w \in Worlds : Owed(w) <= Locked(w)

-----------------------------------------------------------------------------

\* Positions appear while nothing is locked or burned for them: what mint_position
\* does, and nothing else may.
IssuedForNothing ==
    usdc' = usdc /\ supply' # supply /\ \A p \in Position : supply'[p] >= supply[p]

\* Whatever the outcome, what the contract owes never grows by more than what it
\* holds, except when the exchange calls mint_position: not by splitting a leg
\* again, not by merging legs of different splits, not by rounding in redemption,
\* not by redeeming overlapping index sets, not by reporting a payout.
MarginFallsOnlyByMinting ==
    [][IssuedForNothing \/ \A w \in Worlds :
            (w \in Worlds)' => Owed(w)' + Locked(w) <= Owed(w) + Locked(w)']_vars
=============================================================================
