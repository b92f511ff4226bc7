------------------------------- MODULE MCMarket -------------------------------
(***************************************************************************)
(* Instances of Market for TLC.                                            *)
(***************************************************************************)
EXTENDS Market, TLC

CONSTANTS admin1, admin2, oracle, other, c1, c2, e1, e2

MCOracleOf == [c \in Condition |-> oracle]

MCBinary == [c \in Condition |-> 2]

\* One market with two outcomes and one with three.
MCMixed == [c \in Condition |-> IF c = c1 THEN 2 ELSE 3]

MCReports == {<<0, 1>>, <<1, 1>>}

\* One vector for each of the two markets of MCMixed.
MCMixedReports == {<<1, 1>>, <<0, 1, 1>>}

\* Nothing tells two events apart.
MCEventSymmetry == Permutations(Event)
=============================================================================
