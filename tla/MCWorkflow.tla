------------------------------ MODULE MCWorkflow ------------------------------
(***************************************************************************)
(* Instances of ResolutionWorkflow for TLC.                                *)
(***************************************************************************)
EXTENDS ResolutionWorkflow, TLC

CONSTANTS admin1, oracle, c1, r1, r2, r3

MCOracleOf == [c \in Condition |-> oracle]

MCBinary == [c \in Condition |-> 2]

MCSymmetry == Permutations(Request)
=============================================================================
