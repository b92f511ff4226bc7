-------------------------------- MODULE MCCtf --------------------------------
(***************************************************************************)
(* Instances of Ctf for TLC.                                               *)
(***************************************************************************)
EXTENDS CtfSolvency, TLC

CONSTANTS u1, u2, ctf, c1, c2

MCTargets == [r \in Roles |-> {u1}]

MCFundingOne == [a \in Address |-> IF a = u1 THEN 1 ELSE 0]

MCTwoSlots == [c \in Condition |-> 2]

MCPayouts == {<<1, 0>>, <<0, 1>>, <<1, 1>>, <<0, 0>>, <<1>>}
=============================================================================
