------------------------------ MODULE MCExchange ------------------------------
(***************************************************************************)
(* Instances of Exchange for TLC.                                          *)
(***************************************************************************)
EXTENDS Exchange

CONSTANTS alice, bob, treasury, ctf, exchange, marketContract, c1

MCAddresses == {alice, bob, treasury, ctf, exchange, marketContract}

MCTwoSlots == [c \in Condition |-> 2]

MCEnd == [c \in Condition |-> 2]

MCNoTargets == [r \in Roles |-> {}]

MCPayouts == {<<1, 0>>, <<0, 1>>}

MCDefaultLimits == [min |-> 1, max |-> 100]

MCFunding == [a \in Address |-> IF a = alice THEN 3 ELSE IF a = bob THEN 5 ELSE 0]

MCSetsHeld == [a \in Address |-> IF a = alice THEN 3 ELSE 0]

MCAllowanceHeld == [a \in Address |-> IF a = bob THEN 5 ELSE IF a = alice THEN 1 ELSE 0]

MCOrder(maker, taker, outcome, side, makerAmount, takerAmount, nonce, feeRate, type) ==
    [maker |-> maker, taker |-> taker, condition |-> c1, outcome |-> outcome, side |-> side,
     makerAmount |-> makerAmount, takerAmount |-> takerAmount, expiration |-> 2 * nonce - 1,
     nonce |-> nonce, feeRate |-> feeRate, type |-> type]

\* Alice sells outcome 1, once above every bid; Bob bids for it, once for all or
\* nothing.  Either can be the taker.  Three of Alice's orders share the nonce 2,
\* and one is a bid for outcome 2 that can be matched with a bid of Bob's.  Bob's two
\* bids under the nonce 2 can be matched with each other.
MCOrders ==
    {MCOrder(alice, bob, 1, "Sell", 3, 4, 1, 3, "Gtc"),
     MCOrder(alice, bob, 1, "Sell", 2, 3, 2, 0, "Gtc"),
     MCOrder(alice, bob, 1, "Sell", 3, 9, 2, 0, "Fak"),
     MCOrder(alice, bob, 2, "Buy", 1, 1, 2, 0, "Gtd"),
     MCOrder(bob, alice, 1, "Buy", 4, 3, 1, 5, "Gtc"),
     MCOrder(bob, alice, 1, "Buy", 3, 2, 2, 0, "Fok"),
     MCOrder(bob, alice, 2, "Buy", 2, 2, 2, 0, "Fok")}

\* Alice and Bob bid for one outcome each, and sell what they may hold of them.
MCPairs ==
    {MCOrder(alice, bob, 1, "Buy", 2, 2, 1, 5, "Gtc"),
     MCOrder(bob, alice, 2, "Buy", 2, 2, 1, 0, "Gtc"),
     MCOrder(alice, bob, 1, "Sell", 2, 1, 2, 0, "Fok"),
     MCOrder(bob, alice, 2, "Sell", 2, 1, 2, 0, "Gtc")}

MCPairFunding == [a \in Address |-> IF a \in {alice, bob} THEN 3 ELSE 0]

MCNothing == [a \in Address |-> 0]

MCBobAllows == [a \in Address |-> IF a = bob THEN 3 ELSE 0]

MCPoolSets == [a \in Address |-> IF a = alice THEN 3 ELSE 0]

MCPoolLimits == [min |-> 1, max |-> 3]

MCOtherLimits == {[min |-> 2, max |-> 2]}

MCPoolFunding == [a \in Address |-> IF a = alice THEN 4 ELSE IF a = bob THEN 2 ELSE 0]

=============================================================================
