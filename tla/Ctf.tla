--------------------------------- MODULE Ctf ---------------------------------
(***************************************************************************)
(* sabi_ctf: the conditional token contract.  Collateral locked in the     *)
(* contract is split into outcome positions, positions are split further   *)
(* under a parent collection, merged back, transferred, and redeemed once  *)
(* the condition is resolved.  Every handler is one atomic transaction: a  *)
(* panic reverts it, so a handler's panics are the guard of its action.    *)
(*                                                                         *)
(* A collection id is the hash of its parent, a condition and an index     *)
(* set: here the sequence of <<condition, index set>> links that leads to  *)
(* it, the empty parent id being << >>.  One collateral token, so the      *)
(* position id of a collection is the collection.  A call with amount 0    *)
(* returns without effect and is a stuttering step.                        *)
(***************************************************************************)
EXTENDS Conditions, Access

CONSTANTS
    Address,      \* the accounts and contracts that hold tokens
    CtfContract,  \* the address of this contract, where collateral is locked
    Funding,      \* [Address -> Nat]: collateral each holder starts with
    Targets,      \* [Roles -> SUBSET Address]: what set_*_contract is given
    MaxDepth,     \* bound: links of a collection
    MaxAmount,    \* bound: amount of one call
    MaxSets,      \* bound: index sets listed in one call
    MaxSupply,    \* bound: supply up to which positions are split or minted
    Issuees       \* the accounts the exchange calls mint_position for

Roles == {"exchange", "liquidityManager", "market"}

ASSUME CtfAssumption ==
    /\ IsFiniteSet(Address)
    /\ CtfContract \in Address
    /\ NoAddress \notin Address
    /\ Funding \in [Address -> Nat]
    /\ Admins \subseteq Address
    /\ Targets \in [Roles -> SUBSET Address]
    /\ MaxDepth \in Nat /\ MaxAmount \in Nat /\ MaxSets \in Nat
    /\ MaxSupply \in Nat
    /\ Issuees \subseteq Address

VARIABLES
    wiring,       \* the ExchangeContract, LiquidityManagerContract, MarketContract keys
    balance,      \* position -> holder -> PositionBalance
    supply,       \* position -> PositionSupply
    usdc          \* holder -> balance of the collateral token

accessVars == <<adminVars, wiring>>
ledgerVars == <<balance, supply, usdc>>
vars == <<conditionVars, accessVars, ledgerVars>>

Links == UNION {{c} \X ((SUBSET Slots(c)) \ {{}}) : c \in Condition}

\* Every collection: the root and the collections at most MaxDepth links below it.
Collections == UNION {[1..n -> Links] : n \in 0..MaxDepth}

Root == << >>

Position == Collections \ {Root}

\* The collections a caller names as parent.
Parents == {q \in Collections : Len(q) < MaxDepth}

Child(parent, c, S) == Append(parent, <<c, S>>)

Children(parent, c, sets) == {Child(parent, c, S) : S \in sets}

Actors == Address \ {CtfContract}

TypeOK ==
    /\ ConditionTypeOK
    /\ AdminTypeOK
    /\ wiring \in [Roles -> Address \cup {NoAddress}]
    /\ balance \in [Position -> [Address -> Nat]]
    /\ supply \in [Position -> Nat]
    /\ usdc \in [Address -> Nat]

Init ==
    /\ ConditionInit
    /\ AdminInit
    /\ wiring = [r \in Roles |-> NoAddress]
    /\ balance = [p \in Position |-> [a \in Address |-> 0]]
    /\ supply = [p \in Position |-> 0]
    /\ usdc = Funding

-----------------------------------------------------------------------------
(* access.rs *)

Administer ==
    /\ AdminNext
    /\ UNCHANGED <<wiring, conditionVars, ledgerVars>>

\* set_exchange_contract, set_liquidity_manager_contract, set_market_contract.
SetContract(role, target) ==
    /\ Initialized
    /\ wiring' = [wiring EXCEPT ![role] = target]
    /\ UNCHANGED <<adminVars, conditionVars, ledgerVars>>

\* require_*_if_configured: an unset role lets every caller through.
Callers(role) == IF wiring[role] = NoAddress THEN Actors ELSE {wiring[role]}

-----------------------------------------------------------------------------
(* Conditions *)

Prepare(c) ==
    /\ PrepareCondition(c)
    /\ UNCHANGED <<accessVars, ledgerVars>>

\* report_payouts: the condition's own oracle reports, past any market contract.
ReportPayouts(c, payouts) ==
    /\ ApplyPayouts(c, payouts)
    /\ UNCHANGED <<accessVars, ledgerVars>>

ReportPayoutsByCondition(c, payouts) ==
    /\ Callers("market") # {}
    /\ ApplyPayouts(c, payouts)
    /\ UNCHANGED <<accessVars, ledgerVars>>

-----------------------------------------------------------------------------
(* Positions *)

\* do_mint and do_burn of amount, at every position of a set, for one holder.
Minted(b, positions, holder, amount) ==
    [p \in Position |->
        IF p \in positions THEN Credit(b[p], holder, amount) ELSE b[p]]

Burned(b, positions, holder, amount) ==
    [p \in Position |->
        IF p \in positions THEN Debit(b[p], holder, amount) ELSE b[p]]

SupplyUp(s, positions, amount) ==
    [p \in Position |-> IF p \in positions THEN s[p] + amount ELSE s[p]]

SupplyDown(s, positions, amount) ==
    [p \in Position |-> IF p \in positions THEN s[p] - amount ELSE s[p]]

\* do_burn of a holder's whole balance, at every position of a set.
Cleared(b, positions, holder) ==
    [p \in Position |->
        IF p \in positions THEN [b[p] EXCEPT ![holder] = 0] ELSE b[p]]

\* Mutant of SupplyCleared: the balance is set to zero instead of burned.
SupplyUncleared(s, b, positions, holder) == s

SupplyCleared(s, b, positions, holder) ==
    [p \in Position |-> IF p \in positions THEN s[p] - b[p][holder] ELSE s[p]]

\* Mutant of CanBurn: only the supply is compared with the amount.
CanBurnFromSupply(positions, holder, amount) ==
    \A p \in positions : supply[p] >= amount

\* The two panics of do_burn.
CanBurn(positions, holder, amount) ==
    \A p \in positions : balance[p][holder] >= amount /\ supply[p] >= amount

\* Mutant of ValidPartition: the sets may overlap.
OverlappingPartition(c, partition) ==
    /\ c \in prepared
    /\ \A S \in partition : S # {} /\ S \subseteq Slots(c)
    /\ UNION partition = Slots(c)

\* validate_partition: disjoint non-empty index sets that cover every slot.  A
\* single set of all slots is a partition too.
ValidPartition(c, partition) ==
    /\ c \in prepared
    /\ \A S \in partition : S # {} /\ S \subseteq Slots(c)
    /\ \A S, T \in partition : S # T => S \cap T = {}
    /\ UNION partition = Slots(c)

SplitPosition(user, parent, c, partition, amount) ==
    LET children == Children(parent, c, partition)
        burnt    == IF parent = Root THEN {} ELSE {parent}
    IN  /\ ~isPaused
        /\ IF parent = Root THEN usdc[user] >= amount
                            ELSE CanBurn(burnt, user, amount)
        /\ ValidPartition(c, partition)
        /\ \A p \in children : supply[p] + amount <= MaxSupply
        /\ usdc' = IF parent = Root THEN Move(usdc, user, CtfContract, amount)
                                    ELSE usdc
        /\ balance' = Minted(Burned(balance, burnt, user, amount),
                             children, user, amount)
        /\ supply' = SupplyUp(SupplyDown(supply, burnt, amount), children, amount)
        /\ UNCHANGED <<conditionVars, accessVars>>

\* merge_positions_internal: the holder's children are burned, the recipient
\* gets the collateral or the parent position.
MergeInternal(holder, recipient, parent, c, partition, amount) ==
    LET children == Children(parent, c, partition)
        minted   == IF parent = Root THEN {} ELSE {parent}
    IN  /\ ValidPartition(c, partition)
        /\ CanBurn(children, holder, amount)
        /\ parent = Root => usdc[CtfContract] >= amount
        /\ usdc' = IF parent = Root THEN Move(usdc, CtfContract, recipient, amount)
                                    ELSE usdc
        /\ balance' = Minted(Burned(balance, children, holder, amount),
                             minted, recipient, amount)
        /\ supply' = SupplyUp(SupplyDown(supply, children, amount), minted, amount)
        /\ UNCHANGED <<conditionVars, accessVars>>

MergePositions(user, parent, c, partition, amount) ==
    /\ ~isPaused
    /\ MergeInternal(user, user, parent, c, partition, amount)

\* Mutant of MergePositionsLm: it does not ask for the pause.
MergePositionsLmPaused(holder, recipient, parent, c, partition, amount) ==
    /\ Callers("liquidityManager") # {}
    /\ MergeInternal(holder, recipient, parent, c, partition, amount)

\* The liquidity manager merges one holder's positions for a recipient.
MergePositionsLm(holder, recipient, parent, c, partition, amount) ==
    /\ ~isPaused
    /\ Callers("liquidityManager") # {}
    /\ MergeInternal(holder, recipient, parent, c, partition, amount)

\* split_position_lm: both the liquidity manager and the user authorize.
SplitPositionLm(user, parent, c, partition, amount) ==
    /\ Callers("liquidityManager") # {}
    /\ SplitPosition(user, parent, c, partition, amount)

\* The numerator an index set is paid at.
Numerator(c, S) == TotalOf([i \in S |-> numerators[c][i]])

\* Mutant of Payout: rounded up.
PayoutRoundedUp(user, parent, c, S) ==
    (balance[Child(parent, c, S)][user] * Numerator(c, S) + denominator[c] - 1)
        \div denominator[c]

\* What one index set pays the user, rounded down.
Payout(user, parent, c, S) ==
    (balance[Child(parent, c, S)][user] * Numerator(c, S)) \div denominator[c]

\* redeem_positions: each index set with a share of the payout is burned whole,
\* even when its payout rounds to nothing; losing sets are left alone.  Listing
\* a set twice finds a zero balance the second time, so the list is a set here.
RedeemPositions(user, parent, c, indexSets) ==
    LET paid   == {S \in indexSets : Numerator(c, S) # 0}
        burnt  == Children(parent, c, paid)
        payout == TotalOf([S \in paid |-> Payout(user, parent, c, S)])
        minted == IF parent = Root THEN {} ELSE {parent}
    IN  /\ ~isPaused
        /\ c \in prepared /\ Resolved(c)
        /\ \A S \in indexSets : S # {} /\ S \subseteq Slots(c)
        /\ \A p \in burnt : supply[p] >= balance[p][user]
        /\ parent = Root => usdc[CtfContract] >= payout
        /\ usdc' = IF parent = Root THEN Move(usdc, CtfContract, user, payout)
                                    ELSE usdc
        /\ balance' = Minted(Cleared(balance, burnt, user), minted, user, payout)
        /\ supply' = SupplyUp(SupplyCleared(supply, balance, burnt, user), minted, payout)
        /\ UNCHANGED <<conditionVars, accessVars>>

\* transfer_position and transfer_position_lm: a burn, then a mint.
TransferInternal(from, to, p, amount) ==
    /\ ~isPaused
    /\ CanBurn({p}, from, amount)
    /\ balance' = Minted(Burned(balance, {p}, from, amount), {p}, to, amount)
    /\ supply' = SupplyUp(SupplyDown(supply, {p}, amount), {p}, amount)
    /\ UNCHANGED <<usdc, conditionVars, accessVars>>

TransferPosition(from, to, p, amount) == TransferInternal(from, to, p, amount)

TransferPositionLm(from, to, p, amount) ==
    /\ Callers("liquidityManager") # {}
    /\ TransferInternal(from, to, p, amount)

\* mint_position: the exchange issues a position against no collateral.
MintPosition(user, p, amount) ==
    /\ ~isPaused
    /\ Callers("exchange") # {}
    /\ supply[p] + amount <= MaxSupply
    /\ balance' = Minted(balance, {p}, user, amount)
    /\ supply' = SupplyUp(supply, {p}, amount)
    /\ UNCHANGED <<usdc, conditionVars, accessVars>>

BurnPosition(user, p, amount) ==
    /\ ~isPaused
    /\ Callers("exchange") # {}
    /\ CanBurn({p}, user, amount)
    /\ balance' = Burned(balance, {p}, user, amount)
    /\ supply' = SupplyDown(supply, {p}, amount)
    /\ UNCHANGED <<usdc, conditionVars, accessVars>>

\* A transfer of the collateral token that does not go through this contract.
TransferUsdc(from, to, amount) ==
    /\ usdc[from] >= amount
    /\ usdc' = Move(usdc, from, to, amount)
    /\ UNCHANGED <<balance, supply, conditionVars, accessVars>>

-----------------------------------------------------------------------------

Amounts == 1..MaxAmount

\* The lists of index sets that callers send, as sets.
IndexSets(c) == {sets \in SUBSET (SUBSET Slots(c)) : Cardinality(sets) <= MaxSets}

AccessNext ==
    \/ Administer
    \/ \E r \in Roles : \E a \in Targets[r] : SetContract(r, a)

ConditionNext ==
    \E c \in Condition :
        \/ Prepare(c)
        \/ \E v \in Payouts : ReportPayouts(c, v)
        \/ \E v \in Payouts : ReportPayoutsByCondition(c, v)

SplitNext ==
    \E user \in Actors, parent \in Parents, c \in Condition, n \in Amounts :
        \E partition \in IndexSets(c) :
            \/ SplitPosition(user, parent, c, partition, n)
            \/ SplitPositionLm(user, parent, c, partition, n)

MergeNext ==
    \E holder \in Actors, parent \in Parents, c \in Condition, n \in Amounts :
        \E partition \in IndexSets(c) :
            \/ MergePositions(holder, parent, c, partition, n)
            \/ \E recipient \in Address :
                   MergePositionsLm(holder, recipient, parent, c, partition, n)

RedeemNext ==
    \E user \in Actors, parent \in Parents, c \in Condition :
        \E indexSets \in IndexSets(c) : RedeemPositions(user, parent, c, indexSets)

TransferNext ==
    \E from \in Actors, to \in Address, p \in Position, n \in Amounts :
        \/ TransferPosition(from, to, p, n)
        \/ TransferPositionLm(from, to, p, n)

\* The two handlers that only the exchange may call once it is wired.
IssueNext ==
    \E p \in Position, n \in Amounts :
        \/ \E user \in Issuees : MintPosition(user, p, n)
        \/ \E user \in Address : BurnPosition(user, p, n)

UsdcNext ==
    \E from \in Actors, to \in Address, n \in Amounts : TransferUsdc(from, to, n)

Next ==
    \/ AccessNext
    \/ ConditionNext
    \/ SplitNext
    \/ MergeNext
    \/ RedeemNext
    \/ TransferNext
    \/ IssueNext
    \/ UsdcNext

Spec == Init /\ [][Next]_vars

-----------------------------------------------------------------------------
(* Properties *)

\* The stored supply of a position is the sum of its holders' balances, after
\* any sequence of splits, merges, redemptions, transfers, mints and burns.  So
\* the panic "Position supply underflow" of do_burn can never be the one hit.
SupplyIsSumOfBalances ==
    \A p \in Position : supply[p] = TotalOf(balance[p])

\* A pause stops every handler that moves positions or releases collateral.
PauseFreezesPositions ==
    [][isPaused => /\ UNCHANGED <<balance, supply>>
                   /\ usdc'[CtfContract] >= usdc[CtfContract]]_vars
=============================================================================
