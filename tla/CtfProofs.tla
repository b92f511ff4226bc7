------------------------------ MODULE CtfProofs ------------------------------
(***************************************************************************)
(* The CTF contract for any conditions, addresses, depth and amounts: its  *)
(* types, the agreement of its supply and balance entries, its pause, and  *)
(* its solvency.                                                           *)
(*                                                                         *)
(* The handlers are built from mints and burns of the same amount at a set *)
(* of positions.  Balanced is what each of those preserves, so for the     *)
(* ledgers every action is a chain of MintBalanced and BurnBalanced.  For  *)
(* solvency every action moves what is owed and what is locked by amounts  *)
(* that the worths of the positions involved relate: the children of a     *)
(* partition are worth together what their parent is (ChildrenWorth), and  *)
(* a payout no more than what is burned for it (PayoutBelowWorth).         *)
(***************************************************************************)
EXTENDS CtfSolvency, LedgerProofs, SequenceTheorems

\* A balance map and a supply map that are well typed and agree.
Balanced(b, s) ==
    /\ b \in [Position -> [Address -> Nat]]
    /\ s \in [Position -> Nat]
    /\ \A p \in Position : s[p] = TotalOf(b[p])

\* A resolved condition has a payout for each of its slots.
PayoutsMatchSlots ==
    \A c \in Condition : Resolved(c) => Len(numerators[c]) = SlotCount[c]

IInv == TypeOK /\ SupplyIsSumOfBalances /\ PayoutsMatchSlots

-----------------------------------------------------------------------------
(* Mints and burns *)

LEMMA MintBalanced ==
    ASSUME IsFiniteSet(Address), NEW b, NEW s, Balanced(b, s),
           NEW P, NEW a \in Address, NEW n \in Nat
    PROVE  Balanced(Minted(b, P, a, n), SupplyUp(s, P, n))
<1> DEFINE b2 == Minted(b, P, a, n)
           s2 == SupplyUp(s, P, n)
<1> SUFFICES ASSUME NEW p \in Position
             PROVE  b2[p] \in [Address -> Nat] /\ s2[p] \in Nat /\ s2[p] = TotalOf(b2[p])
  BY DEF Balanced, Minted, SupplyUp
<1>1. b[p] \in [Address -> Nat] /\ s[p] \in Nat /\ s[p] = TotalOf(b[p])
  BY DEF Balanced
<1>2. CASE p \in P
  <2>1. b2[p] = Credit(b[p], a, n) /\ s2[p] = s[p] + n
    BY <1>2 DEF Minted, SupplyUp
  <2>2. Credit(b[p], a, n) \in [Address -> Nat]
    BY <1>1, CreditType
  <2>3. TotalOf(Credit(b[p], a, n)) = TotalOf(b[p]) + n
    BY <1>1, CreditTotal
  <2> QED
    BY <1>1, <2>1, <2>2, <2>3
<1>3. CASE p \notin P
  BY <1>1, <1>3 DEF Minted, SupplyUp
<1> QED
  BY <1>2, <1>3

LEMMA BurnBalanced ==
    ASSUME IsFiniteSet(Address), NEW b, NEW s, Balanced(b, s),
           NEW P, NEW a \in Address, NEW n \in Nat,
           \A p \in P \cap Position : n <= b[p][a]
    PROVE  Balanced(Burned(b, P, a, n), SupplyDown(s, P, n))
<1> DEFINE b2 == Burned(b, P, a, n)
           s2 == SupplyDown(s, P, n)
<1> SUFFICES ASSUME NEW p \in Position
             PROVE  b2[p] \in [Address -> Nat] /\ s2[p] \in Nat /\ s2[p] = TotalOf(b2[p])
  BY DEF Balanced, Burned, SupplyDown
<1>1. b[p] \in [Address -> Nat] /\ s[p] \in Nat /\ s[p] = TotalOf(b[p])
  BY DEF Balanced
<1>2. CASE p \in P
  <2>1. b2[p] = Debit(b[p], a, n) /\ s2[p] = s[p] - n
    BY <1>2 DEF Burned, SupplyDown
  <2>2. n <= b[p][a]
    BY <1>2
  <2>3. Debit(b[p], a, n) \in [Address -> Nat]
    BY <1>1, <2>2, DebitType
  <2>4. n <= TotalOf(b[p]) /\ TotalOf(Debit(b[p], a, n)) = TotalOf(b[p]) - n
    BY <1>1, <2>2, DebitTotal
  <2> QED
    BY <1>1, <2>1, <2>3, <2>4
<1>3. CASE p \notin P
  BY <1>1, <1>3 DEF Burned, SupplyDown
<1> QED
  BY <1>2, <1>3

\* Burning a holder's whole balance at a set of positions.
LEMMA ClearBalanced ==
    ASSUME IsFiniteSet(Address), NEW b, NEW s, Balanced(b, s),
           NEW P, NEW a \in Address
    PROVE  Balanced(Cleared(b, P, a), SupplyCleared(s, b, P, a))
<1> DEFINE b2 == Cleared(b, P, a)
           s2 == SupplyCleared(s, b, P, a)
<1> SUFFICES ASSUME NEW p \in Position
             PROVE  b2[p] \in [Address -> Nat] /\ s2[p] \in Nat /\ s2[p] = TotalOf(b2[p])
  BY DEF Balanced, Cleared, SupplyCleared
<1>1. b[p] \in [Address -> Nat] /\ s[p] \in Nat /\ s[p] = TotalOf(b[p])
  BY DEF Balanced
<1>2. CASE p \in P
  <2>1. b[p][a] \in Nat /\ b[p][a] <= b[p][a]
    BY <1>1
  <2>2. Debit(b[p], a, b[p][a]) = [b[p] EXCEPT ![a] = 0]
    BY <1>1 DEF Debit
  <2>3. Debit(b[p], a, b[p][a]) \in [Address -> Nat]
    BY <1>1, <2>1, DebitType
  <2>4. /\ b[p][a] <= TotalOf(b[p])
        /\ TotalOf(Debit(b[p], a, b[p][a])) = TotalOf(b[p]) - b[p][a]
    BY <1>1, <2>1, DebitTotal
  <2> QED
    BY <1>1, <1>2, <2>1, <2>2, <2>3, <2>4 DEF Cleared, SupplyCleared
<1>3. CASE p \notin P
  BY <1>1, <1>3 DEF Cleared, SupplyCleared
<1> QED
  BY <1>2, <1>3

\* The collateral token's transfer.
LEMMA MoveType ==
    ASSUME NEW u \in [Address -> Nat], NEW a \in Address, NEW b \in Address,
           NEW n \in Nat, n <= u[a]
    PROVE  Move(u, a, b, n) \in [Address -> Nat]
BY DebitType, CreditType DEF Move

-----------------------------------------------------------------------------
(* Redemption *)

\* A collection one link below a parent is a position.
LEMMA ChildIsPosition ==
    ASSUME MaxDepth \in Nat, NEW parent \in Parents, NEW c \in Condition,
           NEW S \in SUBSET Slots(c), S # {}
    PROVE  Child(parent, c, S) \in Position
<1> DEFINE link  == <<c, S>>
           child == Append(parent, link)
<1>1. parent \in Collections /\ Len(parent) < MaxDepth
  BY DEF Parents
<1>2. PICK n \in 0..MaxDepth : parent \in [1..n -> Links]
  BY <1>1 DEF Collections
<1>3. parent \in Seq(Links)
  BY <1>2, SeqDef
<1>4. link \in Links
  <2>1. S \in (SUBSET Slots(c)) \ {{}}
    OBVIOUS
  <2>2. link \in {c} \X ((SUBSET Slots(c)) \ {{}})
    BY <2>1
  <2> QED
    BY <2>2 DEF Links
<1>5. child \in Seq(Links) /\ Len(child) = Len(parent) + 1
  BY <1>3, <1>4, AppendProperties
<1>6. Len(parent) \in Nat /\ child \in [1..(Len(parent) + 1) -> Links]
  BY <1>3, <1>5, LenProperties
<1>7. Len(parent) + 1 \in 0..MaxDepth
  BY <1>1, <1>6
<1>8. child # Root
  <2>1. Len(Root) = 0
    BY EmptySeq DEF Root
  <2> QED
    BY <1>5, <1>6, <2>1
<1>9. child \in Collections
  <2> HIDE DEF child
  <2> QED
    BY <1>6, <1>7 DEF Collections
<1> QED
  BY <1>8, <1>9 DEF Child, Position

\* What a list of index sets pays is a natural number.
LEMMA PayoutType ==
    ASSUME ConditionAssumption, CtfAssumption, IInv,
           NEW user \in Address, NEW parent \in Parents, NEW c \in Condition, Resolved(c),
           NEW sets \in SUBSET (SUBSET Slots(c)), \A S \in sets : S # {}
    PROVE  TotalOf([S \in sets |-> Payout(user, parent, c, S)]) \in Nat
<1>1. IsFiniteSet(Slots(c))
  <2>1. SlotCount[c] \in Int /\ 1 \in Int
    BY DEF ConditionAssumption
  <2> QED
    BY <2>1, FS_Interval DEF Slots
<1>2. IsFiniteSet(sets)
  BY <1>1, FS_SUBSET, FS_Subset
<1>3. ASSUME NEW S \in sets PROVE Payout(user, parent, c, S) \in Nat
  <2>1. balance[Child(parent, c, S)][user] \in Nat
    <3>1. S \in SUBSET Slots(c) /\ S # {} /\ MaxDepth \in Nat
      BY <1>3 DEF CtfAssumption
    <3>2. Child(parent, c, S) \in Position
      BY <3>1, ChildIsPosition
    <3> QED
      BY <3>2 DEF IInv, TypeOK
  <2>2. IsFiniteSet(S)
    BY <1>1, FS_Subset
  <2>3. [i \in S |-> numerators[c][i]] \in [S -> Nat]
    <3>1. numerators[c] \in Seq(Nat) /\ Len(numerators[c]) = SlotCount[c]
      BY DEF IInv, TypeOK, ConditionTypeOK, PayoutsMatchSlots
    <3> QED
      BY <3>1 DEF Slots
  <2>4. Numerator(c, S) \in Nat
    BY <2>2, <2>3, TotalType DEF Numerator
  <2>5. denominator[c] \in Nat \ {0}
    BY DEF IInv, TypeOK, ConditionTypeOK, Resolved
  <2>6. \A x, y \in Nat, d \in Nat \ {0} : (x * y) \div d \in Nat
    <3>1. \A x, y \in Nat : x * y \in Nat
      OBVIOUS
    <3>2. \A x \in Nat, d \in Nat \ {0} : x \div d \in Nat
      OBVIOUS
    <3> QED
      BY <3>1, <3>2
  <2> QED
    BY <2>1, <2>4, <2>5, <2>6 DEF Payout
<1> QED
  <2>1. [S \in sets |-> Payout(user, parent, c, S)] \in [sets -> Nat]
    BY <1>3
  <2> QED
    BY <1>2, <2>1, TotalType

-----------------------------------------------------------------------------
(* The handlers *)

\* A handler that changes only the ledgers keeps the invariant if it keeps the
\* ledgers typed and in agreement.
LEMMA LedgerStep ==
    ASSUME IInv, UNCHANGED <<conditionVars, accessVars>>,
           Balanced(balance', supply'), usdc' \in [Address -> Nat]
    PROVE  IInv'
BY DEF IInv, TypeOK, ConditionTypeOK, SupplyIsSumOfBalances, PayoutsMatchSlots,
       Balanced, conditionVars, accessVars, adminVars, AdminTypeOK, Resolved

LEMMA IInvBalanced ==
    ASSUME IInv
    PROVE  Balanced(balance, supply)
BY DEF IInv, TypeOK, SupplyIsSumOfBalances, Balanced

LEMMA InitIInv == ConditionAssumption /\ CtfAssumption /\ Init => IInv
<1> SUFFICES ASSUME ConditionAssumption, CtfAssumption, Init PROVE IInv
  OBVIOUS
<1> USE DEF Init, ConditionInit
<1>1. TypeOK
  <2>1. << >> \in Seq(Nat)
    BY EmptySeq
  <2>2. ConditionTypeOK
    BY <2>1 DEF ConditionTypeOK
  <2> QED
    BY <2>2 DEF TypeOK, CtfAssumption, AdminInit, AdminTypeOK
<1>2. SupplyIsSumOfBalances
  BY EmptyTotal DEF SupplyIsSumOfBalances
<1>3. PayoutsMatchSlots
  BY DEF PayoutsMatchSlots, Resolved
<1> QED
  BY <1>1, <1>2, <1>3 DEF IInv

\* Administration changes neither conditions nor ledgers.
LEMMA AccessStep ==
    ASSUME CtfAssumption, IInv, AccessNext
    PROVE  IInv'
<1>1. UNCHANGED <<conditionVars, ledgerVars>>
  BY DEF AccessNext, Administer, SetContract, adminVars
<1>2. /\ admin' \in Admins \cup {NoAddress}
      /\ isPaused' \in BOOLEAN
      /\ wiring' \in [Roles -> Address \cup {NoAddress}]
  BY DEF IInv, TypeOK, CtfAssumption, AccessNext, Administer, SetContract,
         AdminTypeOK, AdminNext, InitAdmin, HandOver, SetPaused, adminVars
<1> QED
  BY <1>1, <1>2 DEF IInv, TypeOK, ConditionTypeOK, SupplyIsSumOfBalances,
     PayoutsMatchSlots, conditionVars, ledgerVars, Resolved, AdminTypeOK

\* A condition is resolved with a vector of the right length.
LEMMA ConditionStep ==
    ASSUME ConditionAssumption, IInv, ConditionNext
    PROVE  IInv'
<1>1. UNCHANGED <<accessVars, ledgerVars>>
  BY DEF ConditionNext, Prepare, ReportPayouts, ReportPayoutsByCondition
<1>2. ConditionTypeOK' /\ PayoutsMatchSlots'
  <2>1. ASSUME NEW c \in Condition, PrepareCondition(c)
        PROVE  ConditionTypeOK' /\ PayoutsMatchSlots'
    BY <2>1 DEF IInv, TypeOK, ConditionTypeOK, PayoutsMatchSlots, PrepareCondition, Resolved
  <2>2. ASSUME NEW c \in Condition, NEW v \in Payouts, ApplyPayouts(c, v)
        PROVE  ConditionTypeOK' /\ PayoutsMatchSlots'
    <3>1. v \in Seq(Nat) /\ Len(v) = SlotCount[c]
      BY <2>2 DEF ConditionAssumption, ApplyPayouts
    <3>2. TotalOf(v) \in Nat
      <4>1. Len(v) \in Nat /\ v \in [1..Len(v) -> Nat]
        BY <3>1, LenProperties
      <4>2. IsFiniteSet(1..Len(v))
        BY <4>1, FS_Interval
      <4> QED
        BY <4>1, <4>2, TotalType
    <3> QED
      BY <2>2, <3>1, <3>2
      DEF IInv, TypeOK, ConditionTypeOK, PayoutsMatchSlots, ApplyPayouts, Resolved
  <2> QED
    BY <2>1, <2>2 DEF ConditionNext, Prepare, ReportPayouts, ReportPayoutsByCondition
<1> QED
  BY <1>1, <1>2 DEF IInv, TypeOK, SupplyIsSumOfBalances, accessVars, adminVars,
     AdminTypeOK, ledgerVars

\* A split burns the parent, if there is one, and mints each child.
LEMMA SplitStep ==
    ASSUME CtfAssumption, IInv,
           NEW user \in Address, NEW parent, NEW c, NEW partition, NEW n \in Nat,
           SplitPosition(user, parent, c, partition, n)
    PROVE  IInv'
<1> DEFINE children == Children(parent, c, partition)
           burnt    == IF parent = Root THEN {} ELSE {parent}
<1>1. IsFiniteSet(Address) /\ CtfContract \in Address
  BY DEF CtfAssumption
<1>2. Balanced(balance, supply)
  BY IInvBalanced
<1>3. \A p \in burnt \cap Position : n <= balance[p][user]
  BY DEF SplitPosition, CanBurn, IInv, TypeOK
<1>4. Balanced(Burned(balance, burnt, user, n), SupplyDown(supply, burnt, n))
  BY <1>1, <1>2, <1>3, BurnBalanced
<1>5. Balanced(balance', supply')
  <2>1. Balanced(Minted(Burned(balance, burnt, user, n), children, user, n),
                 SupplyUp(SupplyDown(supply, burnt, n), children, n))
    BY <1>1, <1>4, MintBalanced
  <2> QED
    BY <2>1 DEF SplitPosition
<1>6. usdc' \in [Address -> Nat]
  <2>1. usdc \in [Address -> Nat]
    BY DEF IInv, TypeOK
  <2>2. CASE parent = Root
    <3>1. n <= usdc[user] /\ usdc' = Move(usdc, user, CtfContract, n)
      BY <2>1, <2>2 DEF SplitPosition
    <3> QED
      BY <1>1, <2>1, <3>1, MoveType
  <2>3. CASE parent # Root
    BY <2>1, <2>3 DEF SplitPosition
  <2> QED
    BY <2>2, <2>3
<1>7. UNCHANGED <<conditionVars, accessVars>>
  BY DEF SplitPosition
<1> QED
  BY <1>5, <1>6, <1>7, LedgerStep

\* A merge burns each child and mints the parent, if there is one.
LEMMA MergeStep ==
    ASSUME CtfAssumption, IInv,
           NEW holder \in Address, NEW recipient \in Address,
           NEW parent, NEW c, NEW partition, NEW n \in Nat,
           MergeInternal(holder, recipient, parent, c, partition, n)
    PROVE  IInv'
<1> DEFINE children == Children(parent, c, partition)
           minted   == IF parent = Root THEN {} ELSE {parent}
<1>1. IsFiniteSet(Address) /\ CtfContract \in Address
  BY DEF CtfAssumption
<1>2. Balanced(balance, supply)
  BY IInvBalanced
<1>3. \A p \in children \cap Position : n <= balance[p][holder]
  BY DEF MergeInternal, CanBurn, IInv, TypeOK
<1>4. Balanced(Burned(balance, children, holder, n), SupplyDown(supply, children, n))
  BY <1>1, <1>2, <1>3, BurnBalanced
<1>5. Balanced(balance', supply')
  <2>1. Balanced(Minted(Burned(balance, children, holder, n), minted, recipient, n),
                 SupplyUp(SupplyDown(supply, children, n), minted, n))
    BY <1>1, <1>4, MintBalanced
  <2> QED
    BY <2>1 DEF MergeInternal
<1>6. usdc' \in [Address -> Nat]
  <2>1. usdc \in [Address -> Nat]
    BY DEF IInv, TypeOK
  <2>2. CASE parent = Root
    <3>1. n <= usdc[CtfContract] /\ usdc' = Move(usdc, CtfContract, recipient, n)
      BY <1>1, <2>1, <2>2 DEF MergeInternal
    <3> QED
      BY <1>1, <2>1, <3>1, MoveType
  <2>3. CASE parent # Root
    BY <2>1, <2>3 DEF MergeInternal
  <2> QED
    BY <2>2, <2>3
<1>7. UNCHANGED <<conditionVars, accessVars>>
  BY DEF MergeInternal
<1> QED
  BY <1>5, <1>6, <1>7, LedgerStep

\* A redemption clears the user's balance at each paid index set and, below the
\* root, mints the payout at the parent.
LEMMA RedeemStep ==
    ASSUME ConditionAssumption, CtfAssumption, IInv,
           NEW user \in Address, NEW parent \in Parents, NEW c \in Condition,
           NEW indexSets \in SUBSET (SUBSET Slots(c)),
           RedeemPositions(user, parent, c, indexSets)
    PROVE  IInv'
<1> DEFINE paid   == {S \in indexSets : Numerator(c, S) # 0}
           burnt  == Children(parent, c, paid)
           payout == TotalOf([S \in paid |-> Payout(user, parent, c, S)])
           minted == IF parent = Root THEN {} ELSE {parent}
           rest   == Cleared(balance, burnt, user)
           left   == SupplyCleared(supply, balance, burnt, user)
<1>1. IsFiniteSet(Address) /\ CtfContract \in Address
  BY DEF CtfAssumption
<1>2. Balanced(rest, left)
  <2>1. Balanced(balance, supply)
    BY IInvBalanced
  <2> HIDE DEF burnt
  <2> QED
    BY <1>1, <2>1, ClearBalanced
<1>3. payout \in Nat
  <2>1. Resolved(c) /\ \A S \in indexSets : S # {}
    BY DEF RedeemPositions
  <2>2. paid \in SUBSET (SUBSET Slots(c)) /\ \A S \in paid : S # {}
    BY <2>1
  <2> HIDE DEF paid
  <2> QED
    BY <2>1, <2>2, PayoutType, SMTT(30)
<1>4. Balanced(balance', supply')
  <2>1. /\ balance' = Minted(rest, minted, user, payout)
        /\ supply' = SupplyUp(left, minted, payout)
    BY DEF RedeemPositions
  <2> HIDE DEF rest, left, payout, minted
  <2> QED
    BY <1>1, <1>2, <1>3, <2>1, MintBalanced
<1>5. usdc' \in [Address -> Nat]
  <2>1. usdc \in [Address -> Nat]
    BY DEF IInv, TypeOK
  <2>2. CASE parent = Root
    <3>1. usdc[CtfContract] >= payout /\ usdc' = Move(usdc, CtfContract, user, payout)
      BY <2>2 DEF RedeemPositions
    <3> HIDE DEF payout
    <3>2. payout <= usdc[CtfContract]
      BY <1>1, <1>3, <2>1, <3>1
    <3> QED
      BY <1>1, <1>3, <2>1, <3>1, <3>2, MoveType
  <2>3. CASE parent # Root
    BY <2>1, <2>3 DEF RedeemPositions
  <2> QED
    BY <2>2, <2>3
<1>6. UNCHANGED <<conditionVars, accessVars>>
  BY DEF RedeemPositions
<1> QED
  BY <1>4, <1>5, <1>6, LedgerStep

\* A transfer burns and mints at one position.
LEMMA TransferStep ==
    ASSUME CtfAssumption, IInv,
           NEW from \in Address, NEW to \in Address, NEW p \in Position, NEW n \in Nat,
           TransferInternal(from, to, p, n)
    PROVE  IInv'
<1>1. IsFiniteSet(Address)
  BY DEF CtfAssumption
<1>2. \A q \in {p} \cap Position : n <= balance[q][from]
  BY DEF TransferInternal, CanBurn, IInv, TypeOK
<1>3. Balanced(Burned(balance, {p}, from, n), SupplyDown(supply, {p}, n))
  BY <1>1, <1>2, IInvBalanced, BurnBalanced
<1>4. Balanced(Minted(Burned(balance, {p}, from, n), {p}, to, n),
               SupplyUp(SupplyDown(supply, {p}, n), {p}, n))
  BY <1>1, <1>3, MintBalanced
<1>5. /\ Balanced(balance', supply')
      /\ UNCHANGED <<usdc, conditionVars, accessVars>>
  BY <1>4 DEF TransferInternal
<1>6. usdc' \in [Address -> Nat]
  BY <1>5 DEF IInv, TypeOK
<1> QED
  BY <1>5, <1>6, LedgerStep

\* The exchange's mints and burns.
LEMMA IssueStep ==
    ASSUME CtfAssumption, IInv,
           NEW user \in Address, NEW p \in Position, NEW n \in Nat,
           MintPosition(user, p, n) \/ BurnPosition(user, p, n)
    PROVE  IInv'
<1>1. IsFiniteSet(Address)
  BY DEF CtfAssumption
<1>2. Balanced(balance', supply')
  <2>1. CASE MintPosition(user, p, n)
    <3>1. Balanced(Minted(balance, {p}, user, n), SupplyUp(supply, {p}, n))
      BY <1>1, IInvBalanced, MintBalanced
    <3> QED
      BY <2>1, <3>1 DEF MintPosition
  <2>2. CASE BurnPosition(user, p, n)
    <3>1. \A q \in {p} \cap Position : n <= balance[q][user]
      BY <2>2 DEF BurnPosition, CanBurn, IInv, TypeOK
    <3>2. Balanced(Burned(balance, {p}, user, n), SupplyDown(supply, {p}, n))
      BY <1>1, <3>1, IInvBalanced, BurnBalanced
    <3> QED
      BY <2>2, <3>2 DEF BurnPosition
  <2> QED
    BY <2>1, <2>2
<1>3. UNCHANGED <<usdc, conditionVars, accessVars>>
  BY DEF MintPosition, BurnPosition
<1>4. usdc' \in [Address -> Nat]
  BY <1>3 DEF IInv, TypeOK
<1> QED
  BY <1>2, <1>3, <1>4, LedgerStep

\* A collateral transfer from one account to another.
LEMMA UsdcStep ==
    ASSUME CtfAssumption, IInv,
           NEW from \in Address, NEW to \in Address, NEW n \in Nat,
           TransferUsdc(from, to, n)
    PROVE  IInv'
<1>1. usdc \in [Address -> Nat]
  BY DEF IInv, TypeOK
<1>2. n <= usdc[from] /\ usdc' = Move(usdc, from, to, n)
  BY <1>1 DEF TransferUsdc
<1>3. usdc' \in [Address -> Nat]
  BY <1>1, <1>2, MoveType
<1>4. UNCHANGED <<balance, supply, conditionVars, accessVars>>
  BY DEF TransferUsdc
<1>5. Balanced(balance', supply')
  BY <1>4, IInvBalanced DEF Balanced
<1> QED
  BY <1>3, <1>4, <1>5, LedgerStep

-----------------------------------------------------------------------------
(* The theorems *)

\* The invariant is inductive: every disjunct of the next-state relation and
\* every stuttering step keeps it.
LEMMA NextIInv ==
    ASSUME ConditionAssumption, CtfAssumption, IInv, [Next]_vars
    PROVE  IInv'
<1>1. Actors \subseteq Address /\ Amounts \subseteq Nat /\ Issuees \subseteq Address
  BY DEF Actors, Amounts, CtfAssumption
<1>2. CASE AccessNext
  BY <1>2, AccessStep
<1>3. CASE ConditionNext
  BY <1>3, ConditionStep
<1>4. CASE SplitNext
  <2>1. PICK user \in Actors, parent \in Parents, c \in Condition, n \in Amounts :
           \E partition \in IndexSets(c) : SplitPosition(user, parent, c, partition, n)
    BY <1>4 DEF SplitNext, SplitPositionLm
  <2> QED
    BY <1>1, <2>1, SplitStep
<1>5. CASE MergeNext
  <2>1. PICK holder \in Actors, parent \in Parents, c \in Condition, n \in Amounts :
           \E partition \in IndexSets(c), recipient \in Address :
               MergeInternal(holder, recipient, parent, c, partition, n)
    BY <1>1, <1>5 DEF MergeNext, MergePositions, MergePositionsLm
  <2> QED
    BY <1>1, <2>1, MergeStep
<1>6. CASE RedeemNext
  <2>1. PICK user \in Actors, parent \in Parents, c \in Condition :
           \E indexSets \in SUBSET (SUBSET Slots(c)) :
               RedeemPositions(user, parent, c, indexSets)
    BY <1>6 DEF RedeemNext, IndexSets
  <2> QED
    BY <1>1, <2>1, RedeemStep
<1>7. CASE TransferNext
  <2>1. PICK from \in Actors, to \in Address, p \in Position, n \in Amounts :
           TransferInternal(from, to, p, n)
    BY <1>7 DEF TransferNext, TransferPosition, TransferPositionLm
  <2> QED
    BY <1>1, <2>1, TransferStep
<1>8. CASE IssueNext
  <2>1. PICK p \in Position, n \in Amounts :
           \E user \in Address : MintPosition(user, p, n) \/ BurnPosition(user, p, n)
    BY <1>1, <1>8 DEF IssueNext
  <2> QED
    BY <1>1, <2>1, IssueStep
<1>9. CASE UsdcNext
  <2>1. PICK from \in Actors, to \in Address, n \in Amounts : TransferUsdc(from, to, n)
    BY <1>9 DEF UsdcNext
  <2> QED
    BY <1>1, <2>1, UsdcStep
<1>10. CASE UNCHANGED vars
  BY <1>10 DEF vars, conditionVars, accessVars, adminVars, ledgerVars, IInv, TypeOK,
     ConditionTypeOK, AdminTypeOK,
     SupplyIsSumOfBalances, PayoutsMatchSlots, Resolved
<1> QED
  BY <1>2, <1>3, <1>4, <1>5, <1>6, <1>7, <1>8, <1>9, <1>10 DEF Next

\* The strengthened invariant holds of every behaviour.
THEOREM Invariance == Spec => []IInv
<1>1. Init => IInv
  BY ConditionAssumption, CtfAssumption, InitIInv
<1>2. IInv /\ [Next]_vars => IInv'
  BY ConditionAssumption, CtfAssumption, NextIInv
<1> QED
  BY <1>1, <1>2, PTL DEF Spec

\* Every variable keeps its type: in particular no subtraction of the contract
\* leaves the natural numbers, so no u128 underflow is ever attempted.
THEOREM TypeCorrect == Spec => []TypeOK
<1>1. IInv => TypeOK
  BY DEF IInv
<1> QED
  BY <1>1, Invariance, PTL

\* PositionSupply is always the sum of the PositionBalance entries, whatever the
\* conditions, holders, depth of nesting and amounts.
THEOREM SupplyAgreement == Spec => []SupplyIsSumOfBalances
<1>1. IInv => SupplyIsSumOfBalances
  BY DEF IInv
<1> QED
  BY <1>1, Invariance, PTL

\* The two panics of do_burn: the second, "Position supply underflow", can only be
\* met where the first, "Insufficient position balance", is met already.
SupplyPanicUnreachable ==
    \A p \in Position, a \in Address : balance[p][a] <= supply[p]

\* No holder ever has more of a position than its supply entry says exists.
THEOREM SupplyCoversHolders == Spec => []SupplyPanicUnreachable
<1>1. IInv => SupplyPanicUnreachable
  BY CtfAssumption, HolderBelowTotal
  DEF IInv, TypeOK, SupplyIsSumOfBalances, SupplyPanicUnreachable, CtfAssumption
<1> QED
  BY <1>1, Invariance, PTL

-----------------------------------------------------------------------------
(* The pause *)

\* What a step of the paused contract keeps.
Frozen ==
    /\ UNCHANGED <<balance, supply>>
    /\ usdc'[CtfContract] >= usdc[CtfContract]

\* Only administration, the registry of conditions and the collateral token itself
\* move while the contract is paused; the token takes nothing from the contract,
\* which signs no transfer of its own.
LEMMA PausedStep == ASSUME CtfAssumption, IInv, Next, isPaused PROVE Frozen
<1>1. usdc \in [Address -> Nat] /\ CtfContract \in Address
  BY DEF CtfAssumption, IInv, TypeOK
<1>2. CASE AccessNext
  BY <1>1, <1>2 DEF AccessNext, Administer, SetContract, ledgerVars, Frozen
<1>3. CASE ConditionNext
  BY <1>1, <1>3 DEF ConditionNext, Prepare, ReportPayouts, ReportPayoutsByCondition,
     ledgerVars, Frozen
<1>4. CASE UsdcNext
  <2> PICK from \in Actors, to \in Address, n \in Amounts : TransferUsdc(from, to, n)
    BY <1>4 DEF UsdcNext
  <2>1. n \in Nat /\ from \in Address /\ from # CtfContract
    BY DEF Amounts, Actors, CtfAssumption
  <2> QED
    BY <1>1, <2>1 DEF TransferUsdc, Move, Credit, Debit, Frozen
<1>5. CASE SplitNext
  BY <1>5 DEF SplitNext, SplitPosition, SplitPositionLm
<1>6. CASE MergeNext
  BY <1>6 DEF MergeNext, MergePositions, MergePositionsLm
<1>7. CASE RedeemNext
  BY <1>7 DEF RedeemNext, RedeemPositions
<1>8. CASE TransferNext
  BY <1>8 DEF TransferNext, TransferPosition, TransferPositionLm, TransferInternal
<1>9. CASE IssueNext
  BY <1>9 DEF IssueNext, MintPosition, BurnPosition
<1> QED
  BY <1>2, <1>3, <1>4, <1>5, <1>6, <1>7, <1>8, <1>9 DEF Next

\* While the contract is paused no position moves and no collateral leaves it,
\* through whichever handler and whoever is wired to call it.
THEOREM PauseFreezes == Spec => PauseFreezesPositions
<1> DEFINE A == isPaused => /\ UNCHANGED <<balance, supply>>
                            /\ usdc'[CtfContract] >= usdc[CtfContract]
<1>1. IInv /\ [Next]_vars => [A]_vars
  <2> SUFFICES ASSUME IInv, Next PROVE A
    OBVIOUS
  <2> QED
    BY CtfAssumption, PausedStep DEF Frozen
<1>2. [][A]_vars => PauseFreezesPositions
  BY PTL DEF PauseFreezesPositions
<1> HIDE DEF A
<1>3. Spec => [][A]_vars
  BY <1>1, Invariance, PTL DEF Spec
<1> QED
  BY <1>2, <1>3, PTL

-----------------------------------------------------------------------------
(* Finite sets of positions and of draws *)

LEMMA SlotsFinite ==
    ASSUME ConditionAssumption, NEW c \in Condition
    PROVE  IsFiniteSet(Slots(c))
<1>1. SlotCount[c] \in Int /\ 1 \in Int
  BY DEF ConditionAssumption
<1> QED
  BY <1>1, FS_Interval DEF Slots

\* Finitely many finite sets, by index.
LEMMA FamilyFinite ==
    ASSUME NEW I, IsFiniteSet(I), NEW F, DOMAIN F = I, \A i \in I : IsFiniteSet(F[i])
    PROVE  IsFiniteSet(UNION {F[i] : i \in I})
<1> DEFINE T == {F[i] : i \in I}
<1>1. [i \in I |-> F[i]] \in Surjection(I, T)
  BY DEF Surjection
<1>2. IsFiniteSet(T)
  BY <1>1, FS_Surjection
<1> QED
  BY <1>2, FS_UNION

LEMMA PositionsFinite ==
    ASSUME ConditionAssumption, CtfAssumption, SolvencyAssumption
    PROVE  IsFiniteSet(Position)
<1>1. IsFiniteSet(Links)
  <2> DEFINE F == [c \in Condition |-> {c} \X ((SUBSET Slots(c)) \ {{}})]
  <2>1. ASSUME NEW c \in Condition PROVE IsFiniteSet({c} \X ((SUBSET Slots(c)) \ {{}}))
    <3>1. IsFiniteSet(SUBSET Slots(c))
      BY SlotsFinite, FS_SUBSET
    <3>2. IsFiniteSet((SUBSET Slots(c)) \ {{}}) /\ IsFiniteSet({c})
      BY <3>1, FS_Subset, FS_Singleton
    <3> QED
      BY <3>2, FS_Product
  <2>2. DOMAIN F = Condition /\ \A c \in Condition : IsFiniteSet(F[c])
    BY <2>1
  <2>3. Links = UNION {F[c] : c \in Condition}
    BY DEF Links
  <2> HIDE DEF F
  <2> QED
    BY <2>2, <2>3, FamilyFinite DEF SolvencyAssumption
<1>2. IsFiniteSet(Collections)
  <2> DEFINE I == 0..MaxDepth
             F == [n \in I |-> [1..n -> Links]]
  <2>1. IsFiniteSet(I)
    BY FS_Interval DEF CtfAssumption
  <2>2. ASSUME NEW n \in I PROVE IsFiniteSet([1..n -> Links])
    <3>1. n \in Int /\ 1 \in Int
      OBVIOUS
    <3>2. IsFiniteSet(1..n)
      BY <3>1, FS_Interval
    <3> QED
      BY <1>1, <3>2, FunctionsFinite
  <2>3. DOMAIN F = I /\ \A n \in I : IsFiniteSet(F[n])
    BY <2>2
  <2>4. Collections = UNION {F[n] : n \in I}
    BY DEF Collections
  <2> HIDE DEF F, I
  <2> QED
    BY <2>1, <2>3, <2>4, FamilyFinite
<1> QED
  BY <1>2, FS_Subset DEF Position

\* A payout vector of a world.
LEMMA WorldType ==
    ASSUME ConditionAssumption, NEW w \in World, NEW c \in Condition
    PROVE  w[c] \in [1..Len(w[c]) -> Nat] /\ Len(w[c]) \in Nat /\ IsFiniteSet(1..Len(w[c]))
<1>1. w[c] \in Seq(Nat)
  BY DEF World, Shares, ConditionAssumption
<1>2. Len(w[c]) \in Nat /\ w[c] \in [1..Len(w[c]) -> Nat]
  BY <1>1, LenProperties
<1>3. IsFiniteSet(1..Len(w[c]))
  BY <1>2, FS_Interval
<1> QED
  BY <1>2, <1>3

LEMMA DrawsFinite ==
    ASSUME ConditionAssumption, CtfAssumption, SolvencyAssumption, NEW w \in World
    PROVE  IsFiniteSet(Draws(w))
<1> DEFINE F == [c \in Condition |-> Units(w[c])]
           drawn == UNION {Units(w[c]) : c \in Condition}
<1>1. \A c \in Condition : IsFiniteSet(Units(w[c]))
  BY WorldType, TotalType
<1>2. IsFiniteSet(drawn)
  <2>1. DOMAIN F = Condition /\ (\A c \in Condition : IsFiniteSet(F[c]))
    BY <1>1
  <2>2. drawn = UNION {F[c] : c \in Condition}
    OBVIOUS
  <2> HIDE DEF F, drawn
  <2> QED
    BY <2>1, <2>2, FamilyFinite DEF SolvencyAssumption
<1>3. IsFiniteSet(Levels)
  BY FS_Interval DEF Levels, CtfAssumption
<1>4. IsFiniteSet(Levels \X Condition)
  BY <1>3, FS_Product DEF SolvencyAssumption
<1>5. IsFiniteSet([Levels \X Condition -> drawn])
  BY <1>2, <1>4, FunctionsFinite
<1>6. Draws(w) \subseteq [Levels \X Condition -> drawn]
  BY DEF Draws
<1>7. PICK all : all = [Levels \X Condition -> drawn]
  OBVIOUS
<1>8. IsFiniteSet(all) /\ Draws(w) \in SUBSET all
  BY <1>5, <1>6, <1>7
<1> QED
  BY <1>8, FS_Subset

\* The draws that a collection wins.
Winners(w, q) == {d \in Draws(w) : Wins(d, q)}

LEMMA WorthType ==
    ASSUME ConditionAssumption, CtfAssumption, SolvencyAssumption,
           NEW w \in World, NEW q \in Collections
    PROVE  /\ IsFiniteSet(Winners(w, q))
           /\ Worth[w][q] = Cardinality(Winners(w, q))
           /\ Worth[w][q] \in Nat
<1>1. IsFiniteSet(Winners(w, q))
  BY DrawsFinite, FS_Subset DEF Winners
<1>2. Worth[w][q] = Cardinality(Winners(w, q))
  BY DEF Worth, Winners
<1> QED
  BY <1>1, <1>2, FS_CardinalityType

LEMMA PositionWorth ==
    ASSUME ConditionAssumption, CtfAssumption, SolvencyAssumption, NEW w \in World
    PROVE  /\ \A p \in Position : Worth[w][p] \in Nat
           /\ Worth[w][Root] \in Nat
<1>1. Root \in Collections
  <2>1. 0 \in 0..MaxDepth /\ << >> \in [1..0 -> Links]
    BY DEF CtfAssumption
  <2> QED
    BY <2>1 DEF Root, Collections
<1>2. Position \subseteq Collections
  BY DEF Position
<1> QED
  BY <1>1, <1>2, WorthType

-----------------------------------------------------------------------------
(* The children of a collection *)

LEMMA ParentType ==
    ASSUME CtfAssumption, NEW parent \in Parents
    PROVE  /\ parent \in Collections /\ parent \in Seq(Links)
           /\ Len(parent) \in Nat /\ DOMAIN parent = 1..Len(parent)
           /\ Len(parent) + 1 \in Levels
<1>1. parent \in Collections /\ Len(parent) < MaxDepth
  BY DEF Parents
<1>2. PICK n \in 0..MaxDepth : parent \in [1..n -> Links]
  BY <1>1 DEF Collections
<1>3. parent \in Seq(Links)
  BY <1>2, SeqDef
<1>4. Len(parent) \in Nat /\ DOMAIN parent = 1..Len(parent)
  BY <1>3, LenProperties
<1>5. Len(parent) + 1 \in Levels
  BY <1>1, <1>4 DEF Levels, CtfAssumption
<1> QED
  BY <1>1, <1>3, <1>4, <1>5

\* A draw wins a child when it wins the parent and draws a slot of the index set.
LEMMA ChildWins ==
    ASSUME CtfAssumption, NEW parent \in Parents, NEW c \in Condition,
           NEW S \in SUBSET Slots(c), S # {}, NEW d
    PROVE  Wins(d, Child(parent, c, S)) <=>
             Wins(d, parent) /\ d[<<Len(parent) + 1, c>>][1] \in S
<1> DEFINE link == <<c, S>>
           n == Len(parent)
<1>1. PICK q : q = Append(parent, link)
  OBVIOUS
<1>2. link \in Links
  <2>1. S \in (SUBSET Slots(c)) \ {{}}
    OBVIOUS
  <2>2. link \in {c} \X ((SUBSET Slots(c)) \ {{}})
    BY <2>1
  <2> QED
    BY <2>2 DEF Links
<1>3. /\ parent \in Seq(Links) /\ n \in Nat /\ DOMAIN parent = 1..n
  BY ParentType
<1>4. /\ q \in Seq(Links) /\ Len(q) = n + 1
      /\ \A i \in 1..n : q[i] = parent[i]
      /\ q[n + 1] = link
  BY <1>1, <1>2, <1>3, AppendProperties
<1>5. DOMAIN q = 1..(n + 1)
  BY <1>4, LenProperties
<1>6. q[n + 1][1] = c /\ q[n + 1][2] = S
  BY <1>4
<1> HIDE DEF link, n
<1>7. 1..(n + 1) = (1..n) \cup {n + 1}
  BY <1>3
<1>8. Wins(d, q) <=> Wins(d, parent) /\ d[<<n + 1, c>>][1] \in S
  <2> DEFINE At(k, r) == d[<<k, r[k][1]>>][1] \in r[k][2]
  <2>1. Wins(d, q) <=> \A k \in 1..(n + 1) : At(k, q)
    BY <1>5 DEF Wins
  <2>2. Wins(d, parent) <=> \A k \in 1..n : At(k, parent)
    BY <1>3 DEF Wins
  <2>3. \A k \in 1..n : At(k, q) <=> At(k, parent)
    BY <1>4
  <2>4. At(n + 1, q) <=> d[<<n + 1, c>>][1] \in S
    BY <1>6
  <2> HIDE DEF At
  <2> QED
    BY <1>7, <2>1, <2>2, <2>3, <2>4
<1> QED
  BY <1>1, <1>8 DEF Child, link, n

\* The slot drawn for a condition is one of its slots.
LEMMA DrawnSlot ==
    ASSUME ConditionAssumption, NEW w \in World, NEW d \in Draws(w),
           NEW k \in Levels, NEW c \in Condition
    PROVE  /\ d[<<k, c>>] \in Units(w[c])
           /\ d[<<k, c>>][1] \in 1..Len(w[c])
<1>1. d[<<k, c>>] \in Units(w[c])
  BY DEF Draws
<1>2. w[c] \in [1..Len(w[c]) -> Nat]
  BY WorldType
<1>3. PICK u : u = d[<<k, c>>]
  OBVIOUS
<1>4. PICK v : v = w[c]
  OBVIOUS
<1>5. u \in Units(v) /\ DOMAIN v = 1..Len(w[c])
  BY <1>1, <1>2, <1>3, <1>4
<1>6. u[1] \in DOMAIN v
  BY <1>5 DEF Units
<1> QED
  BY <1>1, <1>3, <1>5, <1>6

\* The children of a partition win together what their parent wins.
LEMMA ChildrenWorth ==
    ASSUME ConditionAssumption, CtfAssumption, SolvencyAssumption,
           NEW w \in World, NEW parent \in Parents, NEW c \in Condition,
           Len(w[c]) = SlotCount[c], NEW partition, ValidPartition(c, partition)
    PROVE  /\ Children(parent, c, partition) \subseteq Position
           /\ TotalOf([p \in Children(parent, c, partition) |-> Worth[w][p]]) = Worth[w][parent]
<1> DEFINE I == Children(parent, c, partition)
           F == [p \in I |-> Winners(w, p)]
           g == [p \in I |-> Worth[w][p]]
           all == Winners(w, parent)
           drawn(d) == d[<<Len(parent) + 1, c>>][1]
<1>1. /\ \A S \in partition : S # {} /\ S \in SUBSET Slots(c)
      /\ \A S, T \in partition : S # T => S \cap T = {}
      /\ UNION partition = Slots(c)
  BY DEF ValidPartition
<1>2. \A S \in partition : /\ Child(parent, c, S) \in Position
                           /\ Winners(w, Child(parent, c, S)) = {d \in all : drawn(d) \in S}
  <2> SUFFICES ASSUME NEW S \in partition
               PROVE  /\ Child(parent, c, S) \in Position
                      /\ Winners(w, Child(parent, c, S)) = {d \in all : drawn(d) \in S}
    OBVIOUS
  <2>1. S \in SUBSET Slots(c) /\ S # {} /\ MaxDepth \in Nat
    BY <1>1 DEF CtfAssumption
  <2>2. Child(parent, c, S) \in Position
    BY <2>1, ChildIsPosition
  <2>3. Winners(w, Child(parent, c, S)) =
          {d \in Winners(w, parent) : d[<<Len(parent) + 1, c>>][1] \in S}
    BY <2>1, ChildWins DEF Winners
  <2> QED
    BY <2>2, <2>3
<1>3. I = {Child(parent, c, S) : S \in partition}
  BY DEF Children
<1>4. \A p \in I : \E S \in partition :
        p = Child(parent, c, S) /\ p \in Position /\ F[p] = {d \in all : drawn(d) \in S}
  BY <1>2, <1>3
<1>5. \A d \in all : drawn(d) \in Slots(c)
  <2> SUFFICES ASSUME NEW d \in all PROVE drawn(d) \in Slots(c)
    OBVIOUS
  <2>1. d \in Draws(w) /\ Len(parent) + 1 \in Levels
    BY ParentType DEF Winners
  <2> QED
    BY <2>1, DrawnSlot DEF Slots
<1>6. /\ IsFiniteSet(all) /\ Worth[w][parent] = Cardinality(all)
      /\ \A p \in I : Worth[w][p] = Cardinality(F[p])
  <2>1. parent \in Collections /\ I \subseteq Collections
    BY <1>4, ParentType DEF Position
  <2> QED
    BY <2>1, WorthType
<1> HIDE DEF I, all, drawn
<1>7. \A p, q \in I : p # q => F[p] \cap F[q] = {}
  <2> SUFFICES ASSUME NEW p \in I, NEW q \in I, p # q PROVE F[p] \cap F[q] = {}
    OBVIOUS
  <2>1. PICK S \in partition : p = Child(parent, c, S) /\ F[p] = {d \in all : drawn(d) \in S}
    BY <1>4
  <2>2. PICK T \in partition : q = Child(parent, c, T) /\ F[q] = {d \in all : drawn(d) \in T}
    BY <1>4
  <2>3. S \cap T = {}
    BY <1>1, <2>1, <2>2
  <2> QED
    BY <2>1, <2>2, <2>3
<1>8. \A d \in all : \E p \in I : d \in F[p]
  <2> SUFFICES ASSUME NEW d \in all PROVE \E p \in I : d \in F[p]
    OBVIOUS
  <2>1. PICK S \in partition : drawn(d) \in S
    BY <1>1, <1>5
  <2>2. PICK p : p = Child(parent, c, S)
    OBVIOUS
  <2>3. p \in I /\ Winners(w, p) = {e \in all : drawn(e) \in S}
    BY <1>2, <1>3, <2>2
  <2> QED
    BY <2>1, <2>3
<1>9. Sizes(g, F, I, all)
  BY <1>4, <1>6, <1>7, <1>8 DEF Sizes
<1>10. TotalOf(g) = Worth[w][parent]
  BY <1>6, <1>9, TotalOfFamily
<1> QED
  BY <1>4, <1>10 DEF I

\* What a child is worth is its parent's worth times its share of the payout.
LEMMA ChildShare ==
    ASSUME ConditionAssumption, CtfAssumption, SolvencyAssumption,
           NEW w \in World, NEW parent \in Parents, NEW c \in Condition,
           Len(w[c]) = SlotCount[c], NEW S \in SUBSET Slots(c), S # {}
    PROVE  Worth[w][Child(parent, c, S)] * TotalOf(w[c]) =
             Worth[w][parent] * TotalOf([i \in S |-> w[c][i]])
<1>a. Winners(w, Child(parent, c, S)) =
        {d \in Winners(w, parent) : d[<<Len(parent) + 1, c>>][1] \in S}
  BY ChildWins DEF Winners
<1>b. Units([i \in S |-> w[c][i]]) = {u \in Units(w[c]) : u[1] \in S}
  <2>1. S \in SUBSET (1..Len(w[c])) /\ w[c] \in [1..Len(w[c]) -> Nat]
    BY WorldType DEF Slots
  <2>2. PICK v, D : v = w[c] /\ D = 1..Len(w[c])
    OBVIOUS
  <2>3. v \in [D -> Nat] /\ S \in SUBSET D
    BY <2>1, <2>2
  <2>4. Units([i \in S |-> v[i]]) = {u \in Units(v) : u[1] \in S}
    BY <2>3 DEF Units
  <2> QED
    BY <2>2, <2>4
<1> DEFINE n  == Len(parent) + 1
           A  == Winners(w, Child(parent, c, S))
           B  == Winners(w, parent)
           U  == Units(w[c])
           V  == Units([i \in S |-> w[c][i]])
           to == [y \in A \X U |-> <<[y[1] EXCEPT ![<<n, c>>] = y[2]], y[1][<<n, c>>]>>]
<1>1. V = {u \in U : u[1] \in S}
  BY <1>b
<1>2. A = {d \in B : d[<<n, c>>][1] \in S}
  BY <1>a
<1>3. \A d \in B : d[<<n, c>>] \in U
  <2>1. n \in Levels
    BY ParentType
  <2> QED
    BY <2>1, DrawnSlot DEF Winners
<1>4. \A d \in B : \A u \in U : [d EXCEPT ![<<n, c>>] = u] \in B
  <2> SUFFICES ASSUME NEW d \in B, NEW u \in U PROVE [d EXCEPT ![<<n, c>>] = u] \in B
    OBVIOUS
  <2>1. n \in Levels /\ DOMAIN parent = 1..Len(parent) /\ Len(parent) \in Nat
    BY ParentType
  <2>2. d \in Draws(w) /\ Wins(d, parent)
    BY DEF Winners
  <2>3. PICK e : e = [d EXCEPT ![<<n, c>>] = u]
    OBVIOUS
  <2>4. /\ d \in [Levels \X Condition -> UNION {Units(w[a]) : a \in Condition}]
        /\ \A k \in Levels, a \in Condition : d[<<k, a>>] \in Units(w[a])
    BY <2>2 DEF Draws
  <2>5. /\ e \in [Levels \X Condition -> UNION {Units(w[a]) : a \in Condition}]
        /\ \A x \in Levels \X Condition : x # <<n, c>> => e[x] = d[x]
        /\ e[<<n, c>>] = u
    BY <2>1, <2>3, <2>4
  <2>6. \A k \in Levels, a \in Condition : e[<<k, a>>] \in Units(w[a])
    BY <2>4, <2>5
  <2>7. Wins(e, parent)
    <3> SUFFICES ASSUME NEW k \in 1..Len(parent)
                 PROVE  e[<<k, parent[k][1]>>][1] \in parent[k][2]
      BY <2>1 DEF Wins
    <3>1. k # n /\ k \in Levels
      BY <2>1 DEF Levels, CtfAssumption
    <3>2. parent[k][1] \in Condition
      <4>1. parent[k] \in Links
        BY ParentType, ElementOfSeq
      <4> QED
        BY <4>1 DEF Links
    <3>3. <<k, parent[k][1]>> \in Levels \X Condition /\ <<k, parent[k][1]>> # <<n, c>>
      BY <3>1, <3>2
    <3>4. e[<<k, parent[k][1]>>] = d[<<k, parent[k][1]>>]
      BY <2>5, <3>3
    <3>5. d[<<k, parent[k][1]>>][1] \in parent[k][2]
      BY <2>1, <2>2 DEF Wins
    <3> QED
      BY <3>4, <3>5
  <2> QED
    BY <2>3, <2>5, <2>6, <2>7 DEF Winners, Draws
<1>5. /\ \A d \in B : <<n, c>> \in DOMAIN d
      /\ \A d, e \in B : DOMAIN d = DOMAIN e
      /\ \A d \in B : d = [x \in DOMAIN d |-> d[x]]
  <2>1. n \in Levels
    BY ParentType
  <2> QED
    BY <2>1 DEF Winners, Draws
<1>6. IsFiniteSet(A) /\ IsFiniteSet(B) /\ IsFiniteSet(U)
      /\ Worth[w][Child(parent, c, S)] = Cardinality(A)
      /\ Worth[w][parent] = Cardinality(B)
  <2>1. parent \in Collections /\ Child(parent, c, S) \in Collections
    BY ParentType, ChildIsPosition DEF Position, CtfAssumption
  <2>2. IsFiniteSet(U)
    BY WorldType, TotalType
  <2> QED
    BY <2>1, <2>2, WorthType
<1>7. IsFiniteSet(V)
  BY <1>1, <1>6, FS_Subset
<1> HIDE DEF A, B, U, V, n
<1>8. to \in Bijection(A \X U, B \X V)
  <2>1. to \in [A \X U -> B \X V]
    <3> SUFFICES ASSUME NEW d \in A, NEW u \in U
                 PROVE  [d EXCEPT ![<<n, c>>] = u] \in B /\ d[<<n, c>>] \in V
      OBVIOUS
    <3> QED
      BY <1>1, <1>2, <1>3, <1>4
  <2>2. ASSUME NEW x \in A \X U, NEW y \in A \X U, to[x] = to[y]
        PROVE  x = y
    <3>1. PICK d \in A, u \in U : x = <<d, u>>
      OBVIOUS
    <3>2. PICK e \in A, v \in U : y = <<e, v>>
      OBVIOUS
    <3>3. /\ [d EXCEPT ![<<n, c>>] = u] = [e EXCEPT ![<<n, c>>] = v]
          /\ d[<<n, c>>] = e[<<n, c>>]
      BY <2>2, <3>1, <3>2
    <3>4. /\ d \in B /\ e \in B /\ <<n, c>> \in DOMAIN d /\ DOMAIN e = DOMAIN d
          /\ d = [z \in DOMAIN d |-> d[z]] /\ e = [z \in DOMAIN d |-> e[z]]
      BY <1>2, <1>5
    <3>5. u = v /\ \A z \in DOMAIN d : z # <<n, c>> => d[z] = e[z]
      BY <3>3, <3>4
    <3>6. d = e
      BY <3>3, <3>4, <3>5
    <3> QED
      BY <3>1, <3>2, <3>5, <3>6
  <2>3. ASSUME NEW y \in B \X V PROVE \E x \in A \X U : to[x] = y
    <3>1. PICK d \in B, v \in V : y = <<d, v>>
      OBVIOUS
    <3>2. PICK e : e = [d EXCEPT ![<<n, c>>] = v]
      OBVIOUS
    <3>3. v \in U /\ v[1] \in S /\ d[<<n, c>>] \in U
      BY <1>1, <1>3, <3>1
    <3>4. e \in B /\ e[<<n, c>>] = v
      BY <1>4, <1>5, <3>1, <3>2, <3>3
    <3>5. e \in A
      BY <1>2, <3>3, <3>4
    <3>6. [e EXCEPT ![<<n, c>>] = d[<<n, c>>]] = d
      BY <1>5, <3>1, <3>2
    <3>7. <<e, d[<<n, c>>]>> \in A \X U
      BY <3>3, <3>5
    <3>8. to[<<e, d[<<n, c>>]>>] = <<d, v>>
      BY <3>4, <3>6, <3>7
    <3> QED
      BY <3>1, <3>7, <3>8
  <2> QED
    BY <2>1, <2>2, <2>3 DEF Bijection, Injection, IsInjective, Surjection
<1>9. Cardinality(A \X U) = Cardinality(B \X V)
  <2>1. ExistsBijection(A \X U, B \X V)
    BY <1>8 DEF ExistsBijection
  <2>2. IsFiniteSet(A \X U)
    BY <1>6, FS_Product
  <2> QED
    BY <2>1, <2>2, FS_Bijection
<1>10. /\ Cardinality(A \X U) = Cardinality(A) * Cardinality(U)
       /\ Cardinality(B \X V) = Cardinality(B) * Cardinality(V)
  BY <1>6, <1>7, FS_Product
<1>11. TotalOf(w[c]) = Cardinality(U) /\ TotalOf([i \in S |-> w[c][i]]) = Cardinality(V)
  BY DEF TotalOf, U, V
<1> QED
  BY <1>6, <1>9, <1>10, <1>11

-----------------------------------------------------------------------------
(* What is owed when supplies change *)

\* What is owed for supplies s when a position is worth W.
OwedBy(s, W) == TotalOf([p \in Position |-> s[p] * W[p]])

\* What the positions of P are worth together.
WorthOf(P, W) == TotalOf([p \in P |-> W[p]])

\* Supplies grow by f at the positions P, which are worth g.
Increased(s, t, P, f, g, W) ==
    /\ P \subseteq Position
    /\ s \in [Position -> Nat] /\ t \in [Position -> Nat] /\ f \in [P -> Nat]
    /\ \A p \in P : t[p] = s[p] + f[p]
    /\ \A p \in Position \ P : t[p] = s[p]
    /\ g = [p \in P |-> f[p] * W[p]]

LEMMA OwedIncreased ==
    ASSUME IsFiniteSet(Position), NEW W, \A p \in Position : W[p] \in Nat,
           NEW s, NEW t, NEW P, NEW f, NEW g, Increased(s, t, P, f, g, W)
    PROVE  /\ OwedBy(t, W) = OwedBy(s, W) + TotalOf(g)
           /\ OwedBy(s, W) \in Nat /\ TotalOf(g) \in Nat
<1> DEFINE old == [p \in Position |-> s[p] * W[p]]
           new == [p \in Position |-> t[p] * W[p]]
           more == [p \in Position |-> IF p \in P THEN f[p] * W[p] ELSE 0]
<1>1. /\ P \subseteq Position
      /\ s \in [Position -> Nat] /\ t \in [Position -> Nat] /\ f \in [P -> Nat]
      /\ \A p \in P : t[p] = s[p] + f[p]
      /\ \A p \in Position \ P : t[p] = s[p]
      /\ g = [p \in P |-> f[p] * W[p]]
  BY DEF Increased
<1>2. old \in [Position -> Nat] /\ new \in [Position -> Nat] /\ more \in [Position -> Nat]
  <2> SUFFICES ASSUME NEW p \in Position
               PROVE  /\ s[p] * W[p] \in Nat /\ t[p] * W[p] \in Nat
                      /\ p \in P => f[p] * W[p] \in Nat
    OBVIOUS
  <2>1. s[p] \in Nat /\ t[p] \in Nat /\ W[p] \in Nat /\ (p \in P => f[p] \in Nat)
    BY <1>1
  <2> QED
    BY <2>1, ProductType
<1>3. \A p \in Position : new[p] = old[p] + more[p]
  <2> SUFFICES ASSUME NEW p \in Position PROVE new[p] = old[p] + more[p]
    OBVIOUS
  <2>1. PICK a \in Nat, b \in Nat : a = s[p] /\ b = W[p]
    BY <1>1
  <2>2. CASE p \in P
    <3>1. PICK n \in Nat : n = f[p]
      BY <1>1, <2>2
    <3>2. t[p] = a + n
      BY <1>1, <2>1, <2>2, <3>1
    <3>3. (a + n) * b = a * b + n * b
      OBVIOUS
    <3> QED
      BY <2>1, <2>2, <3>1, <3>2, <3>3
  <2>3. CASE p \notin P
    <3>1. t[p] = a /\ a * b \in Nat
      BY <1>1, <2>1, <2>3, ProductType
    <3> QED
      BY <2>1, <2>3, <3>1
  <2> QED
    BY <2>2, <2>3
<1>4. /\ g \in [P -> Nat]
      /\ \A p \in P : g[p] = more[p]
      /\ \A p \in Position \ P : more[p] = 0
  BY <1>1, <1>2
<1> HIDE DEF old, new, more
<1>5. TotalOf(new) = TotalOf(old) + TotalOf(more)
  BY <1>2, <1>3, TotalAdded
<1>6. TotalOf(more) = TotalOf(g)
  <2>1. P \in SUBSET Position /\ more \in [Position -> Nat] /\ g \in [P -> Nat]
    BY <1>1, <1>2, <1>4
  <2> QED
    BY <1>4, <2>1, TotalRestricted
<1>7. TotalOf(old) \in Nat /\ TotalOf(more) \in Nat
  BY <1>2, TotalType
<1> QED
  BY <1>5, <1>6, <1>7 DEF OwedBy, old, new

\* n more of every position of P.
LEMMA OwedUp ==
    ASSUME IsFiniteSet(Position), NEW W, \A p \in Position : W[p] \in Nat,
           NEW s \in [Position -> Nat], NEW P \in SUBSET Position, NEW n \in Nat
    PROVE  /\ OwedBy(SupplyUp(s, P, n), W) = OwedBy(s, W) + n * WorthOf(P, W)
           /\ OwedBy(s, W) \in Nat /\ WorthOf(P, W) \in Nat
<1>1. PICK t : t = SupplyUp(s, P, n)
  OBVIOUS
<1>2. PICK f : f = [p \in P |-> n]
  OBVIOUS
<1>3. PICK g : g = [p \in P |-> f[p] * W[p]]
  OBVIOUS
<1>4. PICK v : v = [p \in P |-> W[p]]
  OBVIOUS
<1>5. v \in [P -> Nat] /\ f \in [P -> Nat]
  BY <1>2, <1>4
<1>6. \A p \in P : g[p] = n * v[p]
  BY <1>2, <1>3, <1>4
<1>7. g \in [P -> Nat]
  BY <1>3, <1>5, <1>6, ProductType
<1>8. Increased(s, t, P, f, g, W)
  BY <1>1, <1>2, <1>3, <1>5 DEF Increased, SupplyUp
<1>9. IsFiniteSet(P)
  BY FS_Subset
<1>10. TotalOf(g) = n * TotalOf(v)
  BY <1>5, <1>6, <1>7, <1>9, TotalScaled DEF Multiple
<1>11. TotalOf(v) \in Nat
  BY <1>5, <1>9, TotalType
<1> QED
  BY <1>1, <1>4, <1>8, <1>10, <1>11, OwedIncreased DEF WorthOf

\* n fewer of every position of P, where there are as many.
LEMMA OwedDown ==
    ASSUME IsFiniteSet(Position), NEW W, \A p \in Position : W[p] \in Nat,
           NEW s \in [Position -> Nat], NEW P \in SUBSET Position, NEW n \in Nat,
           \A p \in P : n <= s[p]
    PROVE  /\ OwedBy(s, W) = OwedBy(SupplyDown(s, P, n), W) + n * WorthOf(P, W)
           /\ OwedBy(SupplyDown(s, P, n), W) \in Nat /\ WorthOf(P, W) \in Nat
           /\ SupplyDown(s, P, n) \in [Position -> Nat]
<1>1. PICK t : t = SupplyDown(s, P, n)
  OBVIOUS
<1>2. t \in [Position -> Nat]
  BY <1>1 DEF SupplyDown
<1>3. SupplyUp(t, P, n) = s
  BY <1>1 DEF SupplyUp, SupplyDown
<1> QED
  BY <1>1, <1>2, <1>3, OwedUp

\* A holder's whole balance less of every position of P.
LEMMA OwedCleared ==
    ASSUME IsFiniteSet(Position), NEW W, \A p \in Position : W[p] \in Nat,
           NEW s \in [Position -> Nat], NEW b \in [Position -> [Address -> Nat]],
           NEW P \in SUBSET Position, NEW a \in Address,
           \A p \in P : b[p][a] <= s[p]
    PROVE  /\ OwedBy(s, W) = OwedBy(SupplyCleared(s, b, P, a), W)
                               + TotalOf([p \in P |-> b[p][a] * W[p]])
           /\ OwedBy(SupplyCleared(s, b, P, a), W) \in Nat
           /\ TotalOf([p \in P |-> b[p][a] * W[p]]) \in Nat
           /\ SupplyCleared(s, b, P, a) \in [Position -> Nat]
<1>1. PICK t : t = SupplyCleared(s, b, P, a)
  OBVIOUS
<1>2. PICK f : f = [p \in P |-> b[p][a]]
  OBVIOUS
<1>3. PICK g : g = [p \in P |-> f[p] * W[p]]
  OBVIOUS
<1>4. f \in [P -> Nat] /\ t \in [Position -> Nat]
  BY <1>1, <1>2 DEF SupplyCleared
<1>5. Increased(t, s, P, f, g, W)
  BY <1>1, <1>2, <1>3, <1>4 DEF Increased, SupplyCleared
<1>6. g = [p \in P |-> b[p][a] * W[p]]
  BY <1>2, <1>3
<1>7. /\ OwedBy(s, W) = OwedBy(t, W) + TotalOf(g)
      /\ OwedBy(t, W) \in Nat /\ TotalOf(g) \in Nat
  BY <1>5, OwedIncreased
<1> QED
  BY <1>1, <1>4, <1>6, <1>7

\* A position alone, and no position.
LEMMA WorthOfFew ==
    ASSUME NEW W, NEW q, W[q] \in Nat
    PROVE  WorthOf({q}, W) = W[q] /\ WorthOf({}, W) = 0
<1>1. IsFiniteSet({q}) /\ Cardinality({q}) = 1
  BY FS_Singleton
<1>2. [p \in {q} |-> W[p]] = [p \in {q} |-> W[q]]
  OBVIOUS
<1>3. TotalOf([p \in {q} |-> W[q]]) = 1 * W[q]
  BY <1>1, ConstTotal
<1>4. [p \in {} |-> W[p]] = [p \in {} |-> 0]
  OBVIOUS
<1>5. TotalOf([p \in {} |-> 0]) = 0
  BY EmptyTotal
<1> QED
  BY <1>2, <1>3, <1>4, <1>5 DEF WorthOf

-----------------------------------------------------------------------------
(* The margin: what is locked over what is owed *)

\* A resolved condition's denominator is the sum of its payouts.
PayoutsAreSums ==
    \A c \in Condition : Resolved(c) => denominator[c] = TotalOf(numerators[c])

\* What the constants are assumed to be.
Assumptions == ConditionAssumption /\ CtfAssumption /\ SolvencyAssumption

LEMMA WorldFits ==
    ASSUME IInv, NEW w \in Worlds, NEW c \in Condition
    PROVE  /\ w \in World /\ Len(w[c]) = SlotCount[c]
           /\ Resolved(c) => w[c] = numerators[c]
BY DEF IInv, PayoutsMatchSlots, Worlds, Shares

\* The step adds no more to what is owed in w than to what is locked.
MarginKept(w) == Owed(w)' + Locked(w) <= Owed(w) + Locked(w)'

\* A step takes what is owed from x + a to x + b, what is locked from y to z.
LEMMA MarginIs ==
    ASSUME NEW w, NEW W, W = Worth[w], NEW x \in Nat, NEW a \in Nat, NEW b \in Nat,
           OwedBy(supply, W) = x + a, OwedBy(supply', W) = x + b,
           NEW y \in Nat, y = usdc[CtfContract], NEW z \in Nat, z = usdc'[CtfContract],
           NEW r \in Nat, r = W[Root], b + y * r <= a + z * r
    PROVE  MarginKept(w)
<1>1. Owed(w) = x + a /\ Owed(w)' = x + b
  BY DEF Owed, OwedBy
<1>2. Locked(w) = y * r /\ Locked(w)' = z * r
  BY DEF Locked
<1>3. y * r \in Nat /\ z * r \in Nat
  BY ProductType
<1> QED
  BY <1>1, <1>2, <1>3 DEF MarginKept

LEMMA RootType ==
    ASSUME CtfAssumption
    PROVE  Root \in Collections /\ Root \notin Position
           /\ \A q \in Collections : q # Root => q \in Position
<1>1. 0 \in 0..MaxDepth /\ << >> \in [1..0 -> Links]
  BY DEF CtfAssumption
<1> QED
  BY <1>1 DEF Root, Collections, Position

\* The collateral that a payment to or from the contract leaves in it.
LEMMA MoveFunds ==
    ASSUME CtfAssumption, NEW u \in [Address -> Nat], NEW a \in Actors, NEW n \in Nat
    PROVE  /\ n <= u[a] => Move(u, a, CtfContract, n)[CtfContract] = u[CtfContract] + n
           /\ n <= u[CtfContract] =>
                Move(u, CtfContract, a, n)[CtfContract] = u[CtfContract] - n
<1>1. a \in Address /\ a # CtfContract /\ CtfContract \in Address
  BY DEF Actors, CtfAssumption
<1> QED
  BY <1>1 DEF Move, Credit, Debit

LEMMA SplitMargin ==
    ASSUME Assumptions, IInv, NEW w \in Worlds,
           NEW user \in Actors, NEW parent \in Parents, NEW c \in Condition, NEW n \in Nat,
           NEW partition, SplitPosition(user, parent, c, partition, n)
    PROVE  MarginKept(w)
<1> DEFINE P == Children(parent, c, partition)
           Q == IF parent = Root THEN {} ELSE {parent}
           down == SupplyDown(supply, Q, n)
           up == SupplyUp(down, P, n)
<1> USE DEF Assumptions
<1>1. PICK W : W = Worth[w]
  OBVIOUS
<1>2. w \in World /\ Len(w[c]) = SlotCount[c] /\ ValidPartition(c, partition)
  BY WorldFits DEF SplitPosition
<1>3. /\ IsFiniteSet(Position) /\ W[Root] \in Nat
      /\ \A p \in Position : W[p] \in Nat
  BY <1>1, <1>2, PositionsFinite, PositionWorth
<1>4. P \in SUBSET Position /\ WorthOf(P, W) = W[parent]
  <2>1. /\ Children(parent, c, partition) \subseteq Position
        /\ TotalOf([p \in Children(parent, c, partition) |-> Worth[w][p]]) = Worth[w][parent]
    BY <1>2, ChildrenWorth
  <2> QED
    BY <1>1, <2>1 DEF WorthOf
<1>5. Q \in SUBSET Position /\ (parent # Root => parent \in Position)
  BY ParentType, RootType
<1>6. supply \in [Position -> Nat] /\ usdc \in [Address -> Nat] /\ usdc[CtfContract] \in Nat
  BY DEF IInv, TypeOK, CtfAssumption
<1>7. /\ parent = Root => usdc[user] >= n
      /\ \A p \in Q : n <= supply[p]
      /\ usdc' = IF parent = Root THEN Move(usdc, user, CtfContract, n) ELSE usdc
      /\ supply' = up
  <2>1. parent # Root => CanBurn({parent}, user, n)
    BY DEF SplitPosition
  <2>2. parent # Root => n <= supply[parent]
    BY <1>5, <1>6, <2>1 DEF CanBurn
  <2> QED
    BY <2>2 DEF SplitPosition
<1>8. /\ OwedBy(supply, W) = OwedBy(down, W) + n * WorthOf(Q, W)
      /\ OwedBy(down, W) \in Nat /\ down \in [Position -> Nat]
  <2> HIDE DEF Q
  <2> QED
    BY <1>3, <1>5, <1>6, <1>7, OwedDown
<1>9. OwedBy(up, W) = OwedBy(down, W) + n * WorthOf(P, W)
  <2> HIDE DEF P, down
  <2> QED
    BY <1>3, <1>4, <1>8, OwedUp
<1>10. WorthOf(Q, W) = IF parent = Root THEN 0 ELSE W[parent]
  BY <1>3, <1>5, WorthOfFew
<1> HIDE DEF P, Q, down, up
<1>11. PICK y \in Nat, z \in Nat, r \in Nat, x \in Nat, m \in Nat :
         /\ y = usdc[CtfContract] /\ z = usdc'[CtfContract] /\ r = W[Root]
         /\ x = OwedBy(down, W) /\ m = W[parent]
         /\ z = IF parent = Root THEN y + n ELSE y
  <2>1. parent = Root => Move(usdc, user, CtfContract, n)[CtfContract] = usdc[CtfContract] + n
    BY <1>6, <1>7, MoveFunds
  <2>2. usdc'[CtfContract] = IF parent = Root THEN usdc[CtfContract] + n ELSE usdc[CtfContract]
    BY <1>7, <2>1
  <2>3. usdc'[CtfContract] \in Nat /\ W[parent] \in Nat /\ W[Root] \in Nat
    BY <1>3, <1>5, <1>6, <2>2
  <2> QED
    BY <1>6, <1>8, <2>2, <2>3
<1>12. CASE parent = Root
  <2>1. n * r \in Nat /\ m = r /\ z = y + n
    BY <1>11, <1>12, ProductType
  <2>2. OwedBy(supply, W) = x + 0 /\ OwedBy(supply', W) = x + n * r
    <3>1. n * 0 = 0
      OBVIOUS
    <3> QED
      BY <1>4, <1>7, <1>8, <1>9, <1>10, <1>11, <1>12, <2>1, <3>1
  <2>3. n * r + y * r <= 0 + z * r
    <3>1. (y + n) * r = y * r + n * r /\ y * r \in Nat
      BY ProductType
    <3> QED
      BY <2>1, <3>1
  <2> QED
    BY <1>1, <1>11, <2>1, <2>2, <2>3, MarginIs
<1>13. CASE parent # Root
  <2>1. n * m \in Nat /\ z = y
    BY <1>11, <1>13, ProductType
  <2>2. OwedBy(supply, W) = x + n * m /\ OwedBy(supply', W) = x + n * m
    BY <1>4, <1>7, <1>8, <1>9, <1>10, <1>11, <1>13
  <2>3. n * m + y * r <= n * m + z * r
    <3>1. y * r \in Nat
      BY ProductType
    <3> QED
      BY <2>1, <3>1
  <2> QED
    BY <1>1, <1>11, <2>1, <2>2, <2>3, MarginIs
<1> QED
  BY <1>12, <1>13

LEMMA MergeMargin ==
    ASSUME Assumptions, IInv, NEW w \in Worlds,
           NEW holder \in Actors, NEW recipient \in Address, NEW parent \in Parents,
           NEW c \in Condition, NEW n \in Nat, NEW partition,
           MergeInternal(holder, recipient, parent, c, partition, n)
    PROVE  MarginKept(w)
<1> DEFINE P == Children(parent, c, partition)
           Q == IF parent = Root THEN {} ELSE {parent}
           down == SupplyDown(supply, P, n)
           up == SupplyUp(down, Q, n)
<1> USE DEF Assumptions
<1>1. PICK W : W = Worth[w]
  OBVIOUS
<1>2. w \in World /\ Len(w[c]) = SlotCount[c] /\ ValidPartition(c, partition)
  BY WorldFits DEF MergeInternal
<1>3. /\ IsFiniteSet(Position) /\ W[Root] \in Nat
      /\ \A p \in Position : W[p] \in Nat
  BY <1>1, <1>2, PositionsFinite, PositionWorth
<1>4. P \in SUBSET Position /\ WorthOf(P, W) = W[parent]
  <2>1. /\ Children(parent, c, partition) \subseteq Position
        /\ TotalOf([p \in Children(parent, c, partition) |-> Worth[w][p]]) = Worth[w][parent]
    BY <1>2, ChildrenWorth
  <2> QED
    BY <1>1, <2>1 DEF WorthOf
<1>5. Q \in SUBSET Position /\ (parent # Root => parent \in Position)
  BY ParentType, RootType
<1>6. /\ supply \in [Position -> Nat] /\ usdc \in [Address -> Nat] /\ CtfContract \in Address
      /\ usdc[CtfContract] \in Nat
  BY DEF IInv, TypeOK, CtfAssumption
<1>7. /\ parent = Root => usdc[CtfContract] >= n
      /\ \A p \in P : n <= supply[p]
      /\ usdc' = IF parent = Root THEN Move(usdc, CtfContract, recipient, n) ELSE usdc
      /\ supply' = up
  <2>1. CanBurn(P, holder, n)
    BY DEF MergeInternal
  <2>2. \A p \in P : n <= supply[p]
    BY <1>4, <1>6, <2>1 DEF CanBurn
  <2> QED
    BY <2>2 DEF MergeInternal
<1>8. /\ OwedBy(supply, W) = OwedBy(down, W) + n * WorthOf(P, W)
      /\ OwedBy(down, W) \in Nat /\ down \in [Position -> Nat]
  <2> HIDE DEF P
  <2> QED
    BY <1>3, <1>4, <1>6, <1>7, OwedDown
<1>9. OwedBy(up, W) = OwedBy(down, W) + n * WorthOf(Q, W)
  <2> HIDE DEF Q, down
  <2> QED
    BY <1>3, <1>5, <1>8, OwedUp
<1>10. WorthOf(Q, W) = IF parent = Root THEN 0 ELSE W[parent]
  BY <1>3, <1>5, WorthOfFew
<1> HIDE DEF P, Q, down, up
<1>11. PICK y \in Nat, z \in Nat, r \in Nat, x \in Nat, m \in Nat :
         /\ y = usdc[CtfContract] /\ z = usdc'[CtfContract] /\ r = W[Root]
         /\ x = OwedBy(down, W) /\ m = W[parent]
         /\ parent = Root => y <= z + n
         /\ parent # Root => z = y
  <2>1. /\ parent = Root => /\ Move(usdc, CtfContract, recipient, n)[CtfContract] \in Nat
                            /\ usdc[CtfContract] <=
                                 Move(usdc, CtfContract, recipient, n)[CtfContract] + n
    BY <1>6, <1>7 DEF Move, Credit, Debit
  <2>2. usdc'[CtfContract] \in Nat /\ W[parent] \in Nat /\ W[Root] \in Nat
    BY <1>3, <1>5, <1>6, <1>7, <2>1
  <2> QED
    BY <1>6, <1>7, <1>8, <2>1, <2>2
<1>12. CASE parent = Root
  <2>1. n * r \in Nat /\ m = r /\ y <= z + n
    BY <1>11, <1>12, ProductType
  <2>2. OwedBy(supply, W) = x + n * r /\ OwedBy(supply', W) = x + 0
    <3>1. n * 0 = 0
      OBVIOUS
    <3> QED
      BY <1>4, <1>7, <1>8, <1>9, <1>10, <1>11, <1>12, <2>1, <3>1
  <2>3. 0 + y * r <= n * r + z * r
    <3>1. PICK k \in Nat : z + n = y + k
      BY <2>1
    <3>2. (z + n) * r = z * r + n * r /\ (y + k) * r = y * r + k * r
      OBVIOUS
    <3>3. y * r \in Nat /\ k * r \in Nat /\ z * r \in Nat /\ n * r \in Nat
      BY ProductType
    <3> QED
      BY <3>1, <3>2, <3>3
  <2> QED
    BY <1>1, <1>11, <2>1, <2>2, <2>3, MarginIs
<1>13. CASE parent # Root
  <2>1. n * m \in Nat /\ z = y
    BY <1>11, <1>13, ProductType
  <2>2. OwedBy(supply, W) = x + n * m /\ OwedBy(supply', W) = x + n * m
    BY <1>4, <1>7, <1>8, <1>9, <1>10, <1>11, <1>13
  <2>3. n * m + y * r <= n * m + z * r
    <3>1. y * r \in Nat
      BY ProductType
    <3> QED
      BY <2>1, <3>1
  <2> QED
    BY <1>1, <1>11, <2>1, <2>2, <2>3, MarginIs
<1> QED
  BY <1>12, <1>13

\* A step that leaves the contract's collateral alone, or adds to it, and lowers
\* no supply but to burn it.
LEMMA QuietMargin ==
    ASSUME Assumptions, IInv, NEW w \in Worlds, supply' = supply,
           usdc'[CtfContract] \in Nat, usdc'[CtfContract] >= usdc[CtfContract]
    PROVE  MarginKept(w)
<1> USE DEF Assumptions
<1>1. PICK W : W = Worth[w]
  OBVIOUS
<1>2. w \in World
  BY DEF Worlds
<1>3. /\ IsFiniteSet(Position) /\ W[Root] \in Nat
      /\ \A p \in Position : W[p] \in Nat
  BY <1>1, <1>2, PositionsFinite, PositionWorth
<1>4. supply \in [Position -> Nat] /\ usdc[CtfContract] \in Nat
  BY DEF IInv, TypeOK, CtfAssumption
<1>5. OwedBy(supply, W) \in Nat
  <2>1. {} \in SUBSET Position /\ 0 \in Nat
    OBVIOUS
  <2> QED
    BY <1>3, <1>4, <2>1, OwedUp
<1>6. PICK y \in Nat, z \in Nat, r \in Nat, x \in Nat :
         /\ y = usdc[CtfContract] /\ z = usdc'[CtfContract] /\ r = W[Root]
         /\ x = OwedBy(supply, W) /\ y <= z
  BY <1>3, <1>4, <1>5
<1>7. 0 + y * r <= 0 + z * r
  <2>1. PICK k \in Nat : z = y + k
    <3>1. z - y \in Nat /\ z = y + (z - y)
      BY <1>6
    <3> QED
      BY <3>1
  <2>2. (y + k) * r = y * r + k * r
    OBVIOUS
  <2>3. y * r \in Nat /\ k * r \in Nat
    BY ProductType
  <2> QED
    BY <2>1, <2>2, <2>3
<1>8. OwedBy(supply, W) = x + 0 /\ OwedBy(supply', W) = x + 0
  BY <1>6
<1> QED
  BY <1>1, <1>6, <1>7, <1>8, MarginIs

LEMMA BurnMargin ==
    ASSUME Assumptions, IInv, NEW w \in Worlds, NEW user \in Address, NEW p \in Position,
           NEW n \in Nat, BurnPosition(user, p, n)
    PROVE  MarginKept(w)
<1> USE DEF Assumptions
<1>1. PICK W : W = Worth[w]
  OBVIOUS
<1>2. w \in World
  BY DEF Worlds
<1>3. /\ IsFiniteSet(Position) /\ W[Root] \in Nat
      /\ \A q \in Position : W[q] \in Nat
  BY <1>1, <1>2, PositionsFinite, PositionWorth
<1>4. supply \in [Position -> Nat] /\ usdc[CtfContract] \in Nat
  BY DEF IInv, TypeOK, CtfAssumption
<1>5. supply' = SupplyDown(supply, {p}, n) /\ usdc' = usdc /\ n <= supply[p]
  BY <1>4 DEF BurnPosition, CanBurn
<1>6. {p} \in SUBSET Position /\ \A q \in {p} : n <= supply[q]
  BY <1>5
<1>7. /\ OwedBy(supply, W) = OwedBy(supply', W) + n * WorthOf({p}, W)
      /\ OwedBy(supply', W) \in Nat /\ WorthOf({p}, W) \in Nat
  BY <1>3, <1>4, <1>5, <1>6, OwedDown
<1>8. PICK y \in Nat, r \in Nat, x \in Nat, m \in Nat :
         /\ y = usdc[CtfContract] /\ r = W[Root]
         /\ x = OwedBy(supply', W) /\ m = n * WorthOf({p}, W)
  BY <1>3, <1>4, <1>7, ProductType
<1>9. OwedBy(supply, W) = x + m /\ OwedBy(supply', W) = x + 0
  BY <1>7, <1>8
<1>10. 0 + y * r <= m + y * r
  BY ProductType
<1> QED
  BY <1>1, <1>5, <1>8, <1>9, <1>10, MarginIs

\* A transfer burns and mints the same.
LEMMA TransferKeeps ==
    ASSUME IInv, NEW from, NEW to, NEW p \in Position, NEW n \in Nat,
           TransferInternal(from, to, p, n)
    PROVE  supply' = supply /\ usdc' = usdc
<1>1. supply \in [Position -> Nat]
  BY DEF IInv, TypeOK
<1>2. n <= supply[p]
  BY <1>1 DEF TransferInternal, CanBurn
<1>3. supply' = SupplyUp(SupplyDown(supply, {p}, n), {p}, n) /\ usdc' = usdc
  BY DEF TransferInternal
<1> QED
  BY <1>1, <1>2, <1>3 DEF SupplyUp, SupplyDown

LEMMA MintIssues ==
    ASSUME IInv, NEW user, NEW p \in Position, NEW n \in Nat, n # 0, MintPosition(user, p, n)
    PROVE  IssuedForNothing
<1>1. supply \in [Position -> Nat]
  BY DEF IInv, TypeOK
<1>2. supply' = SupplyUp(supply, {p}, n) /\ usdc' = usdc
  BY DEF MintPosition
<1>3. supply'[p] = supply[p] + n /\ \A q \in Position : supply'[q] >= supply[q]
  BY <1>1, <1>2 DEF SupplyUp
<1> QED
  BY <1>1, <1>2, <1>3 DEF IssuedForNothing

-----------------------------------------------------------------------------
(* The margin of a redemption *)

\* A payout rounded down is worth no more than what is burned for it.
LEMMA RoundingLoses ==
    ASSUME NEW b \in Nat, NEW n \in Nat, NEW d \in Nat \ {0}, NEW v \in Nat, NEW m \in Nat,
           v * d = m * n
    PROVE  m * ((b * n) \div d) <= b * v
<1>1. PICK bn \in Nat : bn = b * n
  BY ProductType
<1>2. PICK k \in Nat : k = bn \div d /\ k * d <= bn
  OBVIOUS
<1>3. m * (k * d) <= m * bn
  <2>1. PICK x \in Nat : x = k * d
    BY ProductType
  <2>2. PICK e \in Nat : bn = x + e
    <3>1. bn - x \in Nat /\ bn = x + (bn - x)
      BY <1>2, <2>1
    <3> QED
      BY <3>1
  <2>3. m * (x + e) = m * x + m * e /\ m * e \in Nat /\ m * x \in Nat
    BY ProductType
  <2> QED
    BY <2>1, <2>2, <2>3
<1>4. m * (k * d) = (m * k) * d
  OBVIOUS
<1>5. m * bn = (b * v) * d
  <2>1. m * bn = b * (m * n)
    BY <1>1
  <2>2. b * (v * d) = (b * v) * d
    OBVIOUS
  <2> QED
    BY <2>1, <2>2
<1>6. PICK p \in Nat, q \in Nat : p = m * k /\ q = b * v
  BY ProductType
<1>7. p * d <= q * d
  BY <1>3, <1>4, <1>5, <1>6
<1>8. p <= q
  <2> SUFFICES ASSUME q < p PROVE FALSE
    OBVIOUS
  <2>1. PICK e \in Nat : p = q + e /\ 1 <= e
    <3>1. p - q \in Nat /\ p = q + (p - q) /\ 1 <= p - q
      OBVIOUS
    <3> QED
      BY <3>1
  <2>2. (q + e) * d = q * d + e * d
    OBVIOUS
  <2>3. PICK z \in Nat, ed \in Nat : z = q * d /\ ed = e * d
    BY ProductType
  <2>4. 1 <= ed
    <3>1. e # 0 /\ d # 0
      BY <2>1
    <3> QED
      BY <2>3, <3>1
  <2> QED
    BY <1>7, <2>1, <2>2, <2>3, <2>4
<1> QED
  BY <1>1, <1>2, <1>6, <1>8

LEMMA ChildDiffers ==
    ASSUME CtfAssumption, NEW parent \in Parents, NEW c \in Condition,
           NEW S \in SUBSET Slots(c), S # {}, NEW T \in SUBSET Slots(c), T # {},
           Child(parent, c, S) = Child(parent, c, T)
    PROVE  S = T
<1>1. parent \in Seq(Links)
  BY ParentType
<1>2. ASSUME NEW R \in SUBSET Slots(c), R # {}
      PROVE  Append(parent, <<c, R>>)[Len(parent) + 1] = <<c, R>>
  <2>1. R \in (SUBSET Slots(c)) \ {{}}
    BY <1>2
  <2>2. <<c, R>> \in {c} \X ((SUBSET Slots(c)) \ {{}})
    BY <2>1
  <2>3. PICK link : link = <<c, R>>
    OBVIOUS
  <2>4. link \in Links
    BY <2>2, <2>3 DEF Links
  <2> QED
    BY <1>1, <2>3, <2>4, AppendProperties
<1>3. <<c, S>> = <<c, T>>
  BY <1>2 DEF Child
<1> QED
  BY <1>3

\* What index sets pay, at the parent's worth, is at most the worth of the balances
\* that are burned for them.
LEMMA PayoutBelowWorth ==
    ASSUME Assumptions, IInv, PayoutsAreSums, NEW w \in Worlds,
           NEW user \in Address, NEW parent \in Parents, NEW c \in Condition, Resolved(c),
           NEW sets \in SUBSET (SUBSET Slots(c)), \A S \in sets : S # {}
    PROVE  /\ Children(parent, c, sets) \in SUBSET Position
           /\ Worth[w][parent] * TotalOf([S \in sets |-> Payout(user, parent, c, S)]) <=
                TotalOf([p \in Children(parent, c, sets) |-> balance[p][user] * Worth[w][p]])
<1> USE DEF Assumptions
<1> DEFINE pay(S) == Payout(user, parent, c, S)
           bal(S) == balance[Child(parent, c, S)][user]
           val(S) == Worth[w][Child(parent, c, S)]
           P == Children(parent, c, sets)
<1>1. PICK m : m = Worth[w][parent]
  OBVIOUS
<1>2. w \in World /\ Len(w[c]) = SlotCount[c] /\ w[c] = numerators[c]
  BY WorldFits
<1>3. IsFiniteSet(sets)
  BY SlotsFinite, FS_SUBSET, FS_Subset
<1>4. m \in Nat
  BY <1>1, <1>2, ParentType, WorthType
<1>5. \A S \in sets : Child(parent, c, S) \in Position
  BY ChildIsPosition DEF CtfAssumption
<1>6. \A S \in sets : bal(S) \in Nat /\ val(S) \in Nat
  <2>1. balance \in [Position -> [Address -> Nat]]
    BY DEF IInv, TypeOK
  <2> QED
    BY <1>2, <1>5, <2>1, PositionWorth
<1>7. \A S \in sets : pay(S) \in Nat /\ m * pay(S) <= bal(S) * val(S)
  <2> SUFFICES ASSUME NEW S \in sets PROVE pay(S) \in Nat /\ m * pay(S) <= bal(S) * val(S)
    OBVIOUS
  <2>1. S \in SUBSET Slots(c) /\ S # {}
    OBVIOUS
  <2>2. denominator[c] \in Nat \ {0} /\ denominator[c] = TotalOf(w[c])
    BY <1>2 DEF PayoutsAreSums, Resolved, IInv, TypeOK, ConditionTypeOK
  <2>3. Numerator(c, S) = TotalOf([i \in S |-> w[c][i]])
    BY <1>2, Zenon DEF Numerator
  <2>4. Numerator(c, S) \in Nat
    <3>1. IsFiniteSet(S)
      BY SlotsFinite, FS_Subset
    <3>2. [i \in S |-> w[c][i]] \in [S -> Nat]
      BY <1>2, <2>1, WorldType DEF Slots
    <3> QED
      BY <2>3, <3>1, <3>2, TotalType
  <2>5. val(S) * denominator[c] = m * Numerator(c, S)
    BY <1>1, <1>2, <2>1, <2>2, <2>3, ChildShare
  <2>6. PICK b \in Nat, v \in Nat, d \in Nat \ {0}, n \in Nat :
          b = bal(S) /\ v = val(S) /\ d = denominator[c] /\ n = Numerator(c, S)
    BY <1>6, <2>2, <2>4
  <2>7. pay(S) = (b * n) \div d
    BY <2>6 DEF Payout
  <2>8. v * d = m * n
    BY <2>5, <2>6
  <2>9. (b * n) \div d \in Nat
    BY ProductType
  <2>10. m * ((b * n) \div d) <= b * v
    BY <1>4, <2>8, RoundingLoses
  <2> QED
    BY <2>6, <2>7, <2>9, <2>10
<1> HIDE DEF pay, bal, val
<1>8. PICK pays : pays = [S \in sets |-> pay(S)]
  OBVIOUS
<1>9. PICK scaled : scaled = [S \in sets |-> m * pays[S]]
  OBVIOUS
<1>10. PICK due : due = [S \in sets |-> bal(S) * val(S)]
  OBVIOUS
<1>11. pays \in [sets -> Nat] /\ scaled \in [sets -> Nat] /\ due \in [sets -> Nat]
  BY <1>4, <1>6, <1>7, <1>8, <1>9, <1>10, ProductType
<1>12. TotalOf(scaled) = m * TotalOf(pays)
  <2>1. Multiple(scaled, m, pays, sets)
    BY <1>9, <1>11 DEF Multiple
  <2> QED
    BY <1>3, <1>4, <2>1, TotalScaled
<1>13. TotalOf(scaled) <= TotalOf(due)
  <2>1. \A S \in sets : scaled[S] <= due[S]
    BY <1>7, <1>8, <1>9, <1>10
  <2> QED
    BY <1>3, <1>11, <2>1, TotalMonotone
<1>14. PICK burnt : burnt = [p \in P |-> balance[p][user] * Worth[w][p]]
  OBVIOUS
<1>15. PICK h : h = [S \in sets |-> Child(parent, c, S)]
  OBVIOUS
<1>16. TotalOf(due) = TotalOf(burnt)
  <2>1. h \in [sets -> P] /\ \A p \in P : \E S \in sets : h[S] = p
    BY <1>15 DEF Children
  <2>2. \A S, T \in sets : h[S] = h[T] => S = T
    BY <1>15, ChildDiffers
  <2>3. \A S \in sets : due[S] = burnt[h[S]]
    BY <1>10, <1>14, <1>15, <2>1 DEF bal, val
  <2>4. burnt \in [P -> Nat]
    <3>1. \A p \in P : burnt[p] \in Nat
      BY <1>11, <2>1, <2>3
    <3> QED
      BY <1>14, <3>1
  <2>5. Renamed(due, burnt, h, sets, P)
    BY <1>11, <2>1, <2>2, <2>3, <2>4 DEF Renamed
  <2> QED
    BY <1>3, <2>5, TotalRenamed
<1>17. P \in SUBSET Position
  BY <1>5 DEF Children
<1> QED
  BY <1>1, <1>8, <1>12, <1>13, <1>14, <1>16, <1>17 DEF pay

LEMMA RedeemMargin ==
    ASSUME Assumptions, IInv, PayoutsAreSums, NEW w \in Worlds,
           NEW user \in Actors, NEW parent \in Parents, NEW c \in Condition,
           NEW indexSets \in SUBSET (SUBSET Slots(c)),
           RedeemPositions(user, parent, c, indexSets)
    PROVE  MarginKept(w)
<1> USE DEF Assumptions
<1> DEFINE sets == {S \in indexSets : Numerator(c, S) # 0}
           P == Children(parent, c, sets)
           Q == IF parent = Root THEN {} ELSE {parent}
           pay == TotalOf([S \in sets |-> Payout(user, parent, c, S)])
           burnt == TotalOf([p \in P |-> balance[p][user] * Worth[w][p]])
           down == SupplyCleared(supply, balance, P, user)
           up == SupplyUp(down, Q, pay)
<1>1. PICK W : W = Worth[w]
  OBVIOUS
<1>2. w \in World
  BY DEF Worlds
<1>3. /\ IsFiniteSet(Position) /\ W[Root] \in Nat
      /\ \A p \in Position : W[p] \in Nat
  BY <1>1, <1>2, PositionsFinite, PositionWorth
<1>4. /\ Resolved(c) /\ sets \in SUBSET (SUBSET Slots(c)) /\ \A S \in sets : S # {}
      /\ \A p \in P : supply[p] >= balance[p][user]
  BY DEF RedeemPositions
<1>5. /\ parent = Root => /\ usdc[CtfContract] >= pay
                         /\ usdc' = Move(usdc, CtfContract, user, pay)
      /\ parent # Root => usdc' = usdc
      /\ supply' = up
  BY DEF RedeemPositions
<1>6. user \in Address
  BY DEF Actors
<1>7. /\ supply \in [Position -> Nat] /\ usdc \in [Address -> Nat]
      /\ balance \in [Position -> [Address -> Nat]]
      /\ CtfContract \in Address /\ usdc[CtfContract] \in Nat
  BY DEF IInv, TypeOK, CtfAssumption
<1>8. pay \in Nat
  <2> HIDE DEF sets, P
  <2>1. sets \in SUBSET (SUBSET Slots(c)) /\ Resolved(c) /\ \A S \in sets : S # {}
    BY <1>4
  <2> QED
    BY <1>6, <2>1, PayoutType, SMTT(30)
<1>9. P \in SUBSET Position /\ Worth[w][parent] * pay <= burnt
  <2> HIDE DEF sets
  <2> QED
    BY <1>4, <1>6, PayoutBelowWorth
<1>10. Q \in SUBSET Position /\ (parent # Root => parent \in Position)
  BY ParentType, RootType
<1> HIDE DEF sets
<1>11. \A p \in P : balance[p][user] <= supply[p]
  BY <1>4, <1>6, <1>7, <1>9
<1> HIDE DEF P, pay
<1>12. /\ OwedBy(supply, W) = OwedBy(down, W) + burnt
       /\ OwedBy(down, W) \in Nat /\ burnt \in Nat /\ down \in [Position -> Nat]
  <2>1. /\ OwedBy(supply, W) = OwedBy(SupplyCleared(supply, balance, P, user), W)
                                 + TotalOf([p \in P |-> balance[p][user] * W[p]])
        /\ OwedBy(SupplyCleared(supply, balance, P, user), W) \in Nat
        /\ TotalOf([p \in P |-> balance[p][user] * W[p]]) \in Nat
        /\ SupplyCleared(supply, balance, P, user) \in [Position -> Nat]
    BY <1>3, <1>6, <1>7, <1>9, <1>11, OwedCleared
  <2> QED
    BY <1>1, <2>1
<1> HIDE DEF burnt
<1>13. OwedBy(up, W) = OwedBy(down, W) + pay * WorthOf(Q, W)
  <2> HIDE DEF Q, down
  <2> QED
    BY <1>3, <1>8, <1>10, <1>12, OwedUp
<1>14. WorthOf(Q, W) = IF parent = Root THEN 0 ELSE W[parent]
  <2>1. WorthOf({parent}, W) = W[parent] /\ WorthOf({}, W) = 0
    BY <1>3, <1>10, WorthOfFew
  <2> QED
    BY <2>1
<1> HIDE DEF Q, down, up
<1>15. /\ W[parent] \in Nat
       /\ usdc'[CtfContract] \in Nat
       /\ parent = Root => usdc[CtfContract] = usdc'[CtfContract] + pay
       /\ parent # Root => usdc'[CtfContract] = usdc[CtfContract]
  <2>1. W[parent] \in Nat
    BY <1>3, <1>10
  <2>2. CASE parent = Root
    <3>1. pay <= usdc[CtfContract]
      BY <1>5, <1>7, <1>8, <2>2
    <3>2. Move(usdc, CtfContract, user, pay)[CtfContract] = usdc[CtfContract] - pay
      BY <1>7, <1>8, <3>1, MoveFunds
    <3>3. usdc'[CtfContract] = usdc[CtfContract] - pay
      BY <1>5, <2>2, <3>2
    <3> QED
      BY <1>7, <1>8, <2>1, <2>2, <3>1, <3>3
  <2>3. CASE parent # Root
    BY <1>5, <1>7, <2>1, <2>3
  <2> QED
    BY <2>2, <2>3
<1>16. PICK y \in Nat, z \in Nat, r \in Nat :
         /\ y = usdc[CtfContract] /\ z = usdc'[CtfContract] /\ r = W[Root]
         /\ parent = Root => y = z + pay
         /\ parent # Root => z = y
  BY <1>3, <1>7, <1>15
<1>17. PICK x \in Nat, m \in Nat, n \in Nat, g \in Nat :
         x = OwedBy(down, W) /\ m = W[parent] /\ n = pay /\ g = burnt
  BY <1>8, <1>12, <1>15
<1>18. m * n <= g /\ m * n \in Nat /\ n * m = m * n
  <2>1. m * n \in Nat /\ n * m = m * n
    BY ProductType
  <2>2. m * n <= g
    BY <1>1, <1>9, <1>17
  <2> QED
    BY <2>1, <2>2
<1>19. CASE parent = Root
  <2>1. m = r
    BY <1>16, <1>17, <1>19
  <2>2. OwedBy(supply, W) = x + g /\ OwedBy(supply', W) = x + 0
    <3>1. WorthOf(Q, W) = 0 /\ n * 0 = 0
      BY <1>14, <1>19
    <3>2. OwedBy(up, W) = x + 0
      BY <1>13, <1>17, <3>1
    <3> QED
      BY <1>5, <1>12, <1>17, <3>2
  <2>3. 0 + y * r <= g + z * r
    <3>1. (z + n) * r = z * r + n * r /\ z * r \in Nat
      BY ProductType
    <3>2. y = z + n /\ n * r <= g /\ n * r \in Nat
      BY <1>16, <1>17, <1>18, <1>19, <2>1
    <3> QED
      BY <3>1, <3>2
  <2> QED
    BY <1>1, <1>16, <1>17, <2>2, <2>3, MarginIs
<1>20. CASE parent # Root
  <2>1. OwedBy(supply, W) = x + g /\ OwedBy(supply', W) = x + n * m
    <3>1. WorthOf(Q, W) = m
      BY <1>14, <1>17, <1>20
    <3>2. OwedBy(up, W) = x + n * m
      BY <1>13, <1>17, <3>1
    <3> QED
      BY <1>5, <1>12, <1>17, <3>2
  <2>2. n * m + y * r <= g + z * r
    <3>1. y * r \in Nat /\ z = y
      BY <1>16, <1>17, <1>20, ProductType
    <3> QED
      BY <1>18, <3>1
  <2> QED
    BY <1>1, <1>16, <1>17, <1>18, <2>1, <2>2, MarginIs
<1> QED
  BY <1>19, <1>20

-----------------------------------------------------------------------------
(* The theorems on solvency *)

\* The invariant behind solvency.
SolvencyInv == IInv /\ PayoutsAreSums

LEMMA NothingReported ==
    ASSUME UNCHANGED conditionVars
    PROVE  (PayoutsAreSums => PayoutsAreSums') /\ Worlds' = Worlds
BY DEF conditionVars, PayoutsAreSums, Resolved, Worlds

LEMMA Reported ==
    ASSUME ConditionAssumption, IInv, PayoutsAreSums, ConditionNext
    PROVE  /\ UNCHANGED <<accessVars, ledgerVars>>
           /\ PayoutsAreSums'
           /\ \A w \in Worlds' : w \in Worlds
<1>1. UNCHANGED <<accessVars, ledgerVars>>
  BY DEF ConditionNext, Prepare, ReportPayouts, ReportPayoutsByCondition
<1>2. PayoutsAreSums' /\ \A w \in Worlds' : w \in Worlds
  <2>1. ASSUME NEW c \in Condition, PrepareCondition(c)
        PROVE  PayoutsAreSums' /\ \A w \in Worlds' : w \in Worlds
    <3>1. numerators' = numerators /\ denominator' = denominator
      BY <2>1 DEF PrepareCondition
    <3> QED
      BY <3>1 DEF PayoutsAreSums, Resolved, Worlds
  <2>2. ASSUME NEW c \in Condition, NEW v \in Payouts, ApplyPayouts(c, v)
        PROVE  PayoutsAreSums' /\ \A w \in Worlds' : w \in Worlds
    <3>1. numerators \in [Condition -> Seq(Nat)] /\ denominator \in [Condition -> Nat]
      BY DEF IInv, TypeOK, ConditionTypeOK
    <3>2. /\ ~Resolved(c) /\ Len(v) = SlotCount[c] /\ TotalOf(v) # 0
          /\ numerators'[c] = v /\ denominator'[c] = TotalOf(v)
          /\ \A d \in Condition : d # c =>
                numerators'[d] = numerators[d] /\ denominator'[d] = denominator[d]
      BY <2>2, <3>1 DEF ApplyPayouts
    <3>3. PayoutsAreSums'
      BY <3>2 DEF PayoutsAreSums, Resolved
    <3>4. ASSUME NEW w \in Worlds' PROVE w \in Worlds
      <4>1. w \in World
        BY DEF Worlds
      <4> SUFFICES ASSUME NEW d \in Condition
                   PROVE  w[d] \in IF Resolved(d) THEN {numerators[d]} ELSE Shares(d)
        BY <4>1 DEF Worlds
      <4>2. CASE d = c
        <5>1. w[c] = v
          BY <3>2 DEF Worlds, Resolved
        <5> QED
          BY <3>2, <4>2, <5>1 DEF Shares
      <4>3. CASE d # c
        BY <3>2, <4>3 DEF Worlds, Resolved
      <4> QED
        BY <4>2, <4>3
    <3> QED
      BY <3>3, <3>4
  <2> QED
    BY <2>1, <2>2 DEF ConditionNext, Prepare, ReportPayouts, ReportPayoutsByCondition
<1> QED
  BY <1>1, <1>2

\* Apart from mint_position, no handler lowers the margin in any world.
LEMMA NextMargin ==
    ASSUME Assumptions, SolvencyInv, Next
    PROVE  \/ Issuees # {} /\ IssuedForNothing
           \/ \A w \in Worlds : MarginKept(w)
<1> USE DEF SolvencyInv
<1>1. /\ Actors \subseteq Address /\ Amounts \subseteq Nat \ {0} /\ Issuees \subseteq Address
      /\ usdc \in [Address -> Nat] /\ CtfContract \in Address /\ usdc[CtfContract] \in Nat
  BY DEF Actors, Amounts, CtfAssumption, Assumptions, IInv, TypeOK
<1>2. CASE AccessNext
  <2>1. supply' = supply /\ usdc' = usdc
    BY <1>2 DEF AccessNext, Administer, SetContract, ledgerVars
  <2> QED
    BY <1>1, <2>1, QuietMargin
<1>3. CASE ConditionNext
  <2>1. supply' = supply /\ usdc' = usdc
    BY <1>3, Reported DEF ledgerVars, Assumptions
  <2> QED
    BY <1>1, <2>1, QuietMargin
<1>4. CASE SplitNext
  <2>1. PICK user \in Actors, parent \in Parents, c \in Condition, n \in Amounts :
           \E partition \in IndexSets(c) : SplitPosition(user, parent, c, partition, n)
    BY <1>4 DEF SplitNext, SplitPositionLm
  <2> QED
    BY <1>1, <2>1, SplitMargin
<1>5. CASE MergeNext
  <2>1. PICK holder \in Actors, parent \in Parents, c \in Condition, n \in Amounts :
           \E partition \in IndexSets(c), recipient \in Address :
               MergeInternal(holder, recipient, parent, c, partition, n)
    BY <1>1, <1>5 DEF MergeNext, MergePositions, MergePositionsLm
  <2> QED
    BY <1>1, <2>1, MergeMargin
<1>6. CASE RedeemNext
  <2>1. PICK user \in Actors, parent \in Parents, c \in Condition :
           \E indexSets \in SUBSET (SUBSET Slots(c)) :
               RedeemPositions(user, parent, c, indexSets)
    BY <1>6 DEF RedeemNext, IndexSets
  <2> QED
    BY <2>1, RedeemMargin
<1>7. CASE TransferNext
  <2>1. PICK from \in Actors, to \in Address, p \in Position, n \in Amounts :
           TransferInternal(from, to, p, n)
    BY <1>7 DEF TransferNext, TransferPosition, TransferPositionLm
  <2>2. supply' = supply /\ usdc' = usdc
    BY <1>1, <2>1, TransferKeeps
  <2> QED
    BY <1>1, <2>2, QuietMargin
<1>8. CASE IssueNext
  <2>1. PICK p \in Position, n \in Amounts :
           \/ \E user \in Issuees : MintPosition(user, p, n)
           \/ \E user \in Address : BurnPosition(user, p, n)
    BY <1>8 DEF IssueNext
  <2>2. CASE \E user \in Issuees : MintPosition(user, p, n)
    BY <1>1, <2>2, MintIssues
  <2>3. CASE \E user \in Address : BurnPosition(user, p, n)
    BY <1>1, <2>3, BurnMargin
  <2> QED
    BY <2>1, <2>2, <2>3
<1>9. CASE UsdcNext
  <2>1. PICK from \in Actors, to \in Address, n \in Amounts : TransferUsdc(from, to, n)
    BY <1>9 DEF UsdcNext
  <2>2. n \in Nat /\ from \in Address /\ from # CtfContract
    BY <1>1 DEF Actors
  <2>3. supply' = supply /\ usdc'[CtfContract] \in Nat /\ usdc'[CtfContract] >= usdc[CtfContract]
    BY <1>1, <2>1, <2>2 DEF TransferUsdc, Move, Credit, Debit
  <2> QED
    BY <2>3, QuietMargin
<1> QED
  BY <1>2, <1>3, <1>4, <1>5, <1>6, <1>7, <1>8, <1>9 DEF Next

LEMMA NextSolvencyInv ==
    ASSUME Assumptions, SolvencyInv, [Next]_vars
    PROVE  SolvencyInv' /\ \A w \in Worlds' : w \in Worlds
<1>1. IInv'
  BY NextIInv DEF Assumptions, SolvencyInv
<1>2. CASE ConditionNext
  BY <1>1, <1>2, Reported DEF Assumptions, SolvencyInv
<1>3. CASE ~ConditionNext
  <2>1. UNCHANGED conditionVars
    <3>1. CASE AccessNext
      BY <3>1 DEF AccessNext, Administer, SetContract
    <3>2. CASE SplitNext
      BY <3>2 DEF SplitNext, SplitPosition, SplitPositionLm
    <3>3. CASE MergeNext
      BY <3>3 DEF MergeNext, MergePositions, MergePositionsLm, MergeInternal
    <3>4. CASE RedeemNext
      BY <3>4 DEF RedeemNext, RedeemPositions
    <3>5. CASE TransferNext
      BY <3>5 DEF TransferNext, TransferPosition, TransferPositionLm, TransferInternal
    <3>6. CASE IssueNext
      BY <3>6 DEF IssueNext, MintPosition, BurnPosition
    <3>7. CASE UsdcNext
      BY <3>7 DEF UsdcNext, TransferUsdc
    <3>8. CASE UNCHANGED vars
      BY <3>8 DEF vars
    <3> QED
      BY <1>3, <3>1, <3>2, <3>3, <3>4, <3>5, <3>6, <3>7, <3>8 DEF Next
  <2> QED
    BY <1>1, <2>1, NothingReported DEF SolvencyInv
<1> QED
  BY <1>2, <1>3

LEMMA SolvencyInvariance == Spec => []SolvencyInv
<1>1. Init => SolvencyInv
  <2> SUFFICES ASSUME Init PROVE SolvencyInv
    OBVIOUS
  <2>1. IInv
    BY ConditionAssumption, CtfAssumption, InitIInv
  <2>2. PayoutsAreSums
    BY DEF Init, ConditionInit, PayoutsAreSums, Resolved
  <2> QED
    BY <2>1, <2>2 DEF SolvencyInv
<1>2. SolvencyInv /\ [Next]_vars => SolvencyInv'
  BY ConditionAssumption, CtfAssumption, SolvencyAssumption, NextSolvencyInv DEF Assumptions
<1> QED
  BY <1>1, <1>2, PTL DEF Spec

\* Of all the handlers only mint_position takes from what covers the positions, in
\* any world that is still possible: not a split or a merge at any depth, not the
\* rounding of a redemption, not a report.
THEOREM MarginKeeps == Spec => MarginFallsOnlyByMinting
<1> DEFINE A == IssuedForNothing \/ \A w \in Worlds :
                   (w \in Worlds)' => Owed(w)' + Locked(w) <= Owed(w) + Locked(w)'
<1>1. SolvencyInv /\ [Next]_vars => [A]_vars
  <2> SUFFICES ASSUME SolvencyInv, Next PROVE A
    OBVIOUS
  <2>1. IssuedForNothing \/ \A w \in Worlds : MarginKept(w)
    BY ConditionAssumption, CtfAssumption, SolvencyAssumption, NextMargin DEF Assumptions
  <2> QED
    BY <2>1 DEF MarginKept
<1>2. [][A]_vars => MarginFallsOnlyByMinting
  BY PTL DEF MarginFallsOnlyByMinting
<1> HIDE DEF A
<1>3. Spec => [][A]_vars
  BY <1>1, SolvencyInvariance, PTL DEF Spec
<1> QED
  BY <1>2, <1>3, PTL

\* As long as the exchange mints nothing, the contract can pay every position in
\* every world: for any conditions, payout vectors, holders, amounts and depth.
THEOREM Solvency ==
    ASSUME Issuees = {}
    PROVE  Spec => []Solvent
<1> DEFINE I == SolvencyInv /\ Solvent
<1>1. Init => Solvent
  <2> SUFFICES ASSUME Init, NEW w \in Worlds PROVE Owed(w) <= Locked(w)
    BY DEF Solvent
  <2>1. w \in World /\ CtfContract \in Address /\ Funding[CtfContract] \in Nat
    BY CtfAssumption DEF Worlds, CtfAssumption
  <2>2. PICK W : W = Worth[w]
    OBVIOUS
  <2>3. (\A p \in Position : W[p] \in Nat) /\ W[Root] \in Nat
    BY <2>1, <2>2, PositionWorth, ConditionAssumption, CtfAssumption, SolvencyAssumption
  <2>4. supply = [p \in Position |-> 0] /\ usdc = Funding
    BY DEF Init
  <2>5. [p \in Position |-> supply[p] * W[p]] = [p \in Position |-> 0]
    <3>1. \A k \in Nat : 0 * k = 0
      OBVIOUS
    <3> QED
      BY <2>3, <2>4, <3>1
  <2>6. Owed(w) = 0
    BY <2>2, <2>5, EmptyTotal DEF Owed
  <2>7. Locked(w) \in Nat
    BY <2>1, <2>2, <2>3, <2>4, ProductType DEF Locked
  <2> QED
    BY <2>6, <2>7
<1>2. SolvencyInv /\ Solvent /\ [Next]_vars => Solvent'
  <2> SUFFICES ASSUME SolvencyInv, Solvent, [Next]_vars PROVE Solvent'
    OBVIOUS
  <2>1. Assumptions
    BY ConditionAssumption, CtfAssumption, SolvencyAssumption DEF Assumptions
  <2>2. SolvencyInv' /\ \A w \in Worlds' : w \in Worlds
    BY <2>1, NextSolvencyInv
  <2>3. CASE Next
    <3> SUFFICES ASSUME NEW w \in Worlds' PROVE Owed(w)' <= Locked(w)'
      BY DEF Solvent
    <3>1. w \in Worlds
      BY <2>2
    <3>2. MarginKept(w)
      BY <2>1, <2>3, <3>1, NextMargin
    <3>3. Owed(w) <= Locked(w)
      BY <3>1 DEF Solvent
    <3>4. PICK a \in Nat, b \in Nat, x \in Nat, y \in Nat :
             a = Owed(w) /\ b = Locked(w) /\ x = Owed(w)' /\ y = Locked(w)'
      <4>1. PICK W : W = Worth[w]
        OBVIOUS
      <4>2. /\ IsFiniteSet(Position) /\ (\A p \in Position : W[p] \in Nat) /\ W[Root] \in Nat
        BY <2>1, <3>1, <4>1, PositionsFinite, PositionWorth DEF Assumptions, Worlds
      <4>3. /\ supply \in [Position -> Nat] /\ usdc \in [Address -> Nat]
            /\ supply' \in [Position -> Nat] /\ usdc' \in [Address -> Nat]
            /\ CtfContract \in Address
        BY <2>1, <2>2 DEF SolvencyInv, IInv, TypeOK, Assumptions, CtfAssumption
      <4>4. {} \in SUBSET Position /\ 0 \in Nat
        OBVIOUS
      <4>5. OwedBy(supply, W) \in Nat /\ OwedBy(supply', W) \in Nat
        BY <4>2, <4>3, <4>4, OwedUp
      <4>6. Owed(w) = OwedBy(supply, W) /\ Owed(w)' = OwedBy(supply', W)
        BY <4>1 DEF Owed, OwedBy
      <4>7. Locked(w) \in Nat /\ Locked(w)' \in Nat
        BY <4>1, <4>2, <4>3, ProductType DEF Locked
      <4> QED
        BY <4>5, <4>6, <4>7
    <3>5. x + b <= a + y
      BY <3>2, <3>4 DEF MarginKept
    <3> QED
      BY <3>3, <3>4, <3>5
  <2>4. CASE UNCHANGED vars
    BY <2>4 DEF vars, conditionVars, ledgerVars, Solvent, Worlds, Resolved, Owed, Locked
  <2> QED
    BY <2>3, <2>4
<1> QED
  BY <1>1, <1>2, SolvencyInvariance, PTL DEF Spec
=============================================================================
