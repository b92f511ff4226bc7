----------------------------- MODULE MarketProofs -----------------------------
(***************************************************************************)
(* The market registry and the backend's resolution workflow over it, for  *)
(* any conditions, accounts, events, requests in flight, windows and       *)
(* times.  Of the registry: type correctness, the agreement of every       *)
(* market with its proposal and with the CTF contract, the finality of     *)
(* resolutions, that it implements OptimisticOracle, and that a proposal   *)
(* that stood its window meets every check of its finalization.  Of the    *)
(* workflow: a decision is recorded once and only when the chain has taken *)
(* it; and while requests come one after the other, whatever writes are    *)
(* lost, the rows tell what the chain says.                                *)
(*                                                                         *)
(* The inductive invariant of the registry is one predicate, Listed, for   *)
(* each market: an action touches the entries of one condition, so Listed  *)
(* is proved for that one and carried over by the lemma ListedFrame for    *)
(* all the others.  The chain part of a step of the workflow is a step of  *)
(* the registry, so that invariant, IInv, comes along; TransactionEffect   *)
(* says what a transaction adds to it.                                     *)
(***************************************************************************)
EXTENDS ResolutionWorkflow, LedgerProofs, SequenceTheorems

\* What the entries of a market have to do with each other.
Listed(c) ==
    /\ c \in prepared
    /\ market[c].resolved <=> market[c].status = "Resolved"
    /\ market[c].resolved <=> c \in DOMAIN proposal /\ proposal[c].finalized
    /\ market[c].resolved => /\ proposal[c].outcome = market[c].winner
                             /\ numerators[c] = OneHot(c, market[c].winner)
                             /\ denominator[c] = 1
                             /\ market[c].winner \in 0..31
    /\ c \in DOMAIN proposal => market[c].status # "Open"
    /\ c \in DOMAIN proposal /\ ~market[c].resolved => now >= market[c].end
    /\ c \in DOMAIN proposal /\ ~proposal[c].finalized => ~IsRuling(proposal[c])

IInv ==
    /\ TypeOK
    /\ \A c \in prepared : SlotCount[c] \in 2..32
    /\ DOMAIN proposal \subseteq DOMAIN market
    /\ \A c \in DOMAIN market : Listed(c)
    /\ EventIndexAgrees

Assumptions == ConditionAssumption /\ MarketAssumption

-----------------------------------------------------------------------------
(* Storage maps *)

LEMMA PutMap ==
    ASSUME NEW S, NEW T, NEW f, IsMap(f, S, T), NEW k \in S, NEW v \in T
    PROVE  IsMap(Put(f, k, v), S, T)
BY DEF IsMap, Put

LEMMA MapEntry ==
    ASSUME NEW S, NEW T, NEW f, IsMap(f, S, T), NEW k \in DOMAIN f
    PROVE  k \in S /\ f[k] \in T
BY DEF IsMap

LEMMA EmptyMap == ASSUME NEW S, NEW T PROVE IsMap(Empty, S, T)
BY DEF IsMap, Empty

-----------------------------------------------------------------------------
(* Payouts *)

\* A reported vector leaves the registry of conditions well typed.
LEMMA ApplyPayoutsType ==
    ASSUME ConditionTypeOK, NEW c \in Condition, NEW v \in Seq(Nat), ApplyPayouts(c, v)
    PROVE  ConditionTypeOK'
<1>1. TotalOf(v) \in Nat
  <2>1. Len(v) \in Nat /\ v \in [1..Len(v) -> Nat]
    BY LenProperties
  <2>2. IsFiniteSet(1..Len(v))
    BY <2>1, FS_Interval
  <2> QED
    BY <2>1, <2>2, TotalType
<1> QED
  BY <1>1 DEF ConditionTypeOK, ApplyPayouts

\* The vector of a winning outcome is a payout vector, and sums to one.
LEMMA OneHotIs ==
    ASSUME NEW c, SlotCount[c] \in Nat, NEW w \in Outcomes(c)
    PROVE  OneHot(c, w) \in Seq(Nat) /\ TotalOf(OneHot(c, w)) = 1
<1> DEFINE v == OneHot(c, w)
           n == SlotCount[c]
<1>1. v \in [1..n -> Nat]
  BY DEF OneHot, Slots
<1>2. v \in Seq(Nat)
  BY <1>1, SeqDef
<1>3. w + 1 \in 1..n
  BY DEF Outcomes
<1>4. Units(v) = {<<w + 1, 1>>}
  <2>1. DOMAIN v = 1..n
    BY <1>1
  <2>2. \A i \in 1..n : i # w + 1 => {i} \X (1..v[i]) = {}
    BY DEF OneHot, Slots
  <2>3. v[w + 1] = 1
    BY <1>3 DEF OneHot, Slots
  <2>4. {w + 1} \X (1..v[w + 1]) = {<<w + 1, 1>>}
    BY <2>3
  <2> QED
    BY <1>3, <2>1, <2>2, <2>4 DEF Units
<1> QED
  BY <1>2, <1>4, FS_Singleton DEF TotalOf

-----------------------------------------------------------------------------
(* The frame: what an action that leaves a market's entries alone preserves. *)

\* The entries of c are as they were, and time has not run backwards.
Untouched(c) ==
    /\ market'[c] = market[c]
    /\ c \in DOMAIN proposal' <=> c \in DOMAIN proposal
    /\ c \in DOMAIN proposal => proposal'[c] = proposal[c]
    /\ numerators'[c] = numerators[c] /\ denominator'[c] = denominator[c]
    /\ prepared \subseteq prepared'
    /\ now' >= now

LEMMA ListedFrame ==
    ASSUME TypeOK, NEW c \in DOMAIN market, Listed(c), now' \in Time, Untouched(c),
           MarketAssumption
    PROVE  Listed(c)'
<1>1. market[c].end \in Nat /\ now \in Nat /\ now' \in Nat
  <2>1. market[c] \in MarketRecord
    BY MapEntry DEF TypeOK
  <2>2. Time \subseteq Nat
    BY DEF Time
  <2> QED
    BY <2>1, <2>2 DEF MarketRecord, TypeOK
<1>2. \A w : OneHot(c, w)' = OneHot(c, w)
  BY DEF OneHot
<1> QED
  BY <1>1, <1>2 DEF Listed, Untouched, IsRuling

\* An action on condition k that leaves the registry well typed, the entries of
\* the other markets alone and the market of k sound preserves the invariant.
LEMMA OneMarketStep ==
    ASSUME MarketAssumption, IInv, TypeOK', NEW k,
           \A c \in prepared' : SlotCount[c] \in 2..32,
           DOMAIN proposal' \subseteq DOMAIN market',
           DOMAIN market' \subseteq DOMAIN market \cup {k},
           \A c \in DOMAIN market : c # k => Untouched(c),
           k \in DOMAIN market' => Listed(k)',
           EventIndexAgrees'
    PROVE  IInv'
<1>1. ASSUME NEW c \in DOMAIN market' PROVE Listed(c)'
  <2>1. CASE c = k
    BY <2>1
  <2>2. CASE c # k
    BY <2>2, ListedFrame DEF IInv, TypeOK
  <2> QED
    BY <2>1, <2>2
<1> QED
  BY <1>1 DEF IInv

-----------------------------------------------------------------------------
(* The initial states *)

LEMMA InitIInv == Assumptions /\ Init => IInv
<1> SUFFICES ASSUME Assumptions, Init PROVE IInv
  OBVIOUS
<1>1. ConditionTypeOK
  BY DEF Init, ConditionInit, ConditionTypeOK
<1>2. AdminTypeOK
  BY DEF Init, AdminInit, AdminTypeOK
<1>3. now \in Time /\ window \in Nat \ {0}
  BY DEF Init, Time, Assumptions, MarketAssumption
<1>4. TypeOK
  BY <1>1, <1>2, <1>3, EmptyMap DEF Init, TypeOK
<1>5. prepared = {} /\ DOMAIN market = {} /\ DOMAIN proposal = {}
  BY DEF Init, ConditionInit, Empty
<1>6. EventIndexAgrees
  BY DEF Init, Empty, EventIndexAgrees
<1> QED
  BY <1>4, <1>5, <1>6 DEF IInv

-----------------------------------------------------------------------------
(* Administration and events: no market is touched. *)

LEMMA AdminType == ASSUME AdminTypeOK, AdminNext PROVE AdminTypeOK'
BY DEF AdminTypeOK, AdminNext, InitAdmin, HandOver, SetPaused

LEMMA QuietStep ==
    ASSUME MarketAssumption, IInv, TypeOK', UNCHANGED resolutionVars, now' >= now,
           EventIndexAgrees'
    PROVE  IInv'
<1>1. \A c \in DOMAIN market : Untouched(c)
  BY DEF resolutionVars, conditionVars, Untouched
<1>2. \A c \in DOMAIN market : Listed(c)'
  BY <1>1, ListedFrame DEF IInv, TypeOK
<1> QED
  BY <1>2 DEF IInv, resolutionVars, conditionVars

\* Events that are left alone stay right while markets are only added.
LEMMA IndexFrame ==
    ASSUME EventIndexAgrees, UNCHANGED eventVars, DOMAIN market \subseteq DOMAIN market'
    PROVE  EventIndexAgrees'
BY DEF EventIndexAgrees, eventVars

LEMMA AdministerStep == ASSUME MarketAssumption, IInv, Administer PROVE IInv'
<1>1. TypeOK'
  <2>1. AdminTypeOK'
    BY AdminType DEF Administer, IInv, TypeOK
  <2> QED
    BY <2>1 DEF Administer, IInv, TypeOK, ConditionTypeOK, resolutionVars,
       conditionVars, eventVars
<1> QED
  BY <1>1, QuietStep, IndexFrame DEF Administer, IInv, TypeOK, Time, resolutionVars

LEMMA SetWindowStep ==
    ASSUME MarketAssumption, IInv, NEW w \in Windows, SetResolutionDisputeWindow(w)
    PROVE  IInv'
<1>1. TypeOK'
  BY DEF SetResolutionDisputeWindow, MarketAssumption, IInv, TypeOK, ConditionTypeOK,
     AdminTypeOK, resolutionVars, conditionVars, adminVars, eventVars
<1> QED
  BY <1>1, QuietStep, IndexFrame
     DEF SetResolutionDisputeWindow, IInv, TypeOK, Time, resolutionVars

LEMMA MetadataStep ==
    ASSUME MarketAssumption, IInv, NEW c \in Condition, NEW hash \in Metadata,
           SetMarketMetadata(c, hash)
    PROVE  IInv'
<1>1. IsMap(metadata, Condition, Metadata)'
  BY PutMap DEF SetMarketMetadata, IInv, TypeOK
<1>2. TypeOK'
  BY <1>1 DEF SetMarketMetadata, IInv, TypeOK, ConditionTypeOK,
     AdminTypeOK, resolutionVars, conditionVars, adminVars, eventVars
<1> QED
  BY <1>2, QuietStep, IndexFrame
     DEF SetMarketMetadata, IInv, TypeOK, Time, resolutionVars

LEMMA CreateEventStep ==
    ASSUME MarketAssumption, IInv, NEW e \in Event, NEW negRisk \in BOOLEAN,
           CreateEvent(e, negRisk)
    PROVE  IInv'
<1>1. IsMap(event, Event, EventRecord)'
  <2>1. [negRisk |-> negRisk, count |-> 0, createdAt |-> now] \in EventRecord
    BY DEF EventRecord, IInv, TypeOK
  <2> QED
    BY <2>1, PutMap DEF CreateEvent, IInv, TypeOK
<1>2. IsMap(eventMarkets, Event, Seq(Condition))'
  <2>1. << >> \in Seq(Condition)
    BY EmptySeq
  <2> QED
    BY <2>1, PutMap DEF CreateEvent, IInv, TypeOK
<1>3. TypeOK'
  BY <1>1, <1>2 DEF CreateEvent, IInv, TypeOK, ConditionTypeOK, AdminTypeOK,
     resolutionVars, conditionVars, adminVars
<1>4. EventIndexAgrees'
  <2>1. /\ e \notin DOMAIN event /\ e \notin DOMAIN eventMarkets
        /\ UNCHANGED <<market, marketEvent>>
    BY DEF CreateEvent, resolutionVars, IInv, EventIndexAgrees
  <2>2. /\ DOMAIN event' = DOMAIN event \cup {e} /\ event'[e].count = 0
        /\ \A x \in DOMAIN event : event'[x] = event[x]
    BY <2>1 DEF Put, CreateEvent
  <2>3. /\ DOMAIN eventMarkets' = DOMAIN eventMarkets \cup {e}
        /\ eventMarkets'[e] = << >>
        /\ \A x \in DOMAIN eventMarkets : eventMarkets'[x] = eventMarkets[x]
    BY <2>1 DEF Put, CreateEvent
  <2>4. \A c \in DOMAIN marketEvent : marketEvent[c] # e
    <3> SUFFICES ASSUME NEW c \in DOMAIN marketEvent, marketEvent[c] = e PROVE FALSE
      OBVIOUS
    <3> QED
      BY <2>1 DEF IInv, EventIndexAgrees
  <2>5. Len(<< >>) = 0 /\ DOMAIN << >> = {}
    BY EmptySeq
  <2> QED
    BY <2>1, <2>2, <2>3, <2>4, <2>5 DEF IInv, EventIndexAgrees
<1> QED
  BY <1>3, <1>4, QuietStep DEF CreateEvent, IInv, TypeOK, Time

LEMMA TickStep == ASSUME MarketAssumption, IInv, Tick PROVE IInv'
<1>1. now' \in Time /\ now' >= now
  BY DEF Tick, MarketAssumption, IInv, TypeOK, Time
<1>2. TypeOK'
  BY <1>1 DEF Tick, IInv, TypeOK, ConditionTypeOK, AdminTypeOK,
     resolutionVars, conditionVars, adminVars, eventVars
<1> QED
  BY <1>1, <1>2, QuietStep, IndexFrame DEF Tick, IInv, resolutionVars

-----------------------------------------------------------------------------
(* Creation *)

\* set_market lists a condition that was not prepared, hence not a market and
\* without a proposal: it never overwrites one.
LEMMA SetMarketStep ==
    ASSUME MarketAssumption, IInv, NEW c \in Condition, NEW type \in MarketType,
           NEW end \in 0..MaxTime, SetMarket(c, type, end),
           IsMap(event, Event, EventRecord)',
           IsMap(eventMarkets, Event, Seq(Condition))',
           IsMap(marketEvent, Condition, Event)',
           DOMAIN market \subseteq DOMAIN market' => EventIndexAgrees'
    PROVE  IInv'
<1> DEFINE new == [end |-> end, type |-> type, status |-> "Open",
                   resolved |-> FALSE, winner |-> 0]
<1>1. c \notin prepared /\ SlotCount[c] \in 2..32 /\ prepared' = prepared \cup {c}
      /\ numerators' = numerators /\ denominator' = denominator
  BY DEF SetMarket, PrepareCondition
<1>2. c \notin DOMAIN market /\ c \notin DOMAIN proposal
  BY <1>1 DEF IInv, Listed
<1>3. market' = Put(market, c, new) /\ proposal' = proposal /\ now' = now
  BY DEF SetMarket
<1>4. end \in Time
  BY DEF Time, MarketAssumption
<1>5. new \in MarketRecord
  BY <1>4 DEF MarketRecord, MarketStatus
<1>6. IsMap(market, Condition, MarketRecord)'
  BY <1>3, <1>5, PutMap DEF IInv, TypeOK
<1>7. TypeOK'
  <2>1. ConditionTypeOK'
    BY <1>1 DEF IInv, TypeOK, ConditionTypeOK
  <2> QED
    BY <1>6, <2>1 DEF SetMarket, IInv, TypeOK, AdminTypeOK, adminVars
<1>8. DOMAIN market' = DOMAIN market \cup {c} /\ market'[c] = new
      /\ \A d \in DOMAIN market : market'[d] = market[d]
  BY <1>2, <1>3 DEF Put
<1>9. \A d \in DOMAIN market : Untouched(d)
  <2>1. now' = now /\ now \in Nat
    BY <1>3 DEF IInv, TypeOK, Time
  <2>2. \A d \in DOMAIN market : market'[d] = market[d]
    BY <1>8
  <2> HIDE DEF new
  <2> QED
    BY <1>1, <1>3, <2>1, <2>2 DEF Untouched
<1>10. Listed(c)'
  <2>1. c \in prepared' /\ c \notin DOMAIN proposal'
    BY <1>1, <1>2, <1>3
  <2>2. market'[c].resolved = FALSE /\ market'[c].status = "Open"
    BY <1>8
  <2> HIDE DEF new
  <2> QED
    BY <2>1, <2>2 DEF Listed
<1>11. \A d \in prepared' : SlotCount[d] \in 2..32
  BY <1>1 DEF IInv
<1>12. DOMAIN proposal' \subseteq DOMAIN market'
  BY <1>3, <1>8 DEF IInv
<1> QED
  BY <1>7, <1>8, <1>9, <1>10, <1>11, <1>12, OneMarketStep

LEMMA CreateMarketStep ==
    ASSUME MarketAssumption, IInv, NEW c \in Condition, NEW end \in 0..MaxTime,
           \/ CreateBinaryMarket(c, end)
           \/ CreateMultiOutcomeMarket(c, end)
           \/ CreateNegRiskMarket(c, end)
    PROVE  IInv'
<1>1. PICK type \in MarketType : SetMarket(c, type, end)
  BY DEF CreateBinaryMarket, CreateMultiOutcomeMarket, CreateNegRiskMarket, MarketType
<1>2. UNCHANGED eventVars
  BY DEF CreateBinaryMarket, CreateMultiOutcomeMarket, CreateNegRiskMarket
<1>3. /\ IsMap(event, Event, EventRecord)'
      /\ IsMap(eventMarkets, Event, Seq(Condition))'
      /\ IsMap(marketEvent, Condition, Event)'
  BY <1>2 DEF IInv, TypeOK, eventVars
<1> QED
  BY <1>1, <1>2, <1>3, SetMarketStep, IndexFrame DEF IInv

\* The part of EventIndexAgrees about one event.
IndexOf(e) ==
    /\ event[e].count = Len(eventMarkets[e])
    /\ \A i, j \in DOMAIN eventMarkets[e] :
           eventMarkets[e][i] = eventMarkets[e][j] => i = j
    /\ \A c \in Condition :
           (c \in DOMAIN marketEvent /\ marketEvent[c] = e)
               <=> \E i \in DOMAIN eventMarkets[e] : eventMarkets[e][i] = c

LEMMA CreateForEventStep ==
    ASSUME MarketAssumption, IInv, NEW c \in Condition, NEW end \in 0..MaxTime,
           NEW e \in Event, CreateBinaryMarketForEvent(e, c, end)
    PROVE  IInv'
<1>1. SetMarket(c, "Binary", end) /\ e \in DOMAIN event
  BY DEF CreateBinaryMarketForEvent
<1>2. IsMap(event, Event, EventRecord)'
  <2>1. event[e] \in EventRecord
    BY <1>1, MapEntry DEF IInv, TypeOK
  <2>2. [event[e] EXCEPT !.count = @ + 1] \in EventRecord
    BY <2>1 DEF EventRecord
  <2> QED
    BY <2>2, PutMap DEF CreateBinaryMarketForEvent, IInv, TypeOK
<1>3. IsMap(marketEvent, Condition, Event)'
  BY PutMap DEF CreateBinaryMarketForEvent, IInv, TypeOK
<1>4. e \in DOMAIN eventMarkets
  BY <1>1 DEF IInv, EventIndexAgrees
<1>5. eventMarkets[e] \in Seq(Condition)
  BY <1>4, MapEntry DEF IInv, TypeOK
<1>6. IsMap(eventMarkets, Event, Seq(Condition))'
  <2>1. Append(eventMarkets[e], c) \in Seq(Condition)
    BY <1>5, AppendProperties
  <2> QED
    BY <2>1, PutMap DEF CreateBinaryMarketForEvent, IInv, TypeOK
<1>7. c \in DOMAIN market' /\ c \notin DOMAIN market
  BY <1>1 DEF Put, SetMarket, PrepareCondition, IInv, Listed
<1>8. ASSUME DOMAIN market \subseteq DOMAIN market' PROVE EventIndexAgrees'
  <2> DEFINE old == eventMarkets[e]
             new == Append(old, c)
  <2>1. /\ DOMAIN event' = DOMAIN event
        /\ event'[e] = [event[e] EXCEPT !.count = @ + 1]
        /\ \A x \in DOMAIN event : x # e => event'[x] = event[x]
    BY <1>1 DEF Put, CreateBinaryMarketForEvent
  <2>2. /\ DOMAIN eventMarkets' = DOMAIN eventMarkets
        /\ eventMarkets'[e] = new
        /\ \A x \in DOMAIN eventMarkets : x # e => eventMarkets'[x] = eventMarkets[x]
    BY <1>4 DEF Put, CreateBinaryMarketForEvent
  <2>3. /\ DOMAIN marketEvent' = DOMAIN marketEvent \cup {c}
        /\ marketEvent'[c] = e
        /\ \A x \in DOMAIN marketEvent : x # c => marketEvent'[x] = marketEvent[x]
    BY DEF Put, CreateBinaryMarketForEvent
  <2>4. /\ Len(new) = Len(old) + 1 /\ Len(old) \in Nat
        /\ DOMAIN old = 1..Len(old) /\ DOMAIN new = 1..(Len(old) + 1)
        /\ new[Len(old) + 1] = c
        /\ \A i \in DOMAIN old : new[i] = old[i]
    BY <1>5, AppendProperties, LenProperties
  <2>5. c \notin DOMAIN marketEvent
    BY <1>7 DEF IInv, EventIndexAgrees
  <2>6. \A x \in DOMAIN event : \A i \in DOMAIN eventMarkets[x] :
            eventMarkets[x][i] # c
    BY <2>5 DEF IInv, EventIndexAgrees
  <2>7. ASSUME NEW x \in DOMAIN event, x # e
        PROVE  IndexOf(x)'
    <3>1. IndexOf(x)
      BY DEF IInv, EventIndexAgrees, IndexOf
    <3>2. event'[x] = event[x] /\ eventMarkets'[x] = eventMarkets[x]
      BY <2>1, <2>2, <2>7 DEF IInv, EventIndexAgrees
    <3>3. \A d \in Condition : (d \in DOMAIN marketEvent' /\ marketEvent'[d] = x)
                                  <=> (d \in DOMAIN marketEvent /\ marketEvent[d] = x)
      BY <2>3, <2>5, <2>7
    <3> QED
      BY <3>1, <3>2, <3>3 DEF IndexOf
  <2>8. IndexOf(e)'
    <3>1. IndexOf(e)
      BY <1>1 DEF IInv, EventIndexAgrees, IndexOf
    <3>2. event'[e].count = Len(new)
      <4>1. event[e] \in EventRecord
        BY <1>1, MapEntry DEF IInv, TypeOK
      <4> QED
        BY <2>1, <2>4, <3>1, <4>1 DEF EventRecord, IndexOf
    <3>3. \A i, j \in DOMAIN new : new[i] = new[j] => i = j
      <4>1. \A i \in DOMAIN old : new[i] = old[i] /\ old[i] # c
        BY <1>1, <2>4, <2>6
      <4>2. \A i \in DOMAIN new : i \in DOMAIN old \/ i = Len(old) + 1
        BY <2>4
      <4> HIDE DEF new, old
      <4> QED
        BY <2>4, <3>1, <4>1, <4>2 DEF IndexOf, old
    <3>4. \A d \in Condition : (d \in DOMAIN marketEvent' /\ marketEvent'[d] = e)
                                  <=> \E i \in DOMAIN new : new[i] = d
      <4> SUFFICES ASSUME NEW d \in Condition
                   PROVE  (d \in DOMAIN marketEvent' /\ marketEvent'[d] = e)
                             <=> \E i \in DOMAIN new : new[i] = d
        OBVIOUS
      <4>1. CASE d = c
        BY <2>3, <2>4, <4>1
      <4>2. CASE d # c
        <5>1. (\E i \in DOMAIN new : new[i] = d) <=> (\E i \in DOMAIN old : old[i] = d)
          <6>1. \A i \in DOMAIN new : i \in DOMAIN old \/ i = Len(old) + 1
            BY <2>4
          <6>2. DOMAIN old \subseteq DOMAIN new
            BY <2>4
          <6> HIDE DEF new, old
          <6> QED
            BY <2>4, <4>2, <6>1, <6>2
        <5> QED
          BY <2>3, <3>1, <4>2, <5>1 DEF IndexOf
      <4> QED
        BY <4>1, <4>2
    <3> QED
      BY <2>2, <3>2, <3>3, <3>4 DEF IndexOf
  <2>9. \A d \in DOMAIN marketEvent' : d \in DOMAIN market' /\ marketEvent'[d] \in DOMAIN event'
    BY <1>1, <1>7, <1>8, <2>1, <2>3 DEF IInv, EventIndexAgrees
  <2> QED
    <3>1. DOMAIN eventMarkets' = DOMAIN event'
      BY <2>1, <2>2 DEF IInv, EventIndexAgrees
    <3>2. \A x \in DOMAIN event' : IndexOf(x)'
      BY <2>1, <2>7, <2>8
    <3> QED
      BY <2>9, <3>1, <3>2 DEF EventIndexAgrees, IndexOf
<1> QED
  BY <1>1, <1>2, <1>3, <1>6, <1>8, SetMarketStep DEF MarketType

-----------------------------------------------------------------------------
(* Trading status and resolution *)

\* What the steps below have in common: condition k is a market before and after,
\* events and administration are left alone, and only the entries of k change.
LEMMA ResolutionStep ==
    ASSUME MarketAssumption, IInv, NEW k \in DOMAIN market,
           NEW m \in MarketRecord, market' = Put(market, k, m),
           IsMap(proposal, Condition, ProposalRecord)',
           DOMAIN proposal' \subseteq DOMAIN proposal \cup {k},
           DOMAIN proposal \subseteq DOMAIN proposal',
           \A c \in DOMAIN proposal : c # k => proposal'[c] = proposal[c],
           ConditionTypeOK', UNCHANGED prepared,
           \A c \in Condition : c # k => /\ numerators'[c] = numerators[c]
                                         /\ denominator'[c] = denominator[c],
           UNCHANGED <<adminVars, window, eventVars, metadata, now>>,
           Listed(k)'
    PROVE  IInv'
<1>1. k \in Condition /\ IsMap(market, Condition, MarketRecord)'
  BY MapEntry, PutMap DEF IInv, TypeOK
<1>2. TypeOK'
  BY <1>1 DEF IInv, TypeOK, AdminTypeOK, adminVars, eventVars
<1>3. DOMAIN market' = DOMAIN market
      /\ \A c \in DOMAIN market : c # k => market'[c] = market[c]
  BY DEF Put
<1>4. ASSUME NEW c \in DOMAIN market, c # k PROVE Untouched(c)
  <2>1. c \in Condition /\ now' = now /\ now \in Nat
    BY MapEntry DEF IInv, TypeOK, Time
  <2> QED
    BY <1>3, <1>4, <2>1 DEF Untouched
<1>5. EventIndexAgrees'
  BY <1>3, IndexFrame DEF IInv
<1>6. /\ \A c \in prepared' : SlotCount[c] \in 2..32
      /\ DOMAIN proposal' \subseteq DOMAIN market'
  BY <1>3 DEF IInv
<1> QED
  BY <1>2, <1>3, <1>4, <1>5, <1>6, OneMarketStep

\* What is known of a market that an action is about.
LEMMA Known ==
    ASSUME MarketAssumption, IInv, NEW c \in DOMAIN market
    PROVE  /\ Listed(c) /\ c \in Condition /\ c \in prepared
           /\ market[c] \in MarketRecord
           /\ SlotCount[c] \in 2..32
           /\ now \in Nat /\ Time \subseteq Nat
<1>1. Listed(c) /\ c \in Condition /\ market[c] \in MarketRecord
  BY MapEntry DEF IInv, TypeOK
<1>2. c \in prepared /\ SlotCount[c] \in 2..32
  BY <1>1 DEF IInv, Listed
<1> QED
  BY <1>1, <1>2 DEF IInv, TypeOK, Time

LEMMA StatusStep ==
    ASSUME MarketAssumption, IInv, NEW c \in Condition,
           PauseMarket(c) \/ UnpauseMarket(c)
    PROVE  IInv'
<1>1. PICK status \in MarketStatus :
        /\ c \in DOMAIN market
        /\ market[c].status # "Resolved"
        /\ SetStatus(c, status)
        /\ status = "Resolved" => market[c].resolved
        /\ status = "Open" => now < market[c].end
  <2>1. CASE PauseMarket(c)
    BY <2>1 DEF PauseMarket, MarketStatus
  <2>2. CASE UnpauseMarket(c)
    <3>1. c \in DOMAIN market /\ market[c].status = "Paused"
      BY <2>2 DEF UnpauseMarket
    <3>2. market[c].resolved = FALSE /\ market[c].end \in Nat /\ now \in Nat
      BY <3>1, Known DEF Listed, MarketRecord
    <3>3. CASE now >= market[c].end
      <4>1. SetStatus(c, "Closed")
        BY <2>2, <3>2, <3>3 DEF UnpauseMarket
      <4> QED
        BY <3>1, <4>1 DEF MarketStatus
    <3>4. CASE now < market[c].end
      <4>1. SetStatus(c, "Open")
        BY <2>2, <3>2, <3>4 DEF UnpauseMarket
      <4> QED
        BY <3>1, <3>4, <4>1 DEF MarketStatus
    <3> QED
      BY <3>2, <3>3, <3>4
  <2> QED
    BY <2>1, <2>2
<1> DEFINE m == [market[c] EXCEPT !.status = status]
<1>2. m \in MarketRecord /\ market' = Put(market, c, m)
  BY <1>1, Known DEF SetStatus, MarketRecord
<1>3. market[c].resolved = FALSE /\ status # "Resolved"
  BY <1>1, Known DEF Listed, MarketRecord
<1>4. Listed(c)'
  <2>1. /\ market'[c].status = status /\ market'[c].end = market[c].end
        /\ market'[c].resolved = FALSE
    BY <1>1, <1>2, <1>3, Known DEF Put, MarketRecord
  <2>2. c \in DOMAIN proposal => status # "Open"
    BY <1>1, <1>3, Known DEF Listed, MarketRecord
  <2>3. /\ UNCHANGED <<prepared, proposal, now>>
        /\ c \in prepared
        /\ c \in DOMAIN proposal => /\ ~proposal[c].finalized /\ now >= market[c].end
                                   /\ ~IsRuling(proposal[c])
    BY <1>1, <1>3, Known DEF SetStatus, conditionVars, Listed
  <2> HIDE DEF m
  <2> QED
    BY <1>3, <2>1, <2>2, <2>3 DEF Listed, IsRuling
<1> QED
  BY <1>1, <1>2, <1>4, ResolutionStep
     DEF SetStatus, IInv, TypeOK, ConditionTypeOK, conditionVars

LEMMA ProposeStep ==
    ASSUME MarketAssumption, IInv, NEW c \in Condition, NEW resolver \in Account,
           NEW outcome, ProposeResolution(resolver, c, outcome)
    PROVE  IInv'
<1> DEFINE m == [market[c] EXCEPT !.status = "Closed"]
           p == [proposer |-> resolver, outcome |-> outcome, proposedAt |-> now,
                 deadline |-> now + window, disputed |-> FALSE, finalized |-> FALSE]
<1>1. /\ c \in DOMAIN market /\ ~market[c].resolved /\ now >= market[c].end
      /\ outcome \in Outcomes(c) /\ now + window <= MaxU64
      /\ proposal' = Put(proposal, c, p) /\ market' = Put(market, c, m)
      /\ UNCHANGED <<conditionVars, adminVars, window, eventVars, metadata, now>>
  BY DEF ProposeResolution
<1>2. m \in MarketRecord
  BY <1>1, Known DEF MarketRecord, MarketStatus
<1>3. p \in ProposalRecord
  <2>1. now \in Time /\ window \in Nat
    BY DEF IInv, TypeOK
  <2>2. now + window \in Time
    BY <1>1, <2>1 DEF Time, MarketAssumption
  <2>3. outcome \in Nat
    BY <1>1, Known DEF Outcomes
  <2> QED
    BY <2>1, <2>2, <2>3 DEF ProposalRecord
<1>4. IsMap(proposal, Condition, ProposalRecord)'
  BY <1>1, <1>3, PutMap DEF IInv, TypeOK
<1>5. Listed(c)'
  <2>1. /\ market'[c].status = "Closed" /\ market'[c].resolved = FALSE
        /\ market'[c].end = market[c].end
    BY <1>1, Known DEF Put, MarketRecord
  <2>2. /\ c \in DOMAIN proposal' /\ proposal'[c].finalized = FALSE
        /\ proposal'[c].deadline = now + window /\ proposal'[c].proposedAt = now
    BY <1>1 DEF Put
  <2>3. c \in prepared' /\ now' >= market[c].end
    BY <1>1, Known DEF conditionVars
  <2>4. now \in Nat /\ window \in Nat \ {0}
    BY <1>1, Known DEF IInv, TypeOK
  <2>5. now + window # now
    BY <2>4
  <2> HIDE DEF m, p
  <2> QED
    BY <2>1, <2>2, <2>3, <2>5 DEF Listed, IsRuling
<1>6. /\ DOMAIN proposal' = DOMAIN proposal \cup {c}
      /\ \A d \in DOMAIN proposal : d # c => proposal'[d] = proposal[d]
  BY <1>1 DEF Put
<1> HIDE DEF m, p
<1> QED
  BY <1>1, <1>2, <1>4, <1>5, <1>6, ResolutionStep
     DEF IInv, TypeOK, ConditionTypeOK, conditionVars

LEMMA DisputeStep ==
    ASSUME MarketAssumption, IInv, NEW c \in Condition, DisputeResolution(c)
    PROVE  IInv'
<1> DEFINE p == [proposal[c] EXCEPT !.disputed = TRUE]
<1>1. /\ c \in DOMAIN proposal /\ ~proposal[c].finalized
      /\ proposal' = Put(proposal, c, p)
      /\ UNCHANGED <<conditionVars, adminVars, market, window, eventVars, metadata, now>>
  BY DEF DisputeResolution, Active
<1>2. proposal[c] \in ProposalRecord
  BY <1>1, MapEntry DEF IInv, TypeOK
<1>3. /\ p \in ProposalRecord /\ p.finalized = proposal[c].finalized
      /\ p.deadline = proposal[c].deadline /\ p.proposedAt = proposal[c].proposedAt
  BY <1>2 DEF ProposalRecord
<1>4. IsMap(proposal, Condition, ProposalRecord)'
  BY <1>1, <1>3, PutMap DEF IInv, TypeOK
<1>5. c \in DOMAIN market
  BY <1>1 DEF IInv
<1>6. /\ DOMAIN proposal' = DOMAIN proposal
      /\ proposal'[c].finalized = proposal[c].finalized
      /\ proposal'[c].deadline = proposal[c].deadline
      /\ proposal'[c].proposedAt = proposal[c].proposedAt
      /\ \A d \in DOMAIN proposal : d # c => proposal'[d] = proposal[d]
  BY <1>1, <1>3 DEF Put
<1>7. Listed(c)'
  BY <1>1, <1>5, <1>6, Known DEF Listed, IsRuling, conditionVars
<1>8. market' = Put(market, c, market[c])
  <2>1. IsMap(market, Condition, MarketRecord)
    BY DEF IInv, TypeOK
  <2> QED
    BY <1>1, <1>5, <2>1 DEF Put, IsMap
<1> QED
  BY <1>1, <1>4, <1>5, <1>6, <1>7, <1>8, Known, ResolutionStep
     DEF IInv, TypeOK, ConditionTypeOK, conditionVars

\* Both ways to resolve a market leave a finalized proposal for the winner.
LEMMA FinalizeMarketStep ==
    ASSUME MarketAssumption, IInv, NEW c \in Condition, NEW winner,
           FinalizeMarket(c, winner),
           NEW p \in ProposalRecord, p.finalized = TRUE, p.outcome = winner,
           proposal' = Put(proposal, c, p)
    PROVE  IInv'
<1> DEFINE m == [market[c] EXCEPT !.status = "Resolved", !.resolved = TRUE,
                                  !.winner = winner]
<1>1. /\ c \in DOMAIN market /\ winner \in Outcomes(c)
      /\ market' = Put(market, c, m)
      /\ ApplyPayouts(c, OneHot(c, winner))
      /\ UNCHANGED <<adminVars, window, eventVars, metadata, now>>
  BY DEF FinalizeMarket
<1>2. winner \in Nat /\ winner \in 0..31
  BY <1>1, Known DEF Outcomes
<1>3. m \in MarketRecord
  BY <1>1, <1>2, Known DEF MarketRecord, MarketStatus
<1>4. OneHot(c, winner) \in Seq(Nat) /\ TotalOf(OneHot(c, winner)) = 1
  <2>1. SlotCount[c] \in Nat
    BY <1>1, Known
  <2> QED
    BY <1>1, <2>1, OneHotIs
<1>5. ConditionTypeOK'
  BY <1>1, <1>4, ApplyPayoutsType DEF IInv, TypeOK
<1>6. /\ prepared' = prepared
      /\ numerators'[c] = OneHot(c, winner) /\ denominator'[c] = 1
      /\ \A d \in Condition : d # c => /\ numerators'[d] = numerators[d]
                                       /\ denominator'[d] = denominator[d]
  BY <1>1, <1>4 DEF ApplyPayouts, IInv, TypeOK, ConditionTypeOK
<1>7. IsMap(proposal, Condition, ProposalRecord)'
  BY PutMap DEF IInv, TypeOK
<1>8. /\ DOMAIN proposal' = DOMAIN proposal \cup {c} /\ proposal'[c] = p
      /\ \A d \in DOMAIN proposal : d # c => proposal'[d] = proposal[d]
  BY DEF Put
<1>9. Listed(c)'
  <2>1. /\ market'[c].status = "Resolved" /\ market'[c].resolved = TRUE
        /\ market'[c].winner = winner
    BY <1>1, Known DEF Put, MarketRecord
  <2>2. OneHot(c, winner)' = OneHot(c, winner)
    BY DEF OneHot
  <2>3. c \in prepared'
    BY <1>1, <1>6, Known
  <2> HIDE DEF m
  <2> QED
    BY <1>2, <1>6, <1>8, <2>1, <2>2, <2>3 DEF Listed, OneHot
<1> HIDE DEF m
<1> QED
  BY <1>1, <1>3, <1>5, <1>6, <1>7, <1>8, <1>9, ResolutionStep

LEMMA FinalizeStep ==
    ASSUME MarketAssumption, IInv, NEW c \in Condition, FinalizeResolution(c)
    PROVE  IInv'
<1> DEFINE p == [proposal[c] EXCEPT !.finalized = TRUE]
<1>1. proposal[c] \in ProposalRecord
  BY MapEntry DEF FinalizeResolution, Active, IInv, TypeOK
<1>2. p \in ProposalRecord /\ p.finalized = TRUE /\ p.outcome = proposal[c].outcome
  BY <1>1 DEF ProposalRecord
<1>3. FinalizeMarket(c, proposal[c].outcome) /\ proposal' = Put(proposal, c, p)
  BY DEF FinalizeResolution
<1> HIDE DEF p
<1> QED
  BY <1>2, <1>3, FinalizeMarketStep

LEMMA ResolveStep ==
    ASSUME MarketAssumption, IInv, NEW c \in Condition, NEW outcome,
           ResolveMarket(c, outcome)
    PROVE  IInv'
<1> DEFINE p == [proposer |-> OracleOf[c], outcome |-> outcome, proposedAt |-> now,
                 deadline |-> now, disputed |-> FALSE, finalized |-> TRUE]
<1>1. FinalizeMarket(c, outcome) /\ proposal' = Put(proposal, c, p)
  BY DEF ResolveMarket
<1>2. outcome \in Nat
  BY <1>1, Known DEF FinalizeMarket, Outcomes
<1>3. p \in ProposalRecord /\ p.finalized = TRUE /\ p.outcome = outcome
  BY <1>2 DEF ProposalRecord, IInv, TypeOK, MarketAssumption
<1> HIDE DEF p
<1> QED
  BY <1>1, <1>3, FinalizeMarketStep

-----------------------------------------------------------------------------
(* The CTF contract used past the market contract *)

LEMMA PrepareStep ==
    ASSUME MarketAssumption, IInv, NEW c \in Condition, Prepare(c)
    PROVE  IInv'
<1>1. TypeOK'
  BY DEF Prepare, PrepareCondition, marketVars, adminVars, eventVars, IInv, TypeOK,
     ConditionTypeOK, AdminTypeOK
<1>2. \A d \in DOMAIN market : Untouched(d)
  <2>1. now' = now /\ now \in Nat
    BY DEF Prepare, marketVars, IInv, TypeOK, Time
  <2> QED
    BY <2>1 DEF Prepare, PrepareCondition, marketVars, Untouched
<1>3. \A d \in DOMAIN market : Listed(d)'
  BY <1>1, <1>2, ListedFrame DEF IInv, TypeOK
<1>4. \A d \in prepared' : SlotCount[d] \in 2..32
  BY DEF Prepare, PrepareCondition, IInv
<1>5. EventIndexAgrees'
  BY IndexFrame DEF Prepare, marketVars, IInv
<1> QED
  BY <1>1, <1>3, <1>4, <1>5 DEF Prepare, marketVars, IInv

\* The oracle can only report on a condition whose market is not resolved.
LEMMA ReportStep ==
    ASSUME Assumptions, IInv, NEW c \in Condition, NEW v \in Payouts,
           ReportPayouts(c, v)
    PROVE  IInv'
<1>1. v \in Seq(Nat) /\ ApplyPayouts(c, v) /\ UNCHANGED marketVars
  BY DEF ReportPayouts, Assumptions, ConditionAssumption
<1>2. ConditionTypeOK'
  BY <1>1, ApplyPayoutsType DEF IInv, TypeOK
<1>3. TypeOK'
  BY <1>1, <1>2 DEF marketVars, adminVars, eventVars, IInv, TypeOK, AdminTypeOK
<1>4. now' = now /\ now \in Nat
  BY <1>1 DEF marketVars, IInv, TypeOK, Time
<1>5. \A d \in DOMAIN market : d # c => Untouched(d)
  <2>1. \A d \in DOMAIN market : d \in Condition
    BY MapEntry DEF IInv, TypeOK
  <2> QED
    BY <1>1, <1>4, <2>1
       DEF ApplyPayouts, marketVars, Untouched, IInv, TypeOK, ConditionTypeOK
<1>6. ASSUME c \in DOMAIN market PROVE Listed(c)'
  <2>1. ~market[c].resolved
    BY <1>1, <1>6 DEF ApplyPayouts, Resolved, IInv, Listed
  <2> QED
    BY <1>1, <1>6, <2>1 DEF ApplyPayouts, marketVars, IInv, Listed, IsRuling
<1>7. EventIndexAgrees'
  BY <1>1, IndexFrame DEF marketVars, IInv
<1>8. UNCHANGED <<prepared, market, proposal>>
  BY <1>1 DEF ApplyPayouts, marketVars
<1>9. \A d \in prepared' : SlotCount[d] \in 2..32
  BY <1>8 DEF IInv
<1>10. DOMAIN proposal' \subseteq DOMAIN market'
  BY <1>8 DEF IInv
<1> QED
  BY <1>3, <1>5, <1>6, <1>7, <1>8, <1>9, <1>10, OneMarketStep DEF Assumptions

-----------------------------------------------------------------------------
(* The inductive invariant and what follows from it *)

LEMMA NextIInv == Assumptions /\ IInv /\ [Next]_vars => IInv'
<1> SUFFICES ASSUME Assumptions, IInv, [Next]_vars PROVE IInv'
  OBVIOUS
<1>1. MarketAssumption
  BY DEF Assumptions
<1>2. CASE AdminActions
  BY <1>1, <1>2, AdministerStep, SetWindowStep, MetadataStep DEF AdminActions
<1>3. CASE CreationActions
  BY <1>1, <1>3, CreateEventStep, CreateMarketStep, CreateForEventStep
     DEF CreationActions
<1>4. CASE ResolutionActions
  <2>1. PICK c \in Condition :
          \/ PauseMarket(c) \/ UnpauseMarket(c)
          \/ \E resolver \in Account, outcome \in 0..SlotCount[c] :
                 ProposeResolution(resolver, c, outcome)
          \/ DisputeResolution(c)
          \/ FinalizeResolution(c)
          \/ \E outcome \in 0..SlotCount[c] : ResolveMarket(c, outcome)
    BY <1>4 DEF ResolutionActions
  <2> QED
    BY <1>1, <2>1, StatusStep, ProposeStep, DisputeStep, FinalizeStep, ResolveStep
<1>5. CASE Environment
  BY <1>1, <1>5, PrepareStep, ReportStep, TickStep DEF Environment
<1>6. CASE UNCHANGED vars
  <2>1. UNCHANGED resolutionVars /\ UNCHANGED eventVars /\ now' = now
    BY <1>6 DEF vars, resolutionVars, conditionVars, eventVars
  <2>2. TypeOK'
    BY <1>6 DEF vars, conditionVars, adminVars, eventVars, IInv, TypeOK,
       ConditionTypeOK, AdminTypeOK
  <2>3. now' >= now
    BY <2>1 DEF IInv, TypeOK, Time
  <2>4. EventIndexAgrees'
    BY <2>1, IndexFrame DEF IInv, resolutionVars
  <2> QED
    BY <1>1, <2>1, <2>2, <2>3, <2>4, QuietStep
<1> QED
  BY <1>2, <1>3, <1>4, <1>5, <1>6 DEF Next

\* The invariant that the theorems below are read off from.
THEOREM Invariance == Spec => []IInv
<1>1. Assumptions
  BY ConditionAssumption, MarketAssumption DEF Assumptions
<1> QED
  BY <1>1, InitIInv, NextIInv, PTL DEF Spec

\* Every storage entry of the market contract has its type in every state.
THEOREM TypeCorrect == Spec => []TypeOK
<1>1. IInv => TypeOK
  BY DEF IInv
<1> QED
  BY <1>1, Invariance, PTL

\* In every state a market's status, its resolved flag, its proposal and the
\* payouts in the CTF contract agree on whether it is resolved and to what.
THEOREM Agreement == Spec => []ResolutionAgrees
<1>1. IInv => ResolutionAgrees
  BY DEF IInv, Listed, ResolutionAgrees
<1> QED
  BY <1>1, Invariance, PTL

\* A market with a proposal is closed, paused or resolved, never open again.
THEOREM ProposedClosed == Spec => []ProposedMarketStaysClosed
<1>1. IInv => ProposedMarketStaysClosed
  BY DEF IInv, Listed, ProposedMarketStaysClosed
<1> QED
  BY <1>1, Invariance, PTL

\* The events and their markets index each other without a gap or a duplicate.
THEOREM IndexAgreement == Spec => []EventIndexAgrees
<1>1. IInv => EventIndexAgrees
  BY DEF IInv
<1> QED
  BY <1>1, Invariance, PTL

-----------------------------------------------------------------------------
(* Finality *)

\* What a step may not touch of a resolved market.
Kept(c) ==
    /\ market'[c] = market[c]
    /\ proposal'[c] = proposal[c]
    /\ numerators'[c] = numerators[c]

\* The resolution handlers refuse a resolved market and leave the others alone.
LEMMA ResolutionKeeps ==
    ASSUME MarketAssumption, IInv, NEW c \in DOMAIN market, market[c].resolved,
           NEW k \in Condition,
           \/ PauseMarket(k) \/ UnpauseMarket(k)
           \/ \E resolver \in Account, outcome \in 0..SlotCount[k] :
                  ProposeResolution(resolver, k, outcome)
           \/ DisputeResolution(k)
           \/ FinalizeResolution(k)
           \/ \E outcome \in 0..SlotCount[k] : ResolveMarket(k, outcome)
    PROVE  Kept(c)
<1>1. /\ Listed(c) /\ c \in DOMAIN proposal /\ proposal[c].finalized
      /\ market[c].status = "Resolved"
  BY Known DEF Listed
<1>2. CASE PauseMarket(k) \/ UnpauseMarket(k)
  <2>1. k # c
    BY <1>1, <1>2 DEF PauseMarket, UnpauseMarket
  <2> QED
    BY <1>2, <2>1 DEF PauseMarket, UnpauseMarket, SetStatus, conditionVars, Put, Kept
<1>3. ASSUME NEW resolver, NEW outcome, ProposeResolution(resolver, k, outcome)
      PROVE  Kept(c)
  <2>1. k # c
    BY <1>3 DEF ProposeResolution
  <2> QED
    BY <1>1, <1>3, <2>1 DEF ProposeResolution, conditionVars, Put, Kept
<1>4. CASE DisputeResolution(k)
  <2>1. k # c
    BY <1>1, <1>4 DEF DisputeResolution, Active
  <2> QED
    BY <1>1, <1>4, <2>1 DEF DisputeResolution, conditionVars, Put, Kept
<1>5. ASSUME NEW w, NEW p, FinalizeMarket(k, w), proposal' = Put(proposal, k, p)
      PROVE  Kept(c)
  <2>1. k # c
    BY <1>5 DEF FinalizeMarket
  <2>2. c \in Condition
    BY Known
  <2> QED
    BY <1>1, <1>5, <2>1, <2>2
       DEF FinalizeMarket, ApplyPayouts, IInv, TypeOK, ConditionTypeOK, Put, Kept
<1> QED
  BY <1>2, <1>3, <1>4, <1>5 DEF FinalizeResolution, ResolveMarket

LEMMA NextKeeps ==
    ASSUME Assumptions, IInv, Next, NEW c \in DOMAIN market, market[c].resolved
    PROVE  Kept(c)
<1>1. Listed(c) /\ c \in Condition /\ c \in prepared
  BY Known DEF Assumptions
<1>2. CASE AdminActions
  BY <1>2 DEF AdminActions, Administer, SetResolutionDisputeWindow, SetMarketMetadata,
     resolutionVars, conditionVars, Kept
<1>3. CASE CreationActions
  <2>1. CASE \E e \in Event, negRisk \in BOOLEAN : CreateEvent(e, negRisk)
    BY <2>1 DEF CreateEvent, resolutionVars, conditionVars, Kept
  <2>2. ASSUME NEW k, NEW type, NEW end, SetMarket(k, type, end)
        PROVE  Kept(c)
    BY <1>1, <2>2 DEF SetMarket, PrepareCondition, Put, Kept
  <2> QED
    BY <1>3, <2>1, <2>2 DEF CreationActions, CreateBinaryMarket,
       CreateBinaryMarketForEvent, CreateMultiOutcomeMarket, CreateNegRiskMarket
<1>4. CASE ResolutionActions
  BY <1>4, ResolutionKeeps DEF ResolutionActions, Assumptions
<1>5. CASE Environment
  <2>1. CASE \E k \in Condition : Prepare(k)
    BY <2>1 DEF Prepare, PrepareCondition, marketVars, Kept
  <2>2. ASSUME NEW k \in Condition, NEW v, ReportPayouts(k, v)
        PROVE  Kept(c)
    BY <1>1, <2>2 DEF ReportPayouts, ApplyPayouts, Resolved, marketVars, Listed, Kept,
       IInv, TypeOK, ConditionTypeOK
  <2>3. CASE Tick
    BY <2>3 DEF Tick, resolutionVars, conditionVars, Kept
  <2> QED
    BY <1>5, <2>1, <2>2, <2>3 DEF Environment
<1> QED
  BY <1>2, <1>3, <1>4, <1>5 DEF Next

\* No step changes a resolved market, its proposal or its payouts: not another
\* proposal, not a pause, not a report of the oracle to the CTF contract.
THEOREM Finality == Spec => ResolutionIsFinal
<1> DEFINE A == \A c \in DOMAIN market : market[c].resolved =>
                     /\ market'[c] = market[c]
                     /\ proposal'[c] = proposal[c]
                     /\ numerators'[c] = numerators[c]
<1>1. Assumptions
  BY ConditionAssumption, MarketAssumption DEF Assumptions
<1>2. IInv /\ [Next]_vars => [A]_vars
  <2> SUFFICES ASSUME IInv, Next PROVE A
    OBVIOUS
  <2> QED
    BY <1>1, NextKeeps DEF Kept
<1>3. [][A]_vars => ResolutionIsFinal
  BY PTL DEF ResolutionIsFinal
<1> HIDE DEF A
<1>4. Spec => [][A]_vars
  BY <1>2, Invariance, PTL DEF Spec
<1> QED
  BY <1>3, <1>4, PTL

-----------------------------------------------------------------------------
(* A report past the market contract *)

\* Only finalize_market sets the flag of a market, and the CTF contract refuses the
\* report in it when the condition has one already.
LEMMA NextLeavesUnresolved ==
    ASSUME Assumptions, IInv, Next,
           NEW c \in DOMAIN market, Resolved(c), ~market[c].resolved
    PROVE  ~market'[c].resolved
<1>1. market[c] \in MarketRecord /\ c \in prepared
  BY MapEntry DEF IInv, TypeOK, Listed
<1>2. CASE AdminActions
  BY <1>2 DEF AdminActions, Administer, SetResolutionDisputeWindow, SetMarketMetadata,
     resolutionVars
<1>3. CASE CreationActions
  <2>1. CASE \E e \in Event, negRisk \in BOOLEAN : CreateEvent(e, negRisk)
    BY <2>1 DEF CreateEvent, resolutionVars
  <2>2. ASSUME NEW k, NEW type, NEW end, SetMarket(k, type, end)
        PROVE  ~market'[c].resolved
    BY <1>1, <2>2 DEF SetMarket, PrepareCondition, Put
  <2> QED
    BY <1>3, <2>1, <2>2 DEF CreationActions, CreateBinaryMarket,
       CreateBinaryMarketForEvent, CreateMultiOutcomeMarket, CreateNegRiskMarket
<1>4. CASE ResolutionActions
  <2> PICK k \in Condition :
        \/ PauseMarket(k) \/ UnpauseMarket(k)
        \/ \E resolver \in Account, outcome \in 0..SlotCount[k] :
               ProposeResolution(resolver, k, outcome)
        \/ DisputeResolution(k)
        \/ FinalizeResolution(k)
        \/ \E outcome \in 0..SlotCount[k] : ResolveMarket(k, outcome)
    BY <1>4 DEF ResolutionActions
  <2>1. CASE PauseMarket(k) \/ UnpauseMarket(k)
    BY <1>1, <2>1 DEF PauseMarket, UnpauseMarket, SetStatus, Put, MarketRecord
  <2>2. ASSUME NEW resolver, NEW outcome, ProposeResolution(resolver, k, outcome)
        PROVE  ~market'[c].resolved
    BY <1>1, <2>2 DEF ProposeResolution, Put, MarketRecord
  <2>3. CASE DisputeResolution(k)
    BY <2>3 DEF DisputeResolution
  <2>4. ASSUME NEW w, FinalizeMarket(k, w)
        PROVE  ~market'[c].resolved
    <3>1. k # c
      BY <2>4 DEF FinalizeMarket, ApplyPayouts
    <3> QED
      BY <2>4, <3>1 DEF FinalizeMarket, Put
  <2> QED
    BY <2>1, <2>2, <2>3, <2>4 DEF FinalizeResolution, ResolveMarket
<1>5. CASE Environment
  BY <1>5 DEF Environment, Prepare, ReportPayouts, Tick, marketVars, resolutionVars
<1> QED
  BY <1>2, <1>3, <1>4, <1>5 DEF Next

\* A market whose oracle reported to the CTF contract itself is never resolved
\* afterwards: every later finalize_resolution and resolve_market panics.
THEOREM Lockout == Spec => DirectReportLeavesUnresolved
<1> DEFINE A == \A c \in DOMAIN market :
                    Resolved(c) /\ ~market[c].resolved => ~market'[c].resolved
<1>1. Assumptions
  BY ConditionAssumption, MarketAssumption DEF Assumptions
<1>2. IInv /\ [Next]_vars => [A]_vars
  <2> SUFFICES ASSUME IInv, Next PROVE A
    OBVIOUS
  <2> QED
    BY <1>1, NextLeavesUnresolved
<1>3. [][A]_vars => DirectReportLeavesUnresolved
  BY PTL DEF DirectReportLeavesUnresolved
<1> HIDE DEF A
<1>4. Spec => [][A]_vars
  BY <1>2, Invariance, PTL DEF Spec
<1> QED
  BY <1>3, <1>4, PTL

-----------------------------------------------------------------------------
(* Finalization is never blocked *)

\* What finalize_resolution, finalize_market and apply_payouts ask before they write:
\* none of the panics of the three contracts' handlers.
FinalizationGuard(c) ==
    /\ Active(c)
    /\ now >= proposal[c].deadline
    /\ c \in DOMAIN market
    /\ ~market[c].resolved
    /\ proposal[c].outcome \in Outcomes(c)
    /\ c \in prepared
    /\ ~Resolved(c)
    /\ Len(OneHot(c, proposal[c].outcome)) = SlotCount[c]
    /\ TotalOf(OneHot(c, proposal[c].outcome)) # 0

\* The one state that they lead to, variable by variable in the order of vars.
AfterFinalization(c) ==
    LET payouts == OneHot(c, proposal[c].outcome)
    IN  << <<prepared, [numerators EXCEPT ![c] = payouts],
             [denominator EXCEPT ![c] = TotalOf(payouts)]>>,
           adminVars,
           Put(market, c, [market[c] EXCEPT !.status = "Resolved", !.resolved = TRUE,
                                            !.winner = proposal[c].outcome]),
           Put(proposal, c, [proposal[c] EXCEPT !.finalized = TRUE]),
           window, eventVars, metadata, now >>

\* The guard is all that the action asks: what is left of it gives every variable one
\* value.
LEMMA FinalizationIs ==
    ASSUME NEW c
    PROVE  FinalizeResolution(c) <=> FinalizationGuard(c) /\ vars' = AfterFinalization(c)
<1>1. FinalizeResolution(c) => FinalizationGuard(c) /\ vars' = AfterFinalization(c)
  BY DEF FinalizeResolution, FinalizeMarket, ApplyPayouts, FinalizationGuard,
         AfterFinalization, vars, conditionVars
<1>2. FinalizationGuard(c) /\ vars' = AfterFinalization(c) => FinalizeResolution(c)
  BY DEF FinalizeResolution, FinalizeMarket, ApplyPayouts, FinalizationGuard,
         AfterFinalization, vars, conditionVars
<1> QED
  BY <1>1, <1>2

\* The outcome on record is one the market has.
ProposedOutcomes == \A c \in DOMAIN proposal : proposal[c].outcome \in Outcomes(c)

LEMMA ProposedStep ==
    ASSUME Assumptions, IInv, ProposedOutcomes, [Next]_vars
    PROVE  ProposedOutcomes'
<1>1. CASE UNCHANGED proposal
  BY <1>1 DEF ProposedOutcomes, Outcomes
<1>2. ASSUME NEW c \in Condition, NEW p, proposal' = Put(proposal, c, p),
             p.outcome \in Outcomes(c)
      PROVE  ProposedOutcomes'
  BY <1>2 DEF ProposedOutcomes, Outcomes, Put
<1>3. ASSUME NEW c \in Condition, NEW resolver, NEW outcome,
             ProposeResolution(resolver, c, outcome)
      PROVE  ProposedOutcomes'
  <2> DEFINE p == [proposer |-> resolver, outcome |-> outcome, proposedAt |-> now,
                   deadline |-> now + window, disputed |-> FALSE, finalized |-> FALSE]
  <2>1. proposal' = Put(proposal, c, p) /\ p.outcome \in Outcomes(c)
    BY <1>3 DEF ProposeResolution
  <2> HIDE DEF p
  <2> QED
    BY <1>2, <2>1
<1>4. ASSUME NEW c \in Condition, NEW p, c \in DOMAIN proposal,
             \/ p = [proposal[c] EXCEPT !.disputed = TRUE]
             \/ p = [proposal[c] EXCEPT !.finalized = TRUE]
      PROVE  p.outcome \in Outcomes(c)
  <2>1. proposal[c] \in ProposalRecord
    BY <1>4, MapEntry DEF IInv, TypeOK
  <2>2. p.outcome = proposal[c].outcome
    BY <1>4, <2>1 DEF ProposalRecord
  <2> QED
    BY <1>4, <2>2 DEF ProposedOutcomes
<1>5. ASSUME NEW c \in Condition, DisputeResolution(c) PROVE ProposedOutcomes'
  <2>1. PICK p : /\ p = [proposal[c] EXCEPT !.disputed = TRUE]
                 /\ proposal' = Put(proposal, c, p) /\ c \in DOMAIN proposal
    BY <1>5 DEF DisputeResolution, Active
  <2> QED
    BY <1>2, <1>4, <2>1
<1>6. ASSUME NEW c \in Condition, FinalizeResolution(c) PROVE ProposedOutcomes'
  <2>1. PICK p : /\ p = [proposal[c] EXCEPT !.finalized = TRUE]
                 /\ proposal' = Put(proposal, c, p) /\ c \in DOMAIN proposal
    BY <1>6 DEF FinalizeResolution, Active
  <2> QED
    BY <1>2, <1>4, <2>1
<1>7. ASSUME NEW c \in Condition, NEW outcome, ResolveMarket(c, outcome)
      PROVE  ProposedOutcomes'
  <2> DEFINE p == [proposer |-> OracleOf[c], outcome |-> outcome, proposedAt |-> now,
                   deadline |-> now, disputed |-> FALSE, finalized |-> TRUE]
  <2>1. proposal' = Put(proposal, c, p) /\ p.outcome \in Outcomes(c)
    BY <1>7 DEF ResolveMarket, FinalizeMarket
  <2> HIDE DEF p
  <2> QED
    BY <1>2, <2>1
<1>8. CASE AdminActions
  BY <1>1, <1>8
     DEF AdminActions, Administer, SetResolutionDisputeWindow, SetMarketMetadata,
         resolutionVars
<1>9. CASE CreationActions
  BY <1>1, <1>9
     DEF CreationActions, CreateEvent, CreateBinaryMarket, CreateBinaryMarketForEvent,
         CreateMultiOutcomeMarket, CreateNegRiskMarket, SetMarket, resolutionVars
<1>10. CASE ResolutionActions
  <2>1. ASSUME NEW c \in Condition, PauseMarket(c) \/ UnpauseMarket(c)
        PROVE  ProposedOutcomes'
    BY <1>1, <2>1 DEF PauseMarket, UnpauseMarket, SetStatus
  <2> QED
    BY <1>3, <1>5, <1>6, <1>7, <1>10, <2>1 DEF ResolutionActions
<1>11. CASE Environment
  BY <1>1, <1>11 DEF Environment, Prepare, ReportPayouts, marketVars, Tick, resolutionVars
<1>12. CASE UNCHANGED vars
  BY <1>1, <1>12 DEF vars
<1> QED
  BY <1>8, <1>9, <1>10, <1>11, <1>12 DEF Next

\* A proposal past its window that the CTF contract has no report for meets every check
\* of the three handlers that finalize it, whatever was paused, unpaused or set since.
LEMMA FinalizationReady ==
    ASSUME Assumptions, IInv, ProposedOutcomes, NEW c \in Condition,
           Active(c), now >= proposal[c].deadline, ~Resolved(c)
    PROVE  FinalizationGuard(c)
<1>1. c \in DOMAIN proposal /\ c \in DOMAIN market /\ Listed(c)
  BY DEF Active, IInv
<1>2. c \in prepared /\ SlotCount[c] \in Nat /\ ~market[c].resolved
  BY <1>1 DEF Listed, IInv, Active
<1>3. PICK w \in Outcomes(c) : w = proposal[c].outcome
  BY <1>1 DEF ProposedOutcomes
<1>4. OneHot(c, w) \in Seq(Nat) /\ TotalOf(OneHot(c, w)) = 1
  BY <1>2, OneHotIs
<1>5. Len(OneHot(c, w)) = SlotCount[c]
  <2>1. OneHot(c, w) \in [1..SlotCount[c] -> Nat]
    BY DEF OneHot, Slots
  <2> QED
    BY <1>2, <1>4, <2>1
<1> QED
  BY <1>1, <1>2, <1>3, <1>4, <1>5 DEF FinalizationGuard

\* At all times a proposal that stood its window undisputed meets every check of
\* finalize_resolution, finalize_market and the CTF contract's report handler, unless
\* the oracle reported to the CTF contract itself: what FinalizationNeverBlocked says,
\* with the action's guard in place of ENABLED.
THEOREM FinalizationUnblocked ==
    Spec => [](\A c \in Condition :
                  Active(c) /\ now >= proposal[c].deadline /\ ~Resolved(c)
                      => FinalizationGuard(c))
<1> DEFINE Ready == \A c \in Condition :
                       Active(c) /\ now >= proposal[c].deadline /\ ~Resolved(c)
                           => FinalizationGuard(c)
<1>1. Assumptions
  BY ConditionAssumption, MarketAssumption DEF Assumptions
<1>2. Init => ProposedOutcomes
  BY DEF Init, Empty, ProposedOutcomes
<1>3. IInv /\ ProposedOutcomes /\ [Next]_vars => ProposedOutcomes'
  BY <1>1, ProposedStep
<1>4. IInv /\ ProposedOutcomes => Ready
  BY <1>1, FinalizationReady
<1> HIDE DEF Ready
<1>5. Spec => []Ready
  BY <1>2, <1>3, <1>4, Invariance, PTL DEF Spec
<1> QED
  BY <1>5 DEF Ready

-----------------------------------------------------------------------------
(***************************************************************************)
(* The market registry implements OptimisticOracle: proposing is claiming, *)
(* disputing is challenging, finalizing is accepting, resolve_market is    *)
(* ruling, and every other step but the passing of time is invisible.      *)
(***************************************************************************)

\* A step that can only change what the oracle shows of condition k.
Shows(k) ==
    \A c \in Condition : c # k =>
        ClaimOf(c)' = ClaimOf(c) /\ Verdict(c)' = Verdict(c)

\* A step that changes nothing that the oracle shows.
Invisible ==
    /\ \A c \in Condition : ClaimOf(c)' = ClaimOf(c) /\ Verdict(c)' = Verdict(c)
    /\ now' = now

LEMMA InvisibleStutters ==
    ASSUME Invisible PROVE UNCHANGED Oracle!ovars
BY DEF Invisible, Oracle!ovars

\* Writing the entries of k leaves what is shown of the others alone.
LEMMA PutShows ==
    ASSUME NEW k, NEW m, market' = Put(market, k, m) \/ market' = market,
           NEW p, proposal' = Put(proposal, k, p) \/ proposal' = proposal
    PROVE  Shows(k)
BY DEF Put, Shows, ClaimOf, IsRuling, Verdict, NoClaim, Undecided

LEMMA UnchangedInvisible ==
    ASSUME UNCHANGED <<market, proposal, now>> PROVE Invisible
BY DEF Invisible, ClaimOf, IsRuling, Verdict, NoClaim, Undecided

LEMMA InitOracle == Init => Oracle!Init
<1> SUFFICES ASSUME Init PROVE Oracle!Init
  OBVIOUS
<1>1. DOMAIN market = {} /\ DOMAIN proposal = {} /\ now = 0
  BY DEF Init, Empty
<1> QED
  BY <1>1 DEF Oracle!Init, ClaimOf, Verdict

-----------------------------------------------------------------------------

LEMMA SetMarketInvisible ==
    ASSUME MarketAssumption, IInv, NEW k, NEW type, NEW end, SetMarket(k, type, end)
    PROVE  Invisible
<1> DEFINE m == [end |-> end, type |-> type, status |-> "Open",
                 resolved |-> FALSE, winner |-> 0]
<1>1. market' = Put(market, k, m) /\ proposal' = proposal /\ now' = now
      /\ k \notin DOMAIN market
  BY DEF SetMarket, PrepareCondition, IInv, Listed
<1>2. m.resolved = FALSE
  OBVIOUS
<1> HIDE DEF m
<1>3. Verdict(k)' = Verdict(k)
  BY <1>1, <1>2 DEF Verdict, Put, Undecided
<1>4. ClaimOf(k)' = ClaimOf(k)
  BY <1>1 DEF ClaimOf, IsRuling, NoClaim, Undecided
<1>5. Shows(k)
  BY <1>1, PutShows
<1> QED
  BY <1>1, <1>3, <1>4, <1>5 DEF Invisible, Shows

LEMMA StatusInvisible ==
    ASSUME MarketAssumption, IInv, NEW k \in DOMAIN market, NEW status,
           SetStatus(k, status)
    PROVE  Invisible
<1> DEFINE m == [market[k] EXCEPT !.status = status]
<1>1. market' = Put(market, k, m) /\ proposal' = proposal /\ now' = now
  BY DEF SetStatus
<1>2. m.resolved = market[k].resolved /\ m.winner = market[k].winner
  BY Known DEF MarketRecord
<1> HIDE DEF m
<1>3. Verdict(k)' = Verdict(k)
  BY <1>1, <1>2 DEF Verdict, Put, Undecided
<1>4. ClaimOf(k)' = ClaimOf(k)
  BY <1>1 DEF ClaimOf, IsRuling, NoClaim, Undecided
<1>5. Shows(k)
  BY <1>1, PutShows
<1> QED
  BY <1>1, <1>3, <1>4, <1>5 DEF Invisible, Shows

LEMMA ProposeClaims ==
    ASSUME MarketAssumption, IInv, NEW k \in Condition, NEW resolver, NEW outcome,
           ProposeResolution(resolver, k, outcome)
    PROVE  Oracle!Next
<1> DEFINE m == [market[k] EXCEPT !.status = "Closed"]
           p == [proposer |-> resolver, outcome |-> outcome, proposedAt |-> now,
                 deadline |-> now + window, disputed |-> FALSE, finalized |-> FALSE]
<1>1. /\ k \in DOMAIN market /\ ~market[k].resolved /\ outcome \in Outcomes(k)
      /\ now + window <= MaxU64 /\ ~Active(k)
      /\ proposal' = Put(proposal, k, p) /\ market' = Put(market, k, m) /\ now' = now
  BY DEF ProposeResolution
<1>2. now + window \in Time /\ now + window > now /\ now + window # now
  BY <1>1 DEF IInv, TypeOK, Time, MarketAssumption
<1>3. outcome \in 0..31
  BY <1>1, Known DEF Outcomes
<1>4. m.resolved = FALSE
  BY <1>1, Known DEF MarketRecord
<1>5. /\ p.outcome = outcome /\ p.deadline = now + window /\ ~IsRuling(p)
      /\ p.disputed = FALSE /\ p.finalized = FALSE
  <2>1. p.deadline = now + window /\ p.proposedAt = now
    OBVIOUS
  <2> QED
    BY <1>2, <2>1 DEF IsRuling
<1> HIDE DEF m, p
<1>6. Verdict(k) = Undecided /\ Verdict(k)' = Undecided
  BY <1>1, <1>4 DEF Verdict, Put
<1>7. ClaimOf(k)' = [answer |-> outcome, until |-> now + window, challenged |-> FALSE]
  BY <1>1, <1>5 DEF ClaimOf, Put
<1>8. ClaimOf(k).challenged = TRUE
  <2>1. CASE k \in DOMAIN proposal
    <3>1. proposal[k] \in ProposalRecord /\ ~proposal[k].finalized
      BY <1>1, <2>1, MapEntry, Known DEF IInv, TypeOK, Listed
    <3>2. proposal[k].disputed = TRUE
      BY <1>1, <2>1, <3>1 DEF Active, ProposalRecord
    <3> QED
      BY <2>1, <3>2 DEF ClaimOf, NoClaim
  <2>2. CASE k \notin DOMAIN proposal
    BY <2>2 DEF ClaimOf, NoClaim
  <2> QED
    BY <2>1, <2>2
<1>9. Shows(k)
  BY <1>1, PutShows
<1>10. Oracle!Claim(k, outcome, now + window)
  BY <1>1, <1>2, <1>6, <1>7, <1>8, <1>9 DEF Oracle!Claim, Shows
<1> QED
  BY <1>2, <1>3, <1>10 DEF Oracle!Next

LEMMA DisputeChallenges ==
    ASSUME MarketAssumption, IInv, NEW k \in Condition, DisputeResolution(k)
    PROVE  Oracle!Next
<1> DEFINE p == [proposal[k] EXCEPT !.disputed = TRUE]
<1>1. /\ k \in DOMAIN proposal /\ ~proposal[k].finalized /\ ~proposal[k].disputed
      /\ now < proposal[k].deadline
      /\ proposal' = Put(proposal, k, p) /\ market' = market /\ now' = now
  BY DEF DisputeResolution, Active
<1>2. /\ proposal[k] \in ProposalRecord
      /\ ~IsRuling(proposal[k]) /\ Verdict(k) = Undecided
  BY <1>1, MapEntry, Known DEF IInv, TypeOK, Listed, Verdict
<1>3. /\ p.outcome = proposal[k].outcome /\ p.deadline = proposal[k].deadline
      /\ IsRuling(p) = IsRuling(proposal[k])
      /\ p.disputed = TRUE /\ p.finalized = FALSE /\ proposal[k].disputed = FALSE
  BY <1>1, <1>2 DEF ProposalRecord, IsRuling
<1> HIDE DEF p
<1>4. ClaimOf(k) = [answer |-> proposal[k].outcome, until |-> proposal[k].deadline,
                    challenged |-> FALSE]
  BY <1>1, <1>2, <1>3 DEF ClaimOf
<1>5. ClaimOf(k)' = [answer |-> proposal[k].outcome, until |-> proposal[k].deadline,
                     challenged |-> TRUE]
  BY <1>1, <1>2, <1>3 DEF ClaimOf, Put
<1>6. Shows(k) /\ Verdict(k)' = Verdict(k)
  BY <1>1, PutShows DEF Verdict, Undecided
<1>7. ClaimOf(k) # NoClaim
  BY <1>4 DEF NoClaim
<1>8. ClaimOf(k)' = [answer |-> ClaimOf(k).answer, until |-> ClaimOf(k).until,
                        challenged |-> TRUE]
  BY <1>4, <1>5
<1>9. ClaimOf(k).challenged = FALSE /\ now < ClaimOf(k).until
  BY <1>1, <1>4
<1>10. Oracle!Challenge(k)
  BY <1>1, <1>2, <1>6, <1>7, <1>8, <1>9 DEF Oracle!Challenge, Shows
<1> QED
  BY <1>10 DEF Oracle!Next

\* finalize_market decides the question, whatever proposal it finalizes.
LEMMA FinalizeDecides ==
    ASSUME MarketAssumption, IInv, NEW k \in Condition, NEW w, FinalizeMarket(k, w),
           NEW p, proposal' = Put(proposal, k, p)
    PROVE  Oracle!Decide(k, w) /\ w \in 0..31 /\ Shows(k)
<1> DEFINE m == [market[k] EXCEPT !.status = "Resolved", !.resolved = TRUE, !.winner = w]
<1>1. /\ k \in DOMAIN market /\ ~market[k].resolved /\ w \in Outcomes(k)
      /\ market' = Put(market, k, m) /\ now' = now
  BY DEF FinalizeMarket
<1>2. w \in 0..31
  BY <1>1, Known DEF Outcomes
<1>3. m.resolved = TRUE /\ m.winner = w
  BY <1>1, Known DEF MarketRecord
<1> HIDE DEF m
<1>4. Verdict(k) = Undecided /\ Verdict(k)' = w
  BY <1>1, <1>3 DEF Verdict, Put
<1>5. Shows(k)
  BY <1>1, PutShows
<1> QED
  BY <1>1, <1>2, <1>4, <1>5 DEF Oracle!Decide, Shows

LEMMA FinalizeAccepts ==
    ASSUME MarketAssumption, IInv, NEW k \in Condition, FinalizeResolution(k)
    PROVE  Oracle!Next
<1> DEFINE p == [proposal[k] EXCEPT !.finalized = TRUE]
           w == proposal[k].outcome
<1>1. /\ k \in DOMAIN proposal /\ ~proposal[k].finalized /\ ~proposal[k].disputed
      /\ now >= proposal[k].deadline
      /\ proposal' = Put(proposal, k, p) /\ FinalizeMarket(k, w)
  BY DEF FinalizeResolution, Active
<1>2. proposal[k] \in ProposalRecord /\ ~IsRuling(proposal[k])
  BY <1>1, MapEntry, Known DEF IInv, TypeOK, Listed
<1>3. /\ proposal[k].disputed = FALSE /\ p.disputed = FALSE /\ ~IsRuling(p)
      /\ p.outcome = w /\ p.deadline = proposal[k].deadline
  BY <1>1, <1>2 DEF ProposalRecord, IsRuling
<1> HIDE DEF p
<1>4. ClaimOf(k) = [answer |-> w, until |-> proposal[k].deadline, challenged |-> FALSE]
  BY <1>1, <1>2, <1>3 DEF ClaimOf
<1>5. ClaimOf(k)' = ClaimOf(k)
  BY <1>1, <1>3, <1>4 DEF ClaimOf, Put
<1> HIDE DEF w
<1>6. Oracle!Decide(k, w) /\ Shows(k)
  BY <1>1, FinalizeDecides
<1>7. /\ ClaimOf(k) # NoClaim /\ ClaimOf(k).challenged = FALSE
      /\ ClaimOf(k).answer = w /\ now >= ClaimOf(k).until
  BY <1>1, <1>4 DEF NoClaim
<1>8. Oracle!Accept(k)
  BY <1>5, <1>6, <1>7 DEF Oracle!Accept, Shows
<1> QED
  BY <1>8 DEF Oracle!Next

LEMMA ResolveRules ==
    ASSUME MarketAssumption, IInv, NEW k \in Condition, NEW w, ResolveMarket(k, w)
    PROVE  Oracle!Next
<1> DEFINE p == [proposer |-> OracleOf[k], outcome |-> w, proposedAt |-> now,
                 deadline |-> now, disputed |-> FALSE, finalized |-> TRUE]
<1>1. proposal' = Put(proposal, k, p) /\ FinalizeMarket(k, w) /\ IsRuling(p)
  BY DEF ResolveMarket, IsRuling
<1> HIDE DEF p
<1>2. Oracle!Decide(k, w) /\ w \in 0..31 /\ Shows(k)
  BY <1>1, FinalizeDecides
<1>3. ClaimOf(k)' = NoClaim
  BY <1>1 DEF ClaimOf, NoClaim, Undecided, Put
<1>4. Oracle!Rule(k, w)
  BY <1>2, <1>3 DEF Oracle!Rule, Shows
<1> QED
  BY <1>2, <1>4 DEF Oracle!Next

LEMMA TickTicks == ASSUME MarketAssumption, IInv, Tick PROVE Oracle!Next
<1>1. now' \in Time /\ now' > now
  BY DEF Tick, IInv, TypeOK, Time, MarketAssumption
<1>2. market' = market /\ proposal' = proposal
  BY DEF Tick, resolutionVars
<1>3. \A c \in Condition : ClaimOf(c)' = ClaimOf(c) /\ Verdict(c)' = Verdict(c)
  BY <1>2 DEF ClaimOf, IsRuling, Verdict, NoClaim, Undecided
<1>4. Oracle!Tick
  BY <1>1, <1>3 DEF Oracle!Tick
<1> QED
  BY <1>4 DEF Oracle!Next

-----------------------------------------------------------------------------

LEMMA NextOracle == Assumptions /\ IInv /\ [Next]_vars => [Oracle!Next]_(Oracle!ovars)
<1> SUFFICES ASSUME Assumptions, IInv, [Next]_vars
             PROVE  Oracle!Next \/ Invisible
  BY InvisibleStutters
<1>1. MarketAssumption
  BY DEF Assumptions
<1>2. CASE AdminActions
  <2>1. UNCHANGED <<market, proposal, now>>
    BY <1>2 DEF AdminActions, Administer, SetResolutionDisputeWindow, SetMarketMetadata,
       resolutionVars
  <2> QED
    BY <2>1, UnchangedInvisible
<1>3. CASE CreationActions
  <2>1. CASE \E e \in Event, negRisk \in BOOLEAN : CreateEvent(e, negRisk)
    <3>1. UNCHANGED <<market, proposal, now>>
      BY <2>1 DEF CreateEvent, resolutionVars
    <3> QED
      BY <3>1, UnchangedInvisible
  <2>2. ASSUME NEW k, NEW type, NEW end, SetMarket(k, type, end)
        PROVE  Invisible
    BY <1>1, <2>2, SetMarketInvisible
  <2> QED
    BY <1>3, <2>1, <2>2 DEF CreationActions, CreateBinaryMarket,
       CreateBinaryMarketForEvent, CreateMultiOutcomeMarket, CreateNegRiskMarket
<1>4. CASE ResolutionActions
  <2>1. PICK k \in Condition :
            \/ PauseMarket(k)
            \/ UnpauseMarket(k)
            \/ \E resolver \in Account, outcome \in 0..SlotCount[k] :
                   ProposeResolution(resolver, k, outcome)
            \/ DisputeResolution(k)
            \/ FinalizeResolution(k)
            \/ \E outcome \in 0..SlotCount[k] : ResolveMarket(k, outcome)
    BY <1>4 DEF ResolutionActions
  <2>2. ASSUME PauseMarket(k) \/ UnpauseMarket(k) PROVE Invisible
    <3>1. k \in DOMAIN market /\ \E status : SetStatus(k, status)
      BY <2>2 DEF PauseMarket, UnpauseMarket
    <3> QED
      BY <1>1, <3>1, StatusInvisible
  <2> QED
    BY <1>1, <2>1, <2>2, ProposeClaims, DisputeChallenges, FinalizeAccepts, ResolveRules
<1>5. CASE Environment
  <2>1. CASE Tick
    BY <1>1, <2>1, TickTicks
  <2>2. CASE \/ \E k \in Condition : Prepare(k)
             \/ \E k \in Condition, payouts \in Payouts : ReportPayouts(k, payouts)
    <3>1. UNCHANGED <<market, proposal, now>>
      BY <2>2 DEF Prepare, ReportPayouts, marketVars
    <3> QED
      BY <3>1, UnchangedInvisible
  <2> QED
    BY <1>5, <2>1, <2>2 DEF Environment
<1>6. CASE UNCHANGED vars
  <2>1. UNCHANGED <<market, proposal, now>>
    BY <1>6 DEF vars
  <2> QED
    BY <2>1, UnchangedInvisible
<1> QED
  BY <1>2, <1>3, <1>4, <1>5, <1>6 DEF Next

\* The registry is an optimistic oracle: a market gets at most one verdict, and
\* it is a ruling of resolve_market, which leaves no claim on record, or the
\* answer of a proposal that stayed open to dispute until its deadline, was not
\* disputed, and was finalized at that deadline or after it.
THEOREM Implementation == Spec => ImplementsOptimisticOracle
<1>1. Assumptions
  BY ConditionAssumption, MarketAssumption DEF Assumptions
<1>2. IInv /\ [Next]_vars => [Oracle!Next]_(Oracle!ovars)
  BY <1>1, NextOracle
<1> QED
  BY <1>2, InitOracle, Invariance, PTL DEF Spec, Oracle!Spec, ImplementsOptimisticOracle

-----------------------------------------------------------------------------
(* The resolution workflow *)

WTypeOK ==
    /\ trading \in [Condition -> {"active", "paused", "resolved"}]
    /\ resolution \in [Condition -> Rows]
    /\ request \in [Request -> Requests \cup {Idle}]
    /\ lost \subseteq Condition
    /\ overlapped \in BOOLEAN

\* The transaction of r has been applied, and r has yet to record it.
Applied(r) == InFlight(r, "submitted") \/ InFlight(r, "answered")

Decides(r) == InFlight(r, "answered") /\ request[r].op \in {"finalize", "emergency"}

\* What holds however requests interleave.  The rows and the requests that have
\* decided a market follow the chain, and a market is decided by one of them.
Decisions ==
    /\ \A c \in Condition :
           resolution[c].status \in Decided \/ trading[c] = "resolved"
               => market[c].resolved
    /\ \A r \in Request :
           Decides(r) => /\ market[request[r].market].resolved
                         /\ resolution[request[r].market].status \notin Decided
    /\ \A r, s \in Request :
           Decides(r) /\ Decides(s) /\ request[r].market = request[s].market => r = s
    /\ \A r \in Request : InFlight(r, "submitted") => request[r].op = "propose"

\* The part of Admits that does not depend on the time.
Asked(op, status) ==
    CASE op = "propose" -> status \in {"none", "disputed"}
      [] op \in {"dispute", "finalize"} -> status = "proposed"
      [] op = "emergency" -> status \notin Decided
      [] op \in {"pause", "unpause"} -> status \notin {"proposed", "disputed"}

Proposed(c, outcome) == c \in DOMAIN proposal /\ proposal[c].outcome = outcome

ProposalRows ==
    \A c \in Condition :
        resolution[c].status = "proposed" => Proposed(c, resolution[c].proposed)

WinnerRows ==
    \A c \in Condition :
        resolution[c].status = "finalized" => resolution[c].final = market[c].winner

\* The rows of c, with trading status t and resolution status s, tell its story.
Told(c, t, s) ==
    /\ t = "resolved" <=> market[c].resolved
    /\ s = "none" <=> c \notin DOMAIN proposal
    /\ s = "disputed" <=> c \in DOMAIN proposal /\ proposal[c].disputed
    /\ s \in Decided <=> market[c].resolved
    /\ t = "active" => market[c].status # "Paused"

\* The rows of c tell its story as they are, or as the request that has changed c
\* on chain will leave them.
Truthful(c) ==
    /\ (\A r \in Request : Applied(r) => request[r].market # c)
           => Told(c, trading[c], resolution[c].status)
    /\ \A r \in Request : Applied(r) /\ request[r].market = c =>
           Told(c, WrittenStatus(request[r].op),
                Written(request[r], resolution[c]).status)

\* What holds as long as no two requests have been in flight at the same time: what
\* a request read of the rows is still there when it writes them.
Serial ==
    /\ \A r, s \in Busy : r = s
    /\ \A r \in Request : InFlight(r, "loaded") \/ Applied(r) =>
           Asked(request[r].op, resolution[request[r].market].status)
    /\ ProposalRows
    /\ \A r \in Request : Applied(r) /\ request[r].op = "propose" =>
           Proposed(request[r].market, request[r].outcome)
    /\ WinnerRows
    /\ \A c \in Condition \ lost : Truthful(c)

WInv ==
    /\ IInv
    /\ DOMAIN market = Condition
    /\ WTypeOK
    /\ Decisions
    /\ ~overlapped => Serial

WAssumptions == Assumptions /\ WorkflowAssumption

-----------------------------------------------------------------------------
(* The chain *)

\* What the transaction of a request does to its market and to its proposal.
Effect(op, c, outcome) ==
    /\ op = "propose" =>
            /\ c \in DOMAIN proposal' /\ proposal'[c].outcome = outcome
            /\ ~proposal'[c].disputed
            /\ ~market'[c].resolved /\ market'[c].status = "Closed"
    /\ op = "dispute" =>
            /\ market' = market /\ c \in DOMAIN proposal
            /\ c \in DOMAIN proposal' /\ proposal'[c].outcome = proposal[c].outcome
            /\ proposal'[c].disputed
    /\ op \in {"finalize", "emergency"} =>
            /\ c \in DOMAIN proposal
            /\ c \in DOMAIN proposal' /\ proposal'[c].outcome = proposal[c].outcome
            /\ ~proposal'[c].disputed
            /\ market'[c].resolved /\ market'[c].winner = proposal[c].outcome
    /\ op = "pause" =>
            /\ proposal' = proposal
            /\ ~market'[c].resolved /\ market'[c].status = "Paused"
    /\ op = "unpause" =>
            /\ proposal' = proposal
            /\ ~market'[c].resolved /\ market'[c].status # "Paused"

\* The market and the proposal of c are left alone.
Alone(c) ==
    /\ market'[c] = market[c]
    /\ c \in DOMAIN proposal' <=> c \in DOMAIN proposal
    /\ c \in DOMAIN proposal => proposal'[c] = proposal[c]

LEMMA TransactionEffect ==
    ASSUME WAssumptions, IInv, DOMAIN market = Condition,
           NEW op \in Op, NEW c \in Condition, NEW outcome, Transaction(op, c, outcome)
    PROVE  /\ DOMAIN market' = Condition
           /\ ~market[c].resolved
           /\ \A d \in Condition : d # c => Alone(d)
           /\ Effect(op, c, outcome)
<1>1. /\ market[c] \in MarketRecord /\ Listed(c)
  BY Known DEF WAssumptions, Assumptions
<1>2. c \in DOMAIN proposal => proposal[c] \in ProposalRecord
  BY MapEntry DEF IInv, TypeOK
<1>3. CASE op = "propose"
  <2>1. ProposeResolution(admin, c, outcome)
    BY <1>3 DEF Transaction
  <2>2. DOMAIN market' = Condition /\ ~market[c].resolved
    BY <2>1 DEF ProposeResolution, Put
  <2>3. \A d \in Condition : d # c => Alone(d)
    BY <2>1 DEF ProposeResolution, Put, Alone
  <2>4. /\ c \in DOMAIN proposal' /\ proposal'[c].outcome = outcome
        /\ ~proposal'[c].disputed
    BY <2>1 DEF ProposeResolution, Put
  <2>5. ~market'[c].resolved /\ market'[c].status = "Closed"
    BY <1>1, <2>1 DEF ProposeResolution, Put, MarketRecord
  <2> QED
    BY <1>3, <2>2, <2>3, <2>4, <2>5 DEF Effect
<1>4. CASE op = "dispute"
  <2>1. DisputeResolution(c)
    BY <1>4 DEF Transaction
  <2>2. market' = market /\ c \in DOMAIN proposal /\ ~proposal[c].finalized
    BY <2>1 DEF DisputeResolution, Active
  <2>3. ~market[c].resolved
    BY <1>1, <2>2 DEF Listed
  <2>4. \A d \in Condition : d # c => Alone(d)
    BY <2>1 DEF DisputeResolution, Put, Alone
  <2>5. /\ c \in DOMAIN proposal' /\ proposal'[c].outcome = proposal[c].outcome
        /\ proposal'[c].disputed
    BY <1>2, <2>1, <2>2 DEF DisputeResolution, Put, ProposalRecord
  <2> QED
    BY <1>4, <2>2, <2>3, <2>4, <2>5 DEF Effect
<1>5. CASE op \in {"finalize", "emergency"}
  <2>1. FinalizeResolution(c)
    BY <1>5 DEF Transaction
  <2>2. c \in DOMAIN proposal /\ ~proposal[c].disputed /\ ~market[c].resolved
    BY <2>1 DEF FinalizeResolution, FinalizeMarket, Active
  <2>3. DOMAIN market' = Condition /\ \A d \in Condition : d # c => Alone(d)
    BY <2>1 DEF FinalizeResolution, FinalizeMarket, Put, Alone
  <2>4. /\ c \in DOMAIN proposal' /\ proposal'[c].outcome = proposal[c].outcome
        /\ ~proposal'[c].disputed
    BY <1>2, <2>1, <2>2 DEF FinalizeResolution, Put, ProposalRecord
  <2>5. market'[c].resolved /\ market'[c].winner = proposal[c].outcome
    BY <1>1, <2>1 DEF FinalizeResolution, FinalizeMarket, Put, MarketRecord
  <2> QED
    BY <1>5, <2>2, <2>3, <2>4, <2>5 DEF Effect
<1>6. CASE op \in {"pause", "unpause"}
  <2>1. PICK status : SetStatus(c, status) /\ market[c].status # "Resolved"
                      /\ (op = "pause" => status = "Paused")
                      /\ (op = "unpause" => status # "Paused")
    <3>1. CASE op = "pause"
      BY <3>1 DEF Transaction, PauseMarket
    <3>2. CASE op = "unpause"
      <4>1. UnpauseMarket(c) /\ ~market[c].resolved
        BY <1>1, <3>2 DEF Transaction, UnpauseMarket, Listed
      <4>2. now \in Nat /\ market[c].end \in Nat
        BY <1>1, Known DEF WAssumptions, Assumptions, MarketRecord
      <4>3. CASE now >= market[c].end
        <5>1. SetStatus(c, "Closed")
          BY <4>1, <4>2, <4>3 DEF UnpauseMarket
        <5> QED
          BY <3>2, <4>1, <5>1 DEF UnpauseMarket
      <4>4. CASE now < market[c].end
        <5>1. SetStatus(c, "Open")
          BY <4>1, <4>2, <4>4 DEF UnpauseMarket
        <5> QED
          BY <3>2, <4>1, <5>1 DEF UnpauseMarket
      <4> QED
        BY <4>2, <4>3, <4>4
    <3> QED
      BY <1>6, <3>1, <3>2
  <2>2. ~market[c].resolved
    BY <1>1, <2>1 DEF Listed
  <2>3. DOMAIN market' = Condition /\ proposal' = proposal
        /\ \A d \in Condition : d # c => Alone(d)
    BY <2>1 DEF SetStatus, Put, Alone
  <2>4. ~market'[c].resolved /\ market'[c].status = status
    BY <1>1, <2>1, <2>2 DEF SetStatus, Put, MarketRecord
  <2> QED
    BY <1>6, <2>1, <2>2, <2>3, <2>4 DEF Effect
<1> QED
  BY <1>3, <1>4, <1>5, <1>6 DEF Op

\* A transaction is a step of the market contract.
LEMMA TransactionStep ==
    ASSUME WAssumptions, IInv, NEW op, NEW c \in Condition, NEW outcome,
           Transaction(op, c, outcome)
    PROVE  Next
<1>1. admin # NoAddress => admin \in Account
  BY DEF WAssumptions, WorkflowAssumption, IInv, TypeOK, AdminTypeOK
<1>2. ASSUME ProposeResolution(admin, c, outcome)
      PROVE  ResolutionActions
  <2>1. outcome \in 0..SlotCount[c]
    BY <1>2 DEF ProposeResolution, Outcomes, WAssumptions, WorkflowAssumption
  <2>2. admin \in Account
    <3>1. CASE admin = OracleOf[c]
      BY <3>1 DEF WAssumptions, Assumptions, MarketAssumption
    <3>2. CASE admin # OracleOf[c]
      BY <1>1, <1>2, <3>2 DEF ProposeResolution, Initialized
    <3> QED
      BY <3>1, <3>2
  <2> QED
    BY <1>2, <2>1, <2>2 DEF ResolutionActions
<1> QED
  BY <1>2 DEF Transaction, Next, ResolutionActions

\* The chain of the workflow does what the market contract does.
LEMMA ChainStep ==
    ASSUME WAssumptions, IInv, WTypeOK, [WorkflowNext]_wvars
    PROVE  [Next]_vars
<1>1. CASE \E r \in Request : Submit(r)
  <2> PICK r \in Request : Submit(r)
    BY <1>1
  <2>1. request[r].market \in Condition
    BY DEF Submit, InFlight, WTypeOK, Requests, Idle
  <2> QED
    BY <2>1, TransactionStep DEF Submit
<1>2. CASE WorkflowTick \/ \E w \in Windows : ChangeWindow(w)
  BY <1>2 DEF WorkflowTick, ChangeWindow, Next, Environment, AdminActions
<1>3. CASE UNCHANGED wvars
  BY <1>3 DEF wvars
<1>4. CASE \E r \in Request :
             \/ \E op \in Op, c \in Condition : \E outcome \in Outcomes(c) :
                    Begin(r, op, c, outcome)
             \/ Load(r) \/ ReadWindow(r) \/ Save(r) \/ Die(r)
  BY <1>4 DEF Begin, Load, ReadWindow, Save, Die
<1> QED
  BY <1>1, <1>2, <1>3, <1>4 DEF WorkflowNext

\* A resolution on chain is kept.
LEMMA ChainKeeps ==
    ASSUME WAssumptions, IInv, WTypeOK, [WorkflowNext]_wvars,
           NEW c \in DOMAIN market, market[c].resolved
    PROVE  Kept(c)
<1>1. CASE Next
  BY <1>1, NextKeeps DEF WAssumptions
<1>2. CASE UNCHANGED vars
  BY <1>2 DEF vars, conditionVars, Kept
<1> QED
  BY <1>1, <1>2, ChainStep

-----------------------------------------------------------------------------
(* Types *)

LEMMA WrittenType ==
    ASSUME MarketAssumption, NEW q \in Requests, NEW row \in Rows
    PROVE  /\ Written(q, row) \in Rows
           /\ WrittenStatus(q.op) \in {"active", "paused", "resolved"}
<1>1. /\ q.op \in Op /\ q.outcome \in Nat /\ q.deadline \in Nat
      /\ q.at \in Nat /\ NullOutcome \in Nat
  BY DEF Requests, Time, MarketAssumption, NullOutcome
<1>2. CASE q.op = "propose"
  BY <1>1, <1>2 DEF Written, WrittenStatus, Rows
<1>3. CASE q.op = "dispute"
  BY <1>3 DEF Written, WrittenStatus, Rows
<1>4. CASE q.op = "finalize"
  BY <1>4 DEF Written, WrittenStatus, Rows, Decided
<1>5. CASE q.op = "emergency"
  BY <1>1, <1>5 DEF Written, WrittenStatus, Rows, Decided
<1>6. CASE q.op = "pause"
  BY <1>6 DEF Written, WrittenStatus, Rows
<1>7. CASE q.op = "unpause"
  BY <1>7 DEF Written, WrittenStatus, Rows
<1> QED
  BY <1>1, <1>2, <1>3, <1>4, <1>5, <1>6, <1>7 DEF Op

\* A proposal with its deadline, ready to be written.
Dated(q, deadline) == [q EXCEPT !.stage = "answered", !.deadline = deadline]

LEMMA DatedType ==
    ASSUME NEW q \in Requests, NEW d \in Nat
    PROVE  Dated(q, d) \in Requests
BY DEF Dated, Requests

LEMMA WTypeStep ==
    ASSUME WAssumptions, IInv, WTypeOK, [WorkflowNext]_wvars
    PROVE  WTypeOK'
<1>1. MarketAssumption /\ now \in Time /\ Time \subseteq Nat
  BY DEF WAssumptions, Assumptions, IInv, TypeOK, Time
<1>2. ASSUME NEW r \in Request, NEW op \in Op, NEW c \in Condition,
             NEW outcome \in Outcomes(c), Begin(r, op, c, outcome)
      PROVE  WTypeOK'
  <2>1. [stage |-> "begun", op |-> op, market |-> c, outcome |-> outcome,
         at |-> now, deadline |-> 0] \in Requests
    BY <1>1 DEF Requests, Outcomes, WAssumptions, WorkflowAssumption
  <2> QED
    BY <1>2, <2>1 DEF Begin, WTypeOK
<1>3. ASSUME NEW r \in Request, Load(r)
      PROVE  WTypeOK'
  BY <1>3 DEF Load, Advance, InFlight, WTypeOK, rows, Requests, Idle
<1>4. ASSUME NEW r \in Request, Submit(r)
      PROVE  WTypeOK'
  BY <1>4 DEF Submit, Advance, InFlight, WTypeOK, rows, Requests, Idle
<1>5. ASSUME NEW r \in Request, ReadWindow(r)
      PROVE  WTypeOK'
  <2>1. request[r] \in Requests /\ request[r].at \in Nat
    BY <1>1, <1>5 DEF ReadWindow, InFlight, WTypeOK, Requests, Idle
  <2>2. window \in Nat /\ DefaultWindow \in Nat
    BY <1>1 DEF MarketAssumption, IInv, TypeOK
  <2>3. PICK w \in Nat :
           request' = [request EXCEPT ![r] =
               [@ EXCEPT !.stage = "answered", !.deadline = request[r].at + w]]
    BY <1>5, <2>2 DEF ReadWindow
  <2>4. request'[r] \in Requests
    <3>1. request[r].at + w \in Nat
      BY <2>1
    <3>2. request'[r] = Dated(request[r], request[r].at + w)
      BY <1>5, <2>3 DEF WTypeOK, Dated
    <3> QED
      BY <2>1, <3>1, <3>2, DatedType
  <2> QED
    BY <1>5, <2>3, <2>4 DEF ReadWindow, WTypeOK, rows
<1>6. ASSUME NEW r \in Request, Save(r)
      PROVE  WTypeOK'
  <2>1. request[r] \in Requests /\ request[r].market \in Condition
    BY <1>6 DEF Save, InFlight, WTypeOK, Requests, Idle
  <2>2. /\ Written(request[r], resolution[request[r].market]) \in Rows
        /\ WrittenStatus(request[r].op) \in {"active", "paused", "resolved"}
    BY <1>1, <2>1, WrittenType DEF WTypeOK
  <2> QED
    BY <1>6, <2>1, <2>2 DEF Save, WTypeOK
<1>7. ASSUME NEW r \in Request, Die(r)
      PROVE  WTypeOK'
  <2>1. request[r].market \in Condition
    BY <1>7 DEF Die, InFlight, WTypeOK, Requests, Idle
  <2> QED
    BY <1>7, <2>1 DEF Die, WTypeOK
<1>8. CASE UNCHANGED <<rows, request>>
  BY <1>8 DEF WTypeOK, rows
<1> QED
  BY <1>2, <1>3, <1>4, <1>5, <1>6, <1>7, <1>8
     DEF WorkflowNext, WorkflowTick, ChangeWindow, wvars

-----------------------------------------------------------------------------
(* Decisions *)

\* A request in flight is a record, an idle one is not.
LEMMA Flying ==
    ASSUME WTypeOK, NEW r \in Request, request[r].stage # "idle"
    PROVE  /\ request[r] \in Requests
           /\ request[r].op \in Op /\ request[r].market \in Condition
BY DEF WTypeOK, Requests, Idle

\* A step that decides nothing: the rows are left alone, and every request that has
\* decided a market had decided it before.
LEMMA UndecidedStep ==
    ASSUME Decisions, UNCHANGED <<trading, resolution>>,
           \A c \in Condition : market[c].resolved => market'[c].resolved,
           \A s \in Request : Decides(s)' => /\ Decides(s)
                                            /\ request'[s].market = request[s].market
                                            /\ request[s].market \in Condition,
           \A s \in Request : InFlight(s, "submitted")' => request'[s].op = "propose"
    PROVE  Decisions'
BY DEF Decisions

LEMMA DecisionsStep ==
    ASSUME WAssumptions, IInv, DOMAIN market = Condition, WTypeOK, Decisions,
           [WorkflowNext]_wvars
    PROVE  DOMAIN market' = Condition /\ Decisions'
<1>1. \A c \in Condition : market[c].resolved => market'[c].resolved
  BY ChainKeeps DEF Kept
<1>2. \A s \in Request : Decides(s) => request[s].market \in Condition
  BY Flying DEF Decides, InFlight
<1>3. ASSUME NEW r \in Request,
             \/ \E op \in Op, c \in Condition : \E outcome : Begin(r, op, c, outcome)
             \/ Load(r) \/ Die(r)
      PROVE  DOMAIN market' = Condition /\ Decisions'
  <2>1. UNCHANGED <<vars, trading, resolution>>
    BY <1>3 DEF Begin, Load, Die, rows
  <2>2. request' = [request EXCEPT ![r] = request'[r]]
        /\ request'[r].stage \in {"begun", "loaded", "idle"}
    <3>1. CASE \E op \in Op, c \in Condition : \E outcome : Begin(r, op, c, outcome)
      BY <3>1 DEF Begin, WTypeOK
    <3>2. CASE Load(r)
      BY <3>2, Flying DEF Load, Advance, WTypeOK, InFlight, Requests
    <3>3. CASE Die(r)
      BY <3>3 DEF Die, WTypeOK, Idle
    <3> QED
      BY <1>3, <3>1, <3>2, <3>3
  <2>3. \A s \in Request : s # r => request'[s] = request[s]
    BY <2>2 DEF WTypeOK
  <2>4. /\ \A s \in Request : Decides(s)' => s # r /\ Decides(s)
        /\ \A s \in Request :
               InFlight(s, "submitted")' => s # r /\ InFlight(s, "submitted")
    BY <2>2, <2>3 DEF Decides, InFlight
  <2>5. DOMAIN market' = Condition
    BY <2>1 DEF vars
  <2>6. \A s \in Request : InFlight(s, "submitted")' => request'[s].op = "propose"
    BY <2>3, <2>4 DEF Decisions
  <2> QED
    BY <1>1, <1>2, <2>1, <2>3, <2>4, <2>5, <2>6, UndecidedStep
<1>4. ASSUME NEW r \in Request, ReadWindow(r)
      PROVE  DOMAIN market' = Condition /\ Decisions'
  <2>1. /\ UNCHANGED <<vars, trading, resolution>> /\ InFlight(r, "submitted")
        /\ \A s \in Request : s # r => request'[s] = request[s]
    BY <1>4 DEF ReadWindow, rows, WTypeOK
  <2>2. request[r].op = "propose"
    BY <2>1 DEF Decisions
  <2>3. request'[r].stage = "answered" /\ request'[r].op = "propose"
    <3>1. request[r] \in Requests
      BY <2>1, Flying DEF InFlight
    <3>2. PICK w \in {window, DefaultWindow} :
             request'[r] = Dated(request[r], request[r].at + w)
      BY <1>4 DEF ReadWindow, Dated, WTypeOK
    <3> QED
      BY <2>2, <3>1, <3>2 DEF Dated, Requests
  <2>4. /\ \A s \in Request : Decides(s)' => s # r /\ Decides(s)
        /\ \A s \in Request :
               InFlight(s, "submitted")' => s # r /\ InFlight(s, "submitted")
    BY <2>1, <2>3 DEF Decides, InFlight
  <2>5. DOMAIN market' = Condition
    BY <2>1 DEF vars
  <2>6. \A s \in Request : InFlight(s, "submitted")' => request'[s].op = "propose"
    BY <2>1, <2>4 DEF Decisions
  <2> QED
    BY <1>1, <1>2, <2>1, <2>4, <2>5, <2>6, UndecidedStep
<1>5. ASSUME NEW r \in Request, Submit(r)
      PROVE  DOMAIN market' = Condition /\ Decisions'
  <2> DEFINE q == request[r]
  <2>1. /\ InFlight(r, "loaded") /\ UNCHANGED <<trading, resolution>>
        /\ \A s \in Request : s # r => request'[s] = request[s]
    BY <1>5 DEF Submit, Advance, rows, WTypeOK
  <2>2. q \in Requests /\ q.op \in Op /\ q.market \in Condition
    BY <2>1, Flying DEF InFlight
  <2>3. /\ DOMAIN market' = Condition
        /\ ~market[q.market].resolved
        /\ Effect(q.op, q.market, q.outcome)
    BY <1>5, <2>2, TransactionEffect DEF Submit
  <2>4. /\ request'[r].op = q.op /\ request'[r].market = q.market
        /\ request'[r].stage = IF q.op = "propose" THEN "submitted" ELSE "answered"
    BY <1>5, <2>2 DEF Submit, Advance, WTypeOK, Requests
  <2>5. CASE q.op \in {"finalize", "emergency"}
    <3>1. market'[q.market].resolved /\ resolution[q.market].status \notin Decided
      BY <2>2, <2>3, <2>5 DEF Effect, Decisions
    <3>2. \A s \in Request : Decides(s)' <=> s = r \/ Decides(s)
      BY <2>1, <2>4, <2>5 DEF Decides, InFlight
    <3>3. \A s \in Request : Decides(s) => s # r /\ request[s].market # q.market
      BY <2>1, <2>3 DEF Decisions, Decides, InFlight
    <3>4. \A s \in Request : InFlight(s, "submitted")' => request'[s].op = "propose"
      BY <2>1, <2>4 DEF Decisions, InFlight
    <3> QED
      BY <1>1, <1>2, <2>1, <2>3, <2>4, <3>1, <3>2, <3>3, <3>4 DEF Decisions
  <2>6. CASE q.op \notin {"finalize", "emergency"}
    <3>1. \A s \in Request : Decides(s)' => s # r /\ Decides(s)
      BY <2>1, <2>4, <2>6 DEF Decides, InFlight
    <3>2. \A s \in Request : InFlight(s, "submitted")' => request'[s].op = "propose"
      BY <2>1, <2>4 DEF Decisions, InFlight
    <3> QED
      BY <1>1, <1>2, <2>1, <2>3, <3>1, <3>2, UndecidedStep
  <2> QED
    BY <2>5, <2>6
<1>6. ASSUME NEW r \in Request, Save(r)
      PROVE  DOMAIN market' = Condition /\ Decisions'
  <2> DEFINE q == request[r]
  <2>1. /\ InFlight(r, "answered") /\ UNCHANGED vars /\ request'[r] = Idle
        /\ \A s \in Request : s # r => request'[s] = request[s]
    BY <1>6 DEF Save, WTypeOK
  <2>2. q \in Requests /\ q.op \in Op /\ q.market \in Condition
    BY <2>1, Flying DEF InFlight
  <2>3. /\ trading'[q.market] = WrittenStatus(q.op)
        /\ resolution'[q.market] = Written(q, resolution[q.market])
        /\ \A c \in Condition : c # q.market =>
               trading'[c] = trading[c] /\ resolution'[c] = resolution[c]
    BY <1>6, <2>2 DEF Save, WTypeOK
  <2>4. /\ DOMAIN market' = Condition
        /\ \A s \in Request : Decides(s)' => s # r /\ Decides(s)
        /\ \A s \in Request :
               InFlight(s, "submitted")' => s # r /\ InFlight(s, "submitted")
    BY <2>1 DEF vars, Decides, InFlight, Idle
  <2>5. CASE q.op \in {"finalize", "emergency"}
    <3>1. Decides(r)
      BY <2>1, <2>5 DEF Decides
    <3>2. market[q.market].resolved
      BY <3>1 DEF Decisions
    <3>3. \A s \in Request : Decides(s)' => request[s].market # q.market
      BY <2>4, <3>1 DEF Decisions
    <3> QED
      BY <1>1, <1>2, <2>1, <2>3, <2>4, <3>2, <3>3 DEF Decisions
  <2>6. CASE q.op \notin {"finalize", "emergency"}
    <3>1. /\ WrittenStatus(q.op) # "resolved"
          /\ resolution'[q.market].status \in Decided
                 => resolution[q.market].status \in Decided
      <4>1. resolution[q.market] \in Rows
        BY <2>2 DEF WTypeOK
      <4>2. CASE q.op = "propose"
        BY <2>3, <4>2 DEF Written, WrittenStatus, Decided
      <4>3. CASE q.op = "dispute"
        BY <2>3, <4>1, <4>3 DEF Written, WrittenStatus, Decided, Rows
      <4>4. CASE q.op \in {"pause", "unpause"}
        <5>1. Written(q, resolution[q.market]) = resolution[q.market]
          BY <4>4 DEF Written
        <5> QED
          BY <2>3, <4>4, <5>1 DEF WrittenStatus
      <4> QED
        BY <2>2, <2>6, <4>2, <4>3, <4>4 DEF Op
    <3> QED
      BY <1>1, <1>2, <2>1, <2>3, <2>4, <3>1 DEF Decisions
  <2> QED
    BY <2>5, <2>6
<1>7. CASE UNCHANGED <<rows, request, resolutionVars>>
  <2>1. UNCHANGED <<trading, resolution, request, market>>
    BY <1>7 DEF rows, resolutionVars
  <2> QED
    BY <1>2, <2>1, UndecidedStep DEF Decides, InFlight, Decisions
<1>8. WorkflowTick \/ (\E w \in Windows : ChangeWindow(w)) \/ UNCHANGED wvars
         => UNCHANGED <<rows, request, resolutionVars>>
  BY DEF WorkflowTick, Tick, ChangeWindow, SetResolutionDisputeWindow, wvars, vars,
     resolutionVars
<1>9. CASE \E r \in Request, op \in Op, c \in Condition : \E outcome :
             Begin(r, op, c, outcome)
  BY <1>3, <1>9
<1> QED
  BY <1>3, <1>4, <1>5, <1>6, <1>7, <1>8, <1>9 DEF WorkflowNext

-----------------------------------------------------------------------------
(* One request at a time *)

LEMMA AdmitsAsked ==
    ASSUME NEW op \in Op, NEW row, Admits(op, row)
    PROVE  Asked(op, row.status)
<1>1. CASE op = "propose"
  BY <1>1 DEF Admits, Asked
<1>2. CASE op = "dispute"
  BY <1>2 DEF Admits, Asked
<1>3. CASE op = "finalize"
  BY <1>3 DEF Admits, Asked
<1>4. CASE op = "emergency"
  BY <1>4 DEF Admits, Asked
<1>5. CASE op \in {"pause", "unpause"}
  BY <1>5 DEF Admits, Asked
<1> QED
  BY <1>1, <1>2, <1>3, <1>4, <1>5 DEF Op

\* What a request leaves in the two rows.
LEMMA WrittenIs ==
    ASSUME NEW q, q.op \in Op, NEW row \in Rows
    PROVE  /\ q.op = "propose" => /\ Written(q, row).status = "proposed"
                                 /\ Written(q, row).proposed = q.outcome
                                 /\ WrittenStatus(q.op) = "paused"
           /\ q.op = "dispute" => /\ Written(q, row).status = "disputed"
                                 /\ WrittenStatus(q.op) = "paused"
           /\ q.op = "finalize" => /\ Written(q, row).status = "finalized"
                                  /\ Written(q, row).final = row.proposed
                                  /\ WrittenStatus(q.op) = "resolved"
           /\ q.op = "emergency" => /\ Written(q, row).status = "emergency_resolved"
                                   /\ WrittenStatus(q.op) = "resolved"
           /\ q.op = "pause" => /\ Written(q, row) = row
                               /\ WrittenStatus(q.op) = "paused"
           /\ q.op = "unpause" => /\ Written(q, row) = row
                                 /\ WrittenStatus(q.op) = "active"
<1>1. q.op = "propose" => /\ Written(q, row).status = "proposed"
                          /\ Written(q, row).proposed = q.outcome
                          /\ WrittenStatus(q.op) = "paused"
  BY DEF Written, WrittenStatus
<1>2. q.op = "dispute" => /\ Written(q, row).status = "disputed"
                          /\ WrittenStatus(q.op) = "paused"
  BY DEF Written, WrittenStatus, Rows
<1>3. q.op = "finalize" => /\ Written(q, row).status = "finalized"
                           /\ Written(q, row).final = row.proposed
                           /\ WrittenStatus(q.op) = "resolved"
  BY DEF Written, WrittenStatus, Rows
<1>4. q.op = "emergency" => /\ Written(q, row).status = "emergency_resolved"
                            /\ WrittenStatus(q.op) = "resolved"
  BY DEF Written, WrittenStatus
<1>5. q.op = "pause" => Written(q, row) = row /\ WrittenStatus(q.op) = "paused"
  BY DEF Written, WrittenStatus
<1>6. q.op = "unpause" => Written(q, row) = row /\ WrittenStatus(q.op) = "active"
  BY DEF Written, WrittenStatus
<1> QED
  BY <1>1, <1>2, <1>3, <1>4, <1>5, <1>6

\* While r is in flight, and nobody has met another request, the others are idle.
LEMMA OthersIdle ==
    ASSUME Serial, NEW r \in Request, request[r].stage # "idle"
    PROVE  \A s \in Request : s # r => request[s].stage = "idle"
BY DEF Serial, Busy, InFlight

\* The rows of a market tell its story when no request has changed it on chain.
LEMMA Telling ==
    ASSUME Serial, NEW c \in Condition \ lost,
           \A r \in Request : Applied(r) => request[r].market # c
    PROVE  Told(c, trading[c], resolution[c].status)
BY DEF Serial, Truthful

\* A step that ends the only request in flight, or that leaves all idle.
LEMMA IdleSerial ==
    ASSUME \A s \in Request : request'[s].stage = "idle",
           \A c \in Condition : resolution'[c].status = "proposed"
               => /\ c \in DOMAIN proposal'
                  /\ proposal'[c].outcome = resolution'[c].proposed,
           \A c \in Condition : resolution'[c].status = "finalized"
               => resolution'[c].final = market'[c].winner,
           \A c \in Condition : c \notin lost' =>
               Told(c, trading[c], resolution[c].status)'
    PROVE  Serial'
BY DEF Serial, ProposalRows, WinnerRows, Busy, InFlight, Applied, Proposed, Truthful

LEMMA BeginSerial ==
    ASSUME WInv, Serial, NEW r \in Request, NEW op \in Op, NEW c \in Condition,
           NEW outcome, Begin(r, op, c, outcome), ~overlapped'
    PROVE  Serial'
<1>1. /\ \A s \in Request : s # r => request'[s].stage = "idle"
      /\ \A s \in Request : request[s].stage = "idle"
      /\ request'[r].stage = "begun"
      /\ UNCHANGED <<market, proposal, trading, resolution, lost>>
  <2>1. Busy = {}
    BY DEF Begin, WInv, WTypeOK
  <2>2. \A s \in Request : request[s].stage = "idle"
    BY <2>1 DEF Busy, InFlight
  <2>3. request' = [request EXCEPT ![r] =
           [stage |-> "begun", op |-> op, market |-> c, outcome |-> outcome,
            at |-> now, deadline |-> 0]]
    BY DEF Begin
  <2>4. UNCHANGED <<market, proposal, trading, resolution, lost>>
    BY DEF Begin, vars
  <2> QED
    BY <2>2, <2>3, <2>4 DEF WInv, WTypeOK
<1>2. \A s \in Request : ~Applied(s) /\ ~Applied(s)' /\ ~InFlight(s, "loaded")'
  BY <1>1 DEF Applied, InFlight
<1>3. \A d \in Condition \ lost : Told(d, trading[d], resolution[d].status)
  BY <1>2, Telling
<1>4. \A d \in Condition \ lost' : Truthful(d)'
  BY <1>1, <1>2, <1>3 DEF Told, Truthful
<1>5. \A s, u \in Busy' : s = u
  BY <1>1 DEF Busy, InFlight
<1>6. ProposalRows' /\ WinnerRows'
  BY <1>1 DEF Serial, ProposalRows, WinnerRows, Proposed
<1> QED
  BY <1>2, <1>4, <1>5, <1>6 DEF Serial

LEMMA LoadSerial ==
    ASSUME WInv, Serial, NEW r \in Request, Load(r)
    PROVE  Serial'
<1>1. /\ request[r].stage = "begun"
      /\ Admits(request[r].op, resolution[request[r].market])
      /\ UNCHANGED <<market, proposal, trading, resolution, lost>>
  BY DEF Load, InFlight, vars, rows
<1>2. request[r] \in Requests /\ request[r].op \in Op
  BY <1>1, Flying DEF WInv
<1>3. /\ request'[r].stage = "loaded" /\ request'[r].op = request[r].op
      /\ request'[r].market = request[r].market
      /\ \A s \in Request : s # r =>
             request'[s] = request[s] /\ request[s].stage = "idle"
  BY <1>1, <1>2, OthersIdle DEF Load, Advance, WInv, WTypeOK, Requests
<1>4. \A s \in Request : ~Applied(s) /\ ~Applied(s)'
  BY <1>1, <1>3 DEF Applied, InFlight
<1>5. \A d \in Condition \ lost : Told(d, trading[d], resolution[d].status)
  BY <1>4, Telling
<1>6. \A d \in Condition \ lost' : Truthful(d)'
  BY <1>1, <1>4, <1>5 DEF Told, Truthful
<1>7. \A s, u \in Busy' : s = u
  BY <1>3 DEF Busy, InFlight
<1>8. \A s \in Request : InFlight(s, "loaded")' =>
          Asked(request[s].op, resolution[request[s].market].status)'
  <2>1. Asked(request[r].op, resolution[request[r].market].status)
    BY <1>1, <1>2, AdmitsAsked
  <2> QED
    BY <1>1, <1>3, <2>1 DEF InFlight, Asked
<1>9. ProposalRows' /\ WinnerRows'
  BY <1>1 DEF Serial, ProposalRows, WinnerRows, Proposed
<1> QED
  BY <1>4, <1>6, <1>7, <1>8, <1>9 DEF Serial

\* A transaction takes a market whose story is told to the story that its request
\* will leave in the rows.
LEMMA ToldAfter ==
    ASSUME NEW q, q.op \in Op, NEW row \in Rows, NEW c \in Condition, NEW t,
           ~market[c].resolved, Effect(q.op, c, q.outcome),
           Told(c, t, row.status), Asked(q.op, row.status)
    PROVE  /\ WrittenStatus(q.op) = "resolved" <=> market'[c].resolved
           /\ Written(q, row).status = "none" <=> c \notin DOMAIN proposal'
           /\ Written(q, row).status = "disputed"
                  <=> c \in DOMAIN proposal' /\ proposal'[c].disputed
           /\ Written(q, row).status \in Decided <=> market'[c].resolved
           /\ WrittenStatus(q.op) = "active" => market'[c].status # "Paused"
<1>1. CASE q.op = "propose"
  BY <1>1, WrittenIs DEF Effect, Decided
<1>2. CASE q.op = "dispute"
  BY <1>2, WrittenIs DEF Effect, Decided
<1>3. CASE q.op = "finalize"
  BY <1>3, WrittenIs DEF Effect, Decided
<1>4. CASE q.op = "emergency"
  BY <1>4, WrittenIs DEF Effect, Decided
<1>5. CASE q.op \in {"pause", "unpause"}
  BY <1>5, WrittenIs DEF Effect, Told
<1> QED
  BY <1>1, <1>2, <1>3, <1>4, <1>5 DEF Op

LEMMA SubmitSerial ==
    ASSUME WAssumptions, WInv, Serial, NEW r \in Request, Submit(r)
    PROVE  Serial'
<1> DEFINE q == request[r]
           m == q.market
<1>1. /\ q.stage = "loaded" /\ q \in Requests /\ q.op \in Op /\ m \in Condition
      /\ UNCHANGED <<trading, resolution, lost>>
  BY Flying DEF Submit, InFlight, rows, WInv
<1>2. /\ request'[r].stage \in {"submitted", "answered"}
      /\ request'[r].op = q.op /\ request'[r].market = m
      /\ request'[r].outcome = q.outcome
      /\ \A s \in Request : s # r =>
             request'[s] = request[s] /\ request[s].stage = "idle"
  BY <1>1, OthersIdle DEF Submit, Advance, WInv, WTypeOK, Requests
<1>3. /\ ~market[m].resolved
      /\ \A d \in Condition : d # m => Alone(d)
      /\ Effect(q.op, m, q.outcome)
  BY <1>1, TransactionEffect DEF Submit, WInv
<1>4. Asked(q.op, resolution[m].status) /\ resolution[m] \in Rows
  BY <1>1 DEF Serial, InFlight, WInv, WTypeOK
<1>5. \A s \in Request : ~Applied(s) /\ (Applied(s)' <=> s = r) /\ ~InFlight(s, "loaded")'
  BY <1>1, <1>2 DEF Applied, InFlight
<1>6. \A d \in Condition \ lost : Told(d, trading[d], resolution[d].status)
  BY <1>5, Telling
<1>7. ASSUME NEW d \in Condition \ lost' PROVE Truthful(d)'
  <2>1. CASE d = m
    <3>1. Written(request'[r], resolution[m]).status = Written(q, resolution[m]).status
      BY <1>1, <1>2, <1>4, WrittenIs DEF Op
    <3>2. Told(m, trading[m], resolution[m].status)
      BY <1>1, <1>6, <2>1
    <3> HIDE DEF q, m
    <3>3. /\ WrittenStatus(q.op) = "resolved" <=> market'[m].resolved
          /\ Written(q, resolution[m]).status = "none" <=> m \notin DOMAIN proposal'
          /\ Written(q, resolution[m]).status = "disputed"
                 <=> m \in DOMAIN proposal' /\ proposal'[m].disputed
          /\ Written(q, resolution[m]).status \in Decided <=> market'[m].resolved
          /\ WrittenStatus(q.op) = "active" => market'[m].status # "Paused"
      BY <1>1, <1>3, <1>4, <3>2, ToldAfter
    <3> QED
      BY <1>1, <1>2, <1>5, <2>1, <3>1, <3>3 DEF Truthful, Told
  <2>2. CASE d # m
    BY <1>1, <1>2, <1>3, <1>5, <1>6, <2>2 DEF Truthful, Told, Alone
  <2> QED
    BY <2>1, <2>2
<1>8. \A s, u \in Busy' : s = u
  BY <1>2 DEF Busy, InFlight
<1>9. ProposalRows'
  <2>1. ASSUME NEW d \in Condition, resolution[d].status = "proposed"
        PROVE  d \in DOMAIN proposal' /\ proposal'[d].outcome = resolution[d].proposed
    <3>1. d \in DOMAIN proposal /\ proposal[d].outcome = resolution[d].proposed
      BY <2>1 DEF Serial, ProposalRows, Proposed
    <3>2. CASE d # m
      BY <1>3, <3>1, <3>2 DEF Alone
    <3>3. CASE d = m
      BY <1>1, <1>3, <1>4, <2>1, <3>1, <3>3 DEF Effect, Asked, Op
    <3> QED
      BY <3>2, <3>3
  <2> QED
    BY <1>1, <2>1 DEF ProposalRows, Proposed
<1>10. WinnerRows'
  <2>1. resolution[m].status # "finalized"
    BY <1>1, <1>3 DEF WInv, Decisions, Decided
  <2> QED
    BY <1>1, <1>3, <2>1 DEF Serial, WinnerRows, Alone
<1>11. q.op = "propose" => m \in DOMAIN proposal' /\ proposal'[m].outcome = q.outcome
  BY <1>3 DEF Effect
<1>12. \A s \in Request : Applied(s)' /\ request'[s].op = "propose" =>
          Proposed(request[s].market, request[s].outcome)'
  BY <1>2, <1>5, <1>11 DEF Proposed
<1>13. Asked(request'[r].op, resolution'[request'[r].market].status)
  BY <1>1, <1>2, <1>4
<1>14. \A s \in Request : InFlight(s, "loaded")' \/ Applied(s)' =>
          Asked(request'[s].op, resolution'[request'[s].market].status)
  BY <1>5, <1>13
<1> QED
  BY <1>7, <1>8, <1>9, <1>10, <1>12, <1>14 DEF Serial

LEMMA ReadWindowSerial ==
    ASSUME WInv, Serial, NEW r \in Request, ReadWindow(r)
    PROVE  Serial'
<1> DEFINE q == request[r]
<1>1. /\ q.stage = "submitted" /\ q \in Requests /\ q.op \in Op /\ q.market \in Condition
      /\ UNCHANGED <<market, proposal, trading, resolution, lost>>
  BY Flying DEF ReadWindow, InFlight, vars, rows, WInv
<1>2. /\ request'[r].stage = "answered"
      /\ request'[r].op = q.op /\ request'[r].market = q.market
      /\ request'[r].outcome = q.outcome
      /\ \A s \in Request : s # r =>
             request'[s] = request[s] /\ request[s].stage = "idle"
  <2>1. PICK w \in {window, DefaultWindow} :
           request' = [request EXCEPT ![r] = Dated(q, q.at + w)]
    BY DEF ReadWindow, Dated
  <2>2. request'[r] = Dated(q, q.at + w)
        /\ \A s \in Request : s # r => request'[s] = request[s]
    BY <2>1 DEF WInv, WTypeOK
  <2> QED
    BY <1>1, <2>2, OthersIdle DEF Dated, Requests
<1>3. /\ Applied(r) /\ Applied(r)'
      /\ \A s \in Request : s # r => ~Applied(s) /\ ~Applied(s)'
      /\ \A s \in Request : ~InFlight(s, "loaded")'
  BY <1>1, <1>2 DEF Applied, InFlight
<1>4. resolution[q.market] \in Rows
  BY <1>1 DEF WInv, WTypeOK
<1>5. Written(request'[r], resolution[q.market]).status
         = Written(q, resolution[q.market]).status
  BY <1>1, <1>2, <1>4, WrittenIs DEF Op
<1>6. ASSUME NEW d \in Condition \ lost' PROVE Truthful(d)'
  <2>1. Truthful(d)
    BY <1>1 DEF Serial
  <2>2. CASE d = q.market
    <3>1. Told(d, WrittenStatus(q.op), Written(q, resolution[d]).status)
      BY <1>3, <2>1, <2>2 DEF Truthful
    <3>2. Told(d, WrittenStatus(request[r].op),
               Written(request[r], resolution[d]).status)'
      <4>1. /\ resolution' = resolution /\ market' = market /\ proposal' = proposal
            /\ request'[r].op = q.op
            /\ Written(request'[r], resolution[d]).status
                  = Written(q, resolution[d]).status
        BY <1>1, <1>2, <1>5, <2>2
      <4> QED
        BY <3>1, <4>1 DEF Told
    <3> QED
      BY <1>2, <1>3, <2>2, <3>2 DEF Truthful
  <2>3. CASE d # q.market
    <3>1. Told(d, trading[d], resolution[d].status)
      BY <1>3, <2>1, <2>3 DEF Truthful
    <3> QED
      BY <1>1, <1>2, <1>3, <2>3, <3>1 DEF Truthful, Told
  <2> QED
    BY <2>2, <2>3
<1>7. \A s, u \in Busy' : s = u
  BY <1>2 DEF Busy, InFlight
<1>8. ProposalRows' /\ WinnerRows'
  BY <1>1 DEF Serial, ProposalRows, WinnerRows, Proposed
<1>9. \A s \in Request : Applied(s)' /\ request'[s].op = "propose" =>
          Proposed(request[s].market, request[s].outcome)'
  BY <1>1, <1>2, <1>3 DEF Serial, Proposed
<1>10. Asked(q.op, resolution[q.market].status)
  BY <1>3 DEF Serial
<1>11. \A s \in Request : InFlight(s, "loaded")' \/ Applied(s)' =>
          Asked(request'[s].op, resolution'[request'[s].market].status)
  BY <1>1, <1>2, <1>3, <1>10
<1> QED
  BY <1>6, <1>7, <1>8, <1>9, <1>11 DEF Serial

LEMMA SaveSerial ==
    ASSUME WAssumptions, WInv, Serial, NEW r \in Request, Save(r)
    PROVE  Serial'
<1> DEFINE q == request[r]
           m == q.market
           row == resolution[m]
<1>1. /\ q.stage = "answered" /\ q \in Requests /\ q.op \in Op /\ m \in Condition
      /\ row \in Rows
      /\ UNCHANGED <<market, proposal, lost>>
  BY Flying DEF Save, InFlight, vars, WInv, WTypeOK
<1>2. /\ trading'[m] = WrittenStatus(q.op) /\ resolution'[m] = Written(q, row)
      /\ \A d \in Condition : d # m =>
             trading'[d] = trading[d] /\ resolution'[d] = resolution[d]
  BY <1>1 DEF Save, WInv, WTypeOK
<1>3. /\ \A s \in Request : request'[s].stage = "idle"
      /\ \A s \in Request : s # r => ~Applied(s)
      /\ Applied(r)
  <2>1. /\ request'[r] = Idle
        /\ \A s \in Request : s # r =>
               request'[s] = request[s] /\ request[s].stage = "idle"
    BY <1>1, OthersIdle DEF Save, WInv, WTypeOK
  <2> QED
    BY <1>1, <2>1 DEF Applied, InFlight, Idle
<1>4. Asked(q.op, row.status)
  BY <1>3 DEF Serial
<1>5. ASSUME NEW d \in Condition, resolution'[d].status = "proposed"
      PROVE  d \in DOMAIN proposal' /\ proposal'[d].outcome = resolution'[d].proposed
  <2>1. CASE d # m
    BY <1>1, <1>2, <1>5, <2>1 DEF Serial, ProposalRows, Proposed
  <2>2. CASE d = m /\ q.op = "propose"
    <3>1. Proposed(m, q.outcome)
      BY <1>3, <2>2 DEF Serial
    <3>2. Written(q, row).proposed = q.outcome
      BY <1>1, <2>2, WrittenIs
    <3> QED
      BY <1>1, <1>2, <2>2, <3>1, <3>2 DEF Proposed
  <2>3. CASE d = m /\ q.op # "propose"
    <3>1. q.op \in {"pause", "unpause"} /\ Written(q, row) = row
      BY <1>1, <1>2, <1>5, <2>3, WrittenIs DEF Op
    <3> QED
      BY <1>1, <1>2, <1>4, <1>5, <2>3, <3>1 DEF Asked
  <2> QED
    BY <2>1, <2>2, <2>3
<1>6. ASSUME NEW d \in Condition, resolution'[d].status = "finalized"
      PROVE  resolution'[d].final = market'[d].winner
  <2>1. CASE d # m
    BY <1>1, <1>2, <1>6, <2>1 DEF Serial, WinnerRows
  <2>2. CASE d = m /\ q.op = "finalize"
    <3>1. Written(q, row).final = row.proposed
      BY <1>1, <2>2, WrittenIs
    <3>2. Proposed(m, row.proposed)
      BY <1>1, <1>4, <2>2 DEF Asked, Serial, ProposalRows
    <3>3. market[m].resolved
      BY <1>1, <2>2 DEF WInv, Decisions, Decides, InFlight
    <3>4. proposal[m].outcome = market[m].winner
      BY <1>1, <3>3, Known DEF WInv, WAssumptions, Assumptions, Listed
    <3> QED
      BY <1>1, <1>2, <2>2, <3>1, <3>2, <3>4 DEF Proposed
  <2>3. CASE d = m /\ q.op # "finalize"
    <3>1. q.op \in {"pause", "unpause"} /\ Written(q, row) = row
      BY <1>1, <1>2, <1>6, <2>3, WrittenIs DEF Op
    <3> QED
      BY <1>1, <1>2, <1>6, <2>3, <3>1 DEF Serial, WinnerRows
  <2> QED
    BY <2>1, <2>2, <2>3
<1>7. ASSUME NEW d \in Condition, d \notin lost'
      PROVE  Told(d, trading[d], resolution[d].status)'
  <2>1. Truthful(d)
    BY <1>1, <1>7 DEF Serial
  <2>2. CASE d = m
    <3>1. Told(m, WrittenStatus(q.op), Written(q, row).status)
      BY <1>3, <2>1, <2>2 DEF Truthful
    <3> HIDE DEF q, m, row
    <3> QED
      BY <1>1, <1>2, <2>2, <3>1 DEF Told
  <2>3. CASE d # m
    <3>1. Told(d, trading[d], resolution[d].status)
      BY <1>3, <2>1, <2>3 DEF Truthful
    <3> QED
      BY <1>1, <1>2, <2>3, <3>1 DEF Told
  <2> QED
    BY <2>2, <2>3
<1> QED
  BY <1>3, <1>5, <1>6, <1>7, IdleSerial

LEMMA DieSerial ==
    ASSUME WInv, Serial, NEW r \in Request, Die(r)
    PROVE  Serial'
<1>1. /\ request[r].stage # "idle"
      /\ UNCHANGED <<market, proposal, trading, resolution>>
      /\ lost' = IF Applied(r) THEN lost \cup {request[r].market} ELSE lost
  BY DEF Die, InFlight, vars, Applied
<1>2. /\ \A s \in Request : request'[s].stage = "idle"
      /\ \A s \in Request : s # r => ~Applied(s)
  <2>1. /\ request'[r] = Idle
        /\ \A s \in Request : s # r =>
               request'[s] = request[s] /\ request[s].stage = "idle"
    BY <1>1, OthersIdle DEF Die, WInv, WTypeOK
  <2> QED
    BY <2>1 DEF Applied, InFlight, Idle
<1>3. ASSUME NEW d \in Condition, d \notin lost'
      PROVE  Told(d, trading[d], resolution[d].status)'
  <2>1. d \notin lost /\ (Applied(r) => request[r].market # d)
    BY <1>1, <1>3
  <2>2. Told(d, trading[d], resolution[d].status)
    BY <1>2, <2>1, Telling
  <2> QED
    BY <1>1, <2>2 DEF Told
<1>4. ProposalRows /\ WinnerRows
  BY DEF Serial
<1> QED
  BY <1>1, <1>2, <1>3, <1>4, IdleSerial DEF ProposalRows, WinnerRows, Proposed

\* Time and the dispute window are not in the rows.
LEMMA QuietSerial ==
    ASSUME Serial, UNCHANGED <<rows, request, resolutionVars>>
    PROVE  Serial'
<1>1. UNCHANGED <<market, proposal, trading, resolution, request, lost>>
  BY DEF rows, resolutionVars
<1>2. ProposalRows' /\ WinnerRows'
  BY <1>1 DEF Serial, ProposalRows, WinnerRows, Proposed
<1>3. \A c \in Condition \ lost' : Truthful(c)'
  BY <1>1 DEF Serial, Truthful, Told, Applied, InFlight
<1> QED
  BY <1>1, <1>2, <1>3 DEF Serial, Busy, Applied, InFlight, Proposed

-----------------------------------------------------------------------------
(* The invariant *)

LEMMA InitWInv == WAssumptions /\ WorkflowInit => WInv
<1> SUFFICES ASSUME WAssumptions, WorkflowInit PROVE WInv
  OBVIOUS
<1>1. /\ prepared = Condition /\ DOMAIN market = Condition
      /\ DOMAIN proposal = {} /\ EndTime \in Time
      /\ \A c \in Condition : SlotCount[c] = 2
  BY DEF WorkflowInit, Empty, Time, WAssumptions, Assumptions, WorkflowAssumption,
     MarketAssumption
<1>2. TypeOK
  <2>1. ConditionTypeOK
    BY DEF WorkflowInit, ConditionTypeOK
  <2>2. AdminTypeOK
    BY DEF WorkflowInit, AdminTypeOK
  <2>3. now \in Time /\ window \in Nat \ {0}
    BY DEF WorkflowInit, Time, WAssumptions, Assumptions, MarketAssumption
  <2>4. IsMap(market, Condition, MarketRecord)
    BY <1>1 DEF WorkflowInit, IsMap, MarketRecord, MarketType, MarketStatus
  <2> QED
    BY <2>1, <2>2, <2>3, <2>4, EmptyMap DEF WorkflowInit, TypeOK
<1>3. IInv
  <2>1. \A c \in Condition : Listed(c)
    BY <1>1 DEF WorkflowInit, Listed
  <2>2. EventIndexAgrees
    BY DEF WorkflowInit, Empty, EventIndexAgrees
  <2> QED
    BY <1>1, <1>2, <2>1, <2>2 DEF IInv
<1>4. WTypeOK
  BY DEF WorkflowInit, WTypeOK, Rows, NullOutcome, Idle
<1>5. /\ \A c \in Condition : trading[c] = "active" /\ resolution[c].status = "none"
      /\ \A r \in Request : request[r].stage = "idle"
      /\ \A c \in Condition : ~market[c].resolved /\ market[c].status = "Open"
  BY DEF WorkflowInit, Idle
<1>6. Decisions
  BY <1>5 DEF Decisions, Decides, InFlight, Decided
<1>7. Serial
  <2>1. \A c \in Condition : Told(c, trading[c], resolution[c].status)
    BY <1>1, <1>5 DEF Told, Decided
  <2>2. \A r \in Request : ~Applied(r) /\ ~InFlight(r, "loaded") /\ r \notin Busy
    BY <1>5 DEF Applied, InFlight, Busy
  <2>3. Busy \subseteq Request
    BY DEF Busy
  <2> QED
    BY <1>5, <2>1, <2>2, <2>3 DEF Serial, ProposalRows, WinnerRows, Truthful
<1> QED
  BY <1>1, <1>3, <1>4, <1>6, <1>7 DEF WInv

LEMMA NextSerial ==
    ASSUME WAssumptions, WInv, Serial, [WorkflowNext]_wvars, ~overlapped'
    PROVE  Serial'
<1>1. CASE UNCHANGED <<rows, request, resolutionVars>>
  BY <1>1, QuietSerial
<1>2. WorkflowTick \/ (\E w \in Windows : ChangeWindow(w)) \/ UNCHANGED wvars
         => UNCHANGED <<rows, request, resolutionVars>>
  BY DEF WorkflowTick, Tick, ChangeWindow, SetResolutionDisputeWindow, wvars, vars,
     resolutionVars
<1> QED
  BY <1>1, <1>2, BeginSerial, LoadSerial, SubmitSerial, ReadWindowSerial, SaveSerial,
     DieSerial DEF WorkflowNext

LEMMA NextWInv == WAssumptions /\ WInv /\ [WorkflowNext]_wvars => WInv'
<1> SUFFICES ASSUME WAssumptions, WInv, [WorkflowNext]_wvars PROVE WInv'
  OBVIOUS
<1>1. IInv'
  <2>1. [Next]_vars
    BY ChainStep DEF WInv
  <2> QED
    BY <2>1, NextIInv DEF WInv, WAssumptions
<1>2. WTypeOK'
  BY WTypeStep DEF WInv
<1>3. DOMAIN market' = Condition /\ Decisions'
  BY DecisionsStep DEF WInv
<1>4. ~overlapped' => Serial'
  <2>1. overlapped => overlapped'
    BY DEF WorkflowNext, Begin, Load, Submit, ReadWindow, Save, Die, WorkflowTick,
       ChangeWindow, rows, wvars
  <2> QED
    BY <2>1, NextSerial DEF WInv
<1> QED
  BY <1>1, <1>2, <1>3, <1>4 DEF WInv

LEMMA WorkflowInvariance == WorkflowSpec => []WInv
<1>1. WAssumptions
  BY ConditionAssumption, MarketAssumption, WorkflowAssumption
     DEF WAssumptions, Assumptions
<1> QED
  BY <1>1, InitWInv, NextWInv, PTL DEF WorkflowSpec

-----------------------------------------------------------------------------
(* The theorems *)

\* A market is recorded as decided, or about to be, only when it is resolved on
\* chain: for any number of requests, in any order, dying anywhere.
THEOREM DecidedIsResolved == WorkflowSpec => []DecidedOnlyIfResolved
<1>1. WInv => DecidedOnlyIfResolved
  <2> SUFFICES ASSUME WInv, NEW c \in Condition,
                      \/ resolution[c].status \in Decided
                      \/ trading[c] = "resolved"
                      \/ Recording(c) # {}
               PROVE  market[c].resolved
    BY DEF DecidedOnlyIfResolved
  <2>1. CASE Recording(c) # {}
    <3> PICK r \in Request : Decides(r) /\ request[r].market = c
      BY <2>1 DEF Recording, Busy, Decides
    <3> QED
      BY DEF WInv, Decisions
  <2> QED
    BY <2>1 DEF WInv, Decisions
<1> QED
  BY <1>1, WorkflowInvariance, PTL

\* No two requests ever record the decision of one market, and none records over a
\* decision on record, whatever was finalized and emergency-resolved at once.
THEOREM DecidedOnce == WorkflowSpec => []DecisionRecordedOnce
<1>1. WInv => DecisionRecordedOnce
  <2> SUFFICES ASSUME WInv, NEW c \in Condition
               PROVE  /\ Cardinality(Recording(c)) <= 1
                      /\ Recording(c) # {} => resolution[c].status \notin Decided
    BY DEF DecisionRecordedOnce
  <2>1. \A r \in Recording(c) : r \in Request /\ Decides(r) /\ request[r].market = c
    BY DEF Recording, Busy, Decides
  <2>2. \A r, s \in Recording(c) : r = s
    BY <2>1 DEF WInv, Decisions
  <2>3. CASE Recording(c) = {}
    BY <2>3, FS_EmptySet
  <2>4. CASE Recording(c) # {}
    <3> PICK r : r \in Recording(c)
      BY <2>4
    <3>1. Recording(c) = {r}
      BY <2>2
    <3>2. Cardinality(Recording(c)) = 1
      BY <3>1, FS_Singleton
    <3> QED
      BY <2>1, <3>2 DEF WInv, Decisions
  <2> QED
    BY <2>3, <2>4
<1> QED
  BY <1>1, WorkflowInvariance, PTL

\* While requests come one after the other, the outcome of a proposal on record is
\* the one proposed on chain, whatever writes are lost and whatever is retried.
THEOREM ProposalsAgree == WorkflowSpec => []RecordedProposalIsOnChain
<1>1. WInv => RecordedProposalIsOnChain
  BY DEF WInv, Serial, ProposalRows, Proposed, RecordedProposalIsOnChain
<1> QED
  BY <1>1, WorkflowInvariance, PTL

\* ... and the winner on record of a finalized resolution is the winner on chain.
THEOREM WinnersAgree == WorkflowSpec => []RecordedWinnerIsOnChain
<1>1. WInv => RecordedWinnerIsOnChain
  BY DEF WInv, Serial, WinnerRows, RecordedWinnerIsOnChain
<1> QED
  BY <1>1, WorkflowInvariance, PTL

\* ... and between two requests the rows of every market without a lost write tell
\* the stage of its resolution on chain.
THEOREM RowsAgree == WorkflowSpec => []RowsAgreeWhenQuiet
<1>1. WInv => RowsAgreeWhenQuiet
  <2> SUFFICES ASSUME WInv, Busy = {}, ~overlapped, NEW c \in Condition \ lost
               PROVE  Told(c, trading[c], resolution[c].status)
    BY DEF RowsAgreeWhenQuiet, Told
  <2>1. \A r \in Request : ~Applied(r)
    BY DEF Busy, InFlight, Applied
  <2> QED
    BY <2>1, Telling DEF WInv
<1> QED
  BY <1>1, WorkflowInvariance, PTL

\* The workflow only ever does to the market contract what the contract allows, so
\* that whatever was proved of the registry holds under the backend as well.
THEOREM ChainResolutionsAgree ==
    WorkflowSpec => [](ResolutionAgrees /\ ProposedMarketStaysClosed)
<1>1. WInv => IInv
  BY DEF WInv
<1>2. IInv => ResolutionAgrees /\ ProposedMarketStaysClosed
  BY DEF IInv, Listed, ResolutionAgrees, ProposedMarketStaysClosed
<1> QED
  BY <1>1, <1>2, WorkflowInvariance, PTL
=============================================================================
