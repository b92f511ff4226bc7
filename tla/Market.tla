-------------------------------- MODULE Market --------------------------------
(***************************************************************************)
(* sabi_market: the market registry and its optimistic resolution.  A      *)
(* market is a CTF condition with an end time; after the end a resolver    *)
(* proposes the winning outcome, the admin may dispute it inside a window, *)
(* and anyone finalizes an undisputed proposal once the window has passed. *)
(* The oracle and the admin together may also resolve at once.  Either way *)
(* the contract reports a one-hot payout vector to the CTF contract, in    *)
(* the same transaction: if the report panics, the resolution is undone.   *)
(*                                                                         *)
(* The keyed storage entries are functions whose DOMAIN is the set of keys *)
(* present.  The CTF contract is assumed wired to this market contract.    *)
(***************************************************************************)
EXTENDS Conditions, Access

CONSTANTS
    Account,       \* who may sign as resolver: the oracles and everyone else
    OracleOf,      \* [Condition -> Account]: the oracle hashed into the id
    Event,         \* the event ids that are ever used
    Metadata,      \* the metadata hashes that are ever set
    DefaultWindow, \* DEFAULT_RESOLUTION_DISPUTE_WINDOW
    Windows,       \* the dispute windows that the admin ever sets
    MaxU64,        \* the largest u64 timestamp
    MaxTime        \* bound: the last ledger timestamp

ASSUME MarketAssumption ==
    /\ OracleOf \in [Condition -> Account]
    /\ DefaultWindow \in Nat \ {0}
    /\ Windows \subseteq Nat
    /\ MaxU64 \in Nat /\ MaxTime \in 0..MaxU64

VARIABLES
    market,        \* condition -> Market record
    proposal,      \* condition -> ResolutionProposal record
    window,        \* the ResolutionDisputeWindow key
    event,         \* event -> MarketEvent record
    eventMarkets,  \* event -> the sequence of its markets
    marketEvent,   \* condition -> event
    metadata,      \* condition -> metadata hash
    now            \* the timestamp of the current ledger

eventVars == <<event, eventMarkets, marketEvent>>
resolutionVars == <<conditionVars, market, proposal>>
vars == <<conditionVars, adminVars, market, proposal, window, eventVars, metadata, now>>

MarketType == {"Binary", "MultiOutcome", "NegRisk"}

MarketStatus == {"Open", "Closed", "Resolved", "Paused"}

Time == 0..MaxU64

\* outcome_count is SlotCount[c]; winners count from 0.
MarketRecord ==
    [end: Time, type: MarketType, status: MarketStatus, resolved: BOOLEAN, winner: Nat]

ProposalRecord ==
    [proposer: Account, outcome: Nat, proposedAt: Time, deadline: Time,
     disputed: BOOLEAN, finalized: BOOLEAN]

EventRecord == [negRisk: BOOLEAN, count: Nat, createdAt: Time]

\* A storage map with one more, or one other, entry.
Put(f, k, v) == [x \in DOMAIN f \cup {k} |-> IF x = k THEN v ELSE f[x]]

Empty == [x \in {} |-> x]

\* A partial function from S to T.
IsMap(f, S, T) == f \in [DOMAIN f -> T] /\ DOMAIN f \subseteq S

TypeOK ==
    /\ ConditionTypeOK
    /\ AdminTypeOK
    /\ IsMap(market, Condition, MarketRecord)
    /\ IsMap(proposal, Condition, ProposalRecord)
    /\ window \in Nat \ {0}
    /\ IsMap(event, Event, EventRecord)
    /\ IsMap(eventMarkets, Event, Seq(Condition))
    /\ IsMap(marketEvent, Condition, Event)
    /\ IsMap(metadata, Condition, Metadata)
    /\ now \in Time

Init ==
    /\ ConditionInit
    /\ AdminInit
    /\ market = Empty
    /\ proposal = Empty
    /\ window = DefaultWindow
    /\ event = Empty
    /\ eventMarkets = Empty
    /\ marketEvent = Empty
    /\ metadata = Empty
    /\ now = 0

-----------------------------------------------------------------------------
(* Administration *)

Administer ==
    /\ AdminNext
    /\ UNCHANGED <<resolutionVars, window, eventVars, metadata, now>>

\* Mutant of SetResolutionDisputeWindow: a window of zero is taken.
SetAnyDisputeWindow(w) ==
    /\ Initialized
    /\ window' = w
    /\ UNCHANGED <<resolutionVars, adminVars, eventVars, metadata, now>>

\* set_resolution_dispute_window: open proposals keep the deadline they have.
SetResolutionDisputeWindow(w) ==
    /\ Initialized
    /\ w # 0
    /\ window' = w
    /\ UNCHANGED <<resolutionVars, adminVars, eventVars, metadata, now>>

\* set_market_metadata does not ask whether the market exists.
SetMarketMetadata(c, hash) ==
    /\ Initialized
    /\ metadata' = Put(metadata, c, hash)
    /\ UNCHANGED <<resolutionVars, adminVars, window, eventVars, now>>

-----------------------------------------------------------------------------
(* Creation *)

CreateEvent(e, negRisk) ==
    /\ Initialized /\ ~isPaused
    /\ e \notin DOMAIN event
    /\ event' = Put(event, e, [negRisk |-> negRisk, count |-> 0, createdAt |-> now])
    /\ eventMarkets' = Put(eventMarkets, e, << >>)
    /\ UNCHANGED <<resolutionVars, adminVars, window, marketEvent, metadata, now>>

\* The common part of the create_*_market handlers: prepare the condition in the
\* CTF contract, which panics when anyone prepared it before, and set_market.
SetMarket(c, type, end) ==
    /\ Initialized /\ ~isPaused
    /\ end > now
    /\ PrepareCondition(c)
    /\ market' = Put(market, c, [end |-> end, type |-> type, status |-> "Open",
                                 resolved |-> FALSE, winner |-> 0])
    /\ UNCHANGED <<adminVars, proposal, window, metadata, now>>

CreateBinaryMarket(c, end) ==
    /\ SlotCount[c] = 2
    /\ SetMarket(c, "Binary", end)
    /\ UNCHANGED eventVars

\* create_binary_market_for_event, with link_market_to_event.
CreateBinaryMarketForEvent(e, c, end) ==
    /\ e \in DOMAIN event
    /\ SlotCount[c] = 2
    /\ SetMarket(c, "Binary", end)
    /\ event' = Put(event, e, [event[e] EXCEPT !.count = @ + 1])
    /\ eventMarkets' = Put(eventMarkets, e, Append(eventMarkets[e], c))
    /\ marketEvent' = Put(marketEvent, c, e)

CreateMultiOutcomeMarket(c, end) ==
    /\ SlotCount[c] \in 3..32
    /\ SetMarket(c, "MultiOutcome", end)
    /\ UNCHANGED eventVars

CreateNegRiskMarket(c, end) ==
    /\ SlotCount[c] \in 3..32
    /\ SetMarket(c, "NegRisk", end)
    /\ UNCHANGED eventVars

-----------------------------------------------------------------------------
(* Trading status *)

SetStatus(c, status) ==
    /\ market' = Put(market, c, [market[c] EXCEPT !.status = status])
    /\ UNCHANGED <<conditionVars, adminVars, proposal, window, eventVars, metadata, now>>

\* Mutant of PauseMarket: a resolved market can be paused.
PauseAnyMarket(c) ==
    /\ Initialized
    /\ c \in DOMAIN market
    /\ SetStatus(c, "Paused")

PauseMarket(c) ==
    /\ Initialized
    /\ c \in DOMAIN market
    /\ market[c].status # "Resolved"
    /\ SetStatus(c, "Paused")

\* Mutant of UnpauseMarket: the market is open again whatever the time.
UnpauseToOpen(c) ==
    /\ Initialized
    /\ c \in DOMAIN market
    /\ market[c].status = "Paused"
    /\ SetStatus(c, "Open")

UnpauseMarket(c) ==
    /\ Initialized
    /\ c \in DOMAIN market
    /\ market[c].status = "Paused"
    /\ SetStatus(c, CASE market[c].resolved -> "Resolved"
                      [] ~market[c].resolved /\ now >= market[c].end -> "Closed"
                      [] ~market[c].resolved /\ now < market[c].end -> "Open")

-----------------------------------------------------------------------------
(* Resolution *)

\* Mutant of Outcomes: outcomes counted from 1 to the slot count as well as from 0.
OutcomesOffByOne(c) == 0..SlotCount[c]

Outcomes(c) == 0..(SlotCount[c] - 1)

\* A proposal that is neither disputed nor finalized.
Active(c) ==
    c \in DOMAIN proposal /\ ~proposal[c].finalized /\ ~proposal[c].disputed

\* propose_resolution: by the oracle, or by anyone with the admin's signature.
\* A paused market is closed by it.
ProposeResolution(resolver, c, outcome) ==
    /\ c \in DOMAIN market
    /\ ~market[c].resolved
    /\ now >= market[c].end
    /\ resolver # OracleOf[c] => Initialized
    /\ outcome \in Outcomes(c)
    /\ ~Active(c)
    /\ now + window <= MaxU64
    /\ proposal' = Put(proposal, c,
           [proposer |-> resolver, outcome |-> outcome, proposedAt |-> now,
            deadline |-> now + window, disputed |-> FALSE, finalized |-> FALSE])
    /\ market' = Put(market, c, [market[c] EXCEPT !.status = "Closed"])
    /\ UNCHANGED <<conditionVars, adminVars, window, eventVars, metadata, now>>

DisputeResolution(c) ==
    /\ Initialized
    /\ Active(c)
    /\ now < proposal[c].deadline
    /\ proposal' = Put(proposal, c, [proposal[c] EXCEPT !.disputed = TRUE])
    /\ UNCHANGED <<conditionVars, adminVars, market, window, eventVars, metadata, now>>

\* The payout vector of a market: everything to the winning outcome.
OneHot(c, winner) == [i \in Slots(c) |-> IF i = winner + 1 THEN 1 ELSE 0]

\* Mutant of FinalizeMarket: a second resolution replaces the first, payouts included.
FinalizeAgain(c, winner) ==
    /\ c \in DOMAIN market
    /\ winner \in Outcomes(c)
    /\ market' = Put(market, c, [market[c] EXCEPT !.status = "Resolved",
                                                  !.resolved = TRUE,
                                                  !.winner = winner])
    /\ numerators' = [numerators EXCEPT ![c] = OneHot(c, winner)]
    /\ denominator' = [denominator EXCEPT ![c] = 1]
    /\ UNCHANGED <<prepared, adminVars, window, eventVars, metadata, now>>

\* finalize_market: record the winner and report the payouts to the CTF contract.
FinalizeMarket(c, winner) ==
    /\ c \in DOMAIN market
    /\ ~market[c].resolved
    /\ winner \in Outcomes(c)
    /\ market' = Put(market, c, [market[c] EXCEPT !.status = "Resolved",
                                                  !.resolved = TRUE,
                                                  !.winner = winner])
    /\ ApplyPayouts(c, OneHot(c, winner))
    /\ UNCHANGED <<adminVars, window, eventVars, metadata, now>>

\* Mutant of FinalizeResolution: the deadline is not waited for.
FinalizeEarly(c) ==
    /\ Active(c)
    /\ proposal' = Put(proposal, c, [proposal[c] EXCEPT !.finalized = TRUE])
    /\ FinalizeMarket(c, proposal[c].outcome)

FinalizeResolution(c) ==
    /\ Active(c)
    /\ now >= proposal[c].deadline
    /\ proposal' = Put(proposal, c, [proposal[c] EXCEPT !.finalized = TRUE])
    /\ FinalizeMarket(c, proposal[c].outcome)

\* resolve_market: the admin and the oracle resolve at once, at any time, over
\* whatever proposal there is.
ResolveMarket(c, outcome) ==
    /\ Initialized
    /\ proposal' = Put(proposal, c,
           [proposer |-> OracleOf[c], outcome |-> outcome, proposedAt |-> now,
            deadline |-> now, disputed |-> FALSE, finalized |-> TRUE])
    /\ FinalizeMarket(c, outcome)

-----------------------------------------------------------------------------
(* What the world around the contract does. *)

marketVars == <<adminVars, market, proposal, window, eventVars, metadata, now>>

\* Anyone prepares a condition in the CTF contract.
Prepare(c) == PrepareCondition(c) /\ UNCHANGED marketVars

\* The oracle reports to the CTF contract itself: the CTF contract takes it for
\* any condition it is the oracle of, one with a market included.
ReportPayouts(c, payouts) == ApplyPayouts(c, payouts) /\ UNCHANGED marketVars

Tick ==
    /\ now < MaxTime
    /\ now' = now + 1
    /\ UNCHANGED <<resolutionVars, adminVars, window, eventVars, metadata>>

-----------------------------------------------------------------------------

AdminActions ==
    \/ Administer
    \/ \E w \in Windows : SetResolutionDisputeWindow(w)
    \/ \E c \in Condition, hash \in Metadata : SetMarketMetadata(c, hash)

CreationActions ==
    \/ \E e \in Event, negRisk \in BOOLEAN : CreateEvent(e, negRisk)
    \/ \E c \in Condition, end \in 0..MaxTime :
           \/ CreateBinaryMarket(c, end)
           \/ \E e \in Event : CreateBinaryMarketForEvent(e, c, end)
           \/ CreateMultiOutcomeMarket(c, end)
           \/ CreateNegRiskMarket(c, end)

ResolutionActions ==
    \E c \in Condition :
        \/ PauseMarket(c)
        \/ UnpauseMarket(c)
        \/ \E resolver \in Account, outcome \in 0..SlotCount[c] :
               ProposeResolution(resolver, c, outcome)
        \/ DisputeResolution(c)
        \/ FinalizeResolution(c)
        \/ \E outcome \in 0..SlotCount[c] : ResolveMarket(c, outcome)

Environment ==
    \/ \E c \in Condition : Prepare(c)
    \/ \E c \in Condition, payouts \in Payouts : ReportPayouts(c, payouts)
    \/ Tick

Next == AdminActions \/ CreationActions \/ ResolutionActions \/ Environment

Spec == Init /\ [][Next]_vars

-----------------------------------------------------------------------------
(* Properties *)

\* A market's status, its resolved flag, its proposal and the CTF contract tell
\* one story: resolved, with a finalized proposal for the winner and the whole
\* payout on that winner, or none of these.  It relates the entries that pause,
\* unpause, propose, dispute, finalize and resolve_market each write a part of.
ResolutionAgrees ==
    \A c \in DOMAIN market :
        /\ market[c].resolved <=> market[c].status = "Resolved"
        /\ market[c].resolved <=> c \in DOMAIN proposal /\ proposal[c].finalized
        /\ market[c].resolved => /\ proposal[c].outcome = market[c].winner
                                 /\ numerators[c] = OneHot(c, market[c].winner)
                                 /\ denominator[c] = 1

\* The outcome of a market is only ever proposed once trading is over, and no
\* pause and unpause opens the market again while a proposal is on record.
ProposedMarketStaysClosed ==
    \A c \in DOMAIN proposal :
        /\ c \in DOMAIN market
        /\ market[c].status # "Open"
        /\ ~market[c].resolved => now >= market[c].end

\* Every market of an event is a market, listed once in that event and in no
\* other, whose back link names the event; market_count counts them.
EventIndexAgrees ==
    /\ DOMAIN eventMarkets = DOMAIN event
    /\ \A e \in DOMAIN event :
        /\ event[e].count = Len(eventMarkets[e])
        /\ \A i, j \in DOMAIN eventMarkets[e] :
               eventMarkets[e][i] = eventMarkets[e][j] => i = j
        /\ \A c \in Condition :
               (c \in DOMAIN marketEvent /\ marketEvent[c] = e)
                   <=> \E i \in DOMAIN eventMarkets[e] : eventMarkets[e][i] = c
    /\ \A c \in DOMAIN marketEvent : c \in DOMAIN market /\ marketEvent[c] \in DOMAIN event

\* A proposal that stood its window undisputed can always be finalized, whatever
\* was paused, unpaused or set since: no panic of finalize_market or of the CTF
\* contract is in the way, unless the oracle itself reported to the CTF contract.
FinalizationNeverBlocked ==
    \A c \in Condition :
        Active(c) /\ now >= proposal[c].deadline /\ ~Resolved(c)
            => ENABLED FinalizeResolution(c)

\* A resolution is never changed: neither the market, nor its proposal, nor the
\* payouts in the CTF contract, by any later proposal, pause or oracle report.
ResolutionIsFinal ==
    [][\A c \in DOMAIN market : market[c].resolved =>
            /\ market'[c] = market[c]
            /\ proposal'[c] = proposal[c]
            /\ numerators'[c] = numerators[c]]_vars

\* Once the oracle has reported past the market contract, the market never
\* becomes resolved: finalize_resolution and resolve_market panic for ever.
DirectReportLeavesUnresolved ==
    [][\A c \in DOMAIN market :
            Resolved(c) /\ ~market[c].resolved => ~market'[c].resolved]_vars

-----------------------------------------------------------------------------
(* The optimistic oracle that the registry implements: the claim on record   *)
(* for a market is its proposal, the verdict is its winner.  Nothing has to  *)
(* be remembered beside the contract's own entries to tell how a verdict was *)
(* reached: a proposal that was open to dispute has its deadline after the   *)
(* instant it was made at, and the one resolve_market writes has them equal. *)

Undecided == 32  \* no outcome: the last of at most 32 is number 31

NoClaim == [answer |-> Undecided, until |-> 0, challenged |-> TRUE]

\* What resolve_market put on record: there was no window to dispute it in.
IsRuling(p) == p.deadline = p.proposedAt

ClaimOf(c) ==
    IF c \in DOMAIN proposal /\ ~IsRuling(proposal[c])
    THEN [answer |-> proposal[c].outcome, until |-> proposal[c].deadline,
          challenged |-> proposal[c].disputed]
    ELSE NoClaim

Verdict(c) ==
    IF c \in DOMAIN market /\ market[c].resolved THEN market[c].winner ELSE Undecided

Oracle == INSTANCE OptimisticOracle WITH
    Question <- Condition,
    Answer <- 0..31,
    Moment <- Time,
    claim <- [c \in Condition |-> ClaimOf(c)],
    verdict <- [c \in Condition |-> Verdict(c)],
    clock <- now

\* The registry is an optimistic oracle: one verdict a market, and it is either
\* ruled by the oracle with the admin, by resolve_market alone, or is a proposal
\* that was open to dispute until its deadline, was not disputed, and was
\* finalized no earlier: a finalize_resolution of any other proposal is no step
\* of the oracle.
ImplementsOptimisticOracle == Oracle!Spec
=============================================================================
