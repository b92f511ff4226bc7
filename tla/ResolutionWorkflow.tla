-------------------------- MODULE ResolutionWorkflow --------------------------
(***************************************************************************)
(* The resolution workflow of the backend over the market contract.  Every *)
(* admin request reads the market row, reads the resolution row, submits a *)
(* transaction to the market contract and, once it has succeeded, writes   *)
(* the two rows.  The four steps of different requests interleave, and a   *)
(* request may die between any two of them: an error is returned, the      *)
(* command that submits the transaction gives up although it was applied,  *)
(* or the process crashes.  The SQL updates are conditional on nothing.    *)
(*                                                                         *)
(* The markets are published ones: of a draft only the rows are written.   *)
(***************************************************************************)
EXTENDS Market

CONSTANTS
    Request,       \* the requests that may be in flight at the same time
    EndTime        \* the end time of every market

\* The published markets are binary ones, and the admin may sign as resolver.
ASSUME WorkflowAssumption ==
    /\ EndTime \in 1..MaxTime
    /\ \A c \in Condition : SlotCount[c] = 2
    /\ Admins \subseteq Account

VARIABLES
    trading,       \* markets.trading_status
    resolution,    \* the market_resolutions row
    request,       \* the requests in flight
    lost,          \* history: the markets with a transaction that no row tells of
    overlapped     \* history: two requests have been in flight at the same time

rows == <<trading, resolution, lost, overlapped>>
wvars == <<vars, rows, request>>

Op == {"propose", "dispute", "finalize", "emergency", "pause", "unpause"}

Decided == {"finalized", "emergency_resolved"}

Idle == [stage |-> "idle"]

\* outcome: the winning_outcome of the payload; at: the clock captured by the
\* first step; deadline: what the write of a proposal will store.
Requests ==
    [stage: {"begun", "loaded", "submitted", "answered"}, op: Op, market: Condition,
     outcome: Nat, at: Time, deadline: Nat]

\* An absent row has status "none"; final_winning_outcome is NULL until decided.
NullOutcome == 32

Rows == [status: {"none", "proposed", "disputed"} \cup Decided,
         proposed: Nat, final: Nat, deadline: Nat]

\* Every market is published and open; the contract has its admin.
WorkflowInit ==
    /\ prepared = Condition
    /\ numerators = [c \in Condition |-> << >>]
    /\ denominator = [c \in Condition |-> 0]
    /\ admin \in Admins
    /\ isPaused = FALSE
    /\ market = [c \in Condition |->
           [end |-> EndTime, type |-> "Binary", status |-> "Open",
            resolved |-> FALSE, winner |-> 0]]
    /\ proposal = Empty
    /\ window = DefaultWindow
    /\ event = Empty /\ eventMarkets = Empty /\ marketEvent = Empty
    /\ metadata = Empty
    /\ now = 0
    /\ trading = [c \in Condition |-> "active"]
    /\ resolution = [c \in Condition |->
           [status |-> "none", proposed |-> 0, final |-> NullOutcome, deadline |-> 0]]
    /\ request = [r \in Request |-> Idle]
    /\ lost = {}
    /\ overlapped = FALSE

-----------------------------------------------------------------------------
(* The steps of a request. *)

InFlight(r, stage) == request[r].stage = stage

Busy == {r \in Request : ~InFlight(r, "idle")}

Advance(r, stage) == request' = [request EXCEPT ![r].stage = stage]

\* The trading status that a pause or unpause request is for.
Target(op) == IF op = "pause" THEN "paused" ELSE "active"

\* Read the market row: ensure_market_not_resolved and ensure_market_has_ended.  A
\* pause of a paused market returns without effect.
Begin(r, op, c, outcome) ==
    /\ InFlight(r, "idle")
    /\ trading[c] # "resolved"
    /\ op \in {"propose", "emergency"} => now >= EndTime /\ outcome \in Outcomes(c)
    /\ op \in {"pause", "unpause"} => trading[c] # Target(op)
    /\ request' = [request EXCEPT ![r] =
           [stage |-> "begun", op |-> op, market |-> c, outcome |-> outcome,
            at |-> now, deadline |-> 0]]
    /\ overlapped' = (overlapped \/ Busy # {})
    /\ UNCHANGED <<vars, trading, resolution, lost>>

\* Mutant of Admits: a proposal is admitted over a proposal on record.
AdmitsReproposal(op, row) ==
    CASE op = "propose" -> row.status \notin Decided
      [] op = "dispute" -> row.status = "proposed" /\ now < row.deadline
      [] op = "finalize" -> row.status = "proposed" /\ now >= row.deadline
      [] op = "emergency" -> row.status \notin Decided
      [] op \in {"pause", "unpause"} -> row.status \notin {"proposed", "disputed"}

\* What a request asks of the resolution row.
Admits(op, row) ==
    CASE op = "propose" -> row.status \in {"none", "disputed"}
      [] op = "dispute" -> row.status = "proposed" /\ now < row.deadline
      [] op = "finalize" -> row.status = "proposed" /\ now >= row.deadline
      [] op = "emergency" -> row.status \notin Decided
      [] op \in {"pause", "unpause"} -> row.status \notin {"proposed", "disputed"}

\* Read the resolution row.
Load(r) ==
    /\ InFlight(r, "begun")
    /\ Admits(request[r].op, resolution[request[r].market])
    /\ Advance(r, "loaded")
    /\ UNCHANGED <<vars, rows>>

\* Mutant of Transaction: to find the market resolved counts as success.
TransactionIfNeeded(op, c, outcome) ==
    \/ op = "propose" /\ ProposeResolution(admin, c, outcome)
    \/ op = "dispute" /\ DisputeResolution(c)
    \/ op \in {"finalize", "emergency"} /\ FinalizeResolution(c)
    \/ op \in {"finalize", "emergency"} /\ market[c].resolved /\ UNCHANGED vars
    \/ op = "pause" /\ PauseMarket(c)
    \/ op = "unpause" /\ UnpauseMarket(c)

\* The transaction of a request.  emergency_resolve_market calls
\* finalize_resolution: the outcome of the payload goes nowhere.
Transaction(op, c, outcome) ==
    \/ op = "propose" /\ ProposeResolution(admin, c, outcome)
    \/ op = "dispute" /\ DisputeResolution(c)
    \/ op \in {"finalize", "emergency"} /\ FinalizeResolution(c)
    \/ op = "pause" /\ PauseMarket(c)
    \/ op = "unpause" /\ UnpauseMarket(c)

\* Mutant of Submit: the error of a failed transaction is dropped.
SubmitAnyway(r) ==
    /\ InFlight(r, "loaded")
    /\ \/ Transaction(request[r].op, request[r].market, request[r].outcome)
       \/ UNCHANGED vars
    /\ Advance(r, IF request[r].op = "propose" THEN "submitted" ELSE "answered")
    /\ UNCHANGED rows

\* invoke_contract, when the transaction succeeds.
Submit(r) ==
    /\ InFlight(r, "loaded")
    /\ Transaction(request[r].op, request[r].market, request[r].outcome)
    /\ Advance(r, IF request[r].op = "propose" THEN "submitted" ELSE "answered")
    /\ UNCHANGED rows

\* propose_resolution reads the dispute window in a second invocation, and falls
\* back on the default when that fails.
ReadWindow(r) ==
    /\ InFlight(r, "submitted")
    /\ \E w \in {window, DefaultWindow} :
           request' = [request EXCEPT ![r] =
               [@ EXCEPT !.stage = "answered", !.deadline = request[r].at + w]]
    /\ UNCHANGED <<vars, rows>>

\* Mutant of Written: a finalization records the outcome of its own payload.
WrittenFromPayload(q, row) ==
    CASE q.op = "propose" ->
            [status |-> "proposed", proposed |-> q.outcome, final |-> NullOutcome,
             deadline |-> q.deadline]
      [] q.op = "dispute" -> [row EXCEPT !.status = "disputed"]
      [] q.op = "finalize" ->
            [row EXCEPT !.status = "finalized", !.final = q.outcome]
      [] q.op = "emergency" ->
            [status |-> "emergency_resolved", proposed |-> q.outcome,
             final |-> q.outcome, deadline |-> q.at]
      [] q.op \in {"pause", "unpause"} -> row

\* The row that a request writes over the present one.
Written(q, row) ==
    CASE q.op = "propose" ->
            [status |-> "proposed", proposed |-> q.outcome, final |-> NullOutcome,
             deadline |-> q.deadline]
      [] q.op = "dispute" -> [row EXCEPT !.status = "disputed"]
      [] q.op = "finalize" ->
            [row EXCEPT !.status = "finalized", !.final = row.proposed]
      [] q.op = "emergency" ->
            [status |-> "emergency_resolved", proposed |-> q.outcome,
             final |-> q.outcome, deadline |-> q.at]
      [] q.op \in {"pause", "unpause"} -> row

\* Mutant of WrittenStatus: a finalized market is left paused.
WrittenStillPaused(op) ==
    CASE op \in {"propose", "dispute", "pause", "finalize"} -> "paused"
      [] op = "emergency" -> "resolved"
      [] op = "unpause" -> "active"

WrittenStatus(op) ==
    CASE op \in {"propose", "dispute", "pause"} -> "paused"
      [] op \in {"finalize", "emergency"} -> "resolved"
      [] op = "unpause" -> "active"

\* The two rows are written in one database transaction.
Save(r) ==
    LET q == request[r] IN
    /\ InFlight(r, "answered")
    /\ trading' = [trading EXCEPT ![q.market] = WrittenStatus(q.op)]
    /\ resolution' = [resolution EXCEPT ![q.market] = Written(q, @)]
    /\ request' = [request EXCEPT ![r] = Idle]
    /\ UNCHANGED <<vars, lost, overlapped>>

\* A refused, failed or crashed request.  After its transaction, the write is lost.
Die(r) ==
    /\ ~InFlight(r, "idle")
    /\ lost' = IF InFlight(r, "submitted") \/ InFlight(r, "answered")
                 THEN lost \cup {request[r].market} ELSE lost
    /\ request' = [request EXCEPT ![r] = Idle]
    /\ UNCHANGED <<vars, trading, resolution, overlapped>>

-----------------------------------------------------------------------------

WorkflowTick == Tick /\ UNCHANGED <<rows, request>>

ChangeWindow(w) ==
    /\ SetResolutionDisputeWindow(w)
    /\ UNCHANGED <<rows, request>>

WorkflowNext ==
    \/ \E r \in Request :
        \/ \E op \in Op, c \in Condition : \E outcome \in Outcomes(c) :
               /\ op \notin {"propose", "emergency"} => outcome = 0
               /\ Begin(r, op, c, outcome)
        \/ Load(r)
        \/ Submit(r)
        \/ ReadWindow(r)
        \/ Save(r)
        \/ Die(r)
    \/ \E w \in Windows : ChangeWindow(w)
    \/ WorkflowTick

WorkflowSpec == WorkflowInit /\ [][WorkflowNext]_wvars

-----------------------------------------------------------------------------
(* Properties *)

\* Requests whose transaction has decided a market and that have yet to record it.
Recording(c) ==
    {r \in Busy : /\ InFlight(r, "answered")
                   /\ request[r].market = c
                   /\ request[r].op \in {"finalize", "emergency"}}

\* Whatever requests interleave and wherever they die, a market is only recorded
\* as decided, or about to be, when it is resolved on chain.
DecidedOnlyIfResolved ==
    \A c \in Condition :
        (\/ resolution[c].status \in Decided
         \/ trading[c] = "resolved"
         \/ Recording(c) # {}) => market[c].resolved

\* Two admins may finalize and emergency-resolve a market at once: at most one of
\* them records a decision, and none does over a decision on record.
DecisionRecordedOnce ==
    \A c \in Condition :
        /\ Cardinality(Recording(c)) <= 1
        /\ Recording(c) # {} => resolution[c].status \notin Decided

\* As long as the requests come one after the other, a proposal on record is the
\* one on chain, even though writes were lost: the finalize requests that the row
\* admits are about the outcome that the chain would finalize.  (Two proposals that
\* both read the row before a dispute break it: see the README.)
RecordedProposalIsOnChain ==
    ~overlapped =>
        \A c \in Condition :
            resolution[c].status = "proposed" =>
                c \in DOMAIN proposal /\ proposal[c].outcome = resolution[c].proposed

\* ... and a finalized record names the winner on chain.
RecordedWinnerIsOnChain ==
    ~overlapped =>
        \A c \in Condition :
            resolution[c].status = "finalized" => resolution[c].final = market[c].winner

\* When moreover no write about a market was lost, its rows and the chain tell the
\* same story between two requests: the stage of the resolution, and whether
\* trading is paused.
RowsAgreeWhenQuiet ==
    Busy = {} /\ ~overlapped =>
        \A c \in Condition \ lost :
            /\ trading[c] = "resolved" <=> market[c].resolved
            /\ resolution[c].status = "none" <=> c \notin DOMAIN proposal
            /\ resolution[c].status = "disputed"
                   <=> c \in DOMAIN proposal /\ proposal[c].disputed
            /\ resolution[c].status \in Decided <=> market[c].resolved
            /\ trading[c] = "active" => market[c].status # "Paused"

\* The outcome entered for an emergency resolution is the one that wins.
EmergencyOutcomeWins ==
    \A c \in Condition :
        resolution[c].status = "emergency_resolved" =>
            resolution[c].final = market[c].winner
=============================================================================
