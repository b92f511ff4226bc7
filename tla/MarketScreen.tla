----------------------------- MODULE MarketScreen -----------------------------
(***************************************************************************)
(* The event page of the public site: MarketDetailScreen over the caches   *)
(* of EventViews.  A load is one call of loadDetail: it resolves its       *)
(* address, starts the reads of the market it shows, shows what is known   *)
(* at once and again as answers come, and is superseded by the next load,  *)
(* whose version is higher.  Superseded loads still fill the caches.       *)
(***************************************************************************)
EXTENDS EventViews

CONSTANTS Stores,          \* what session storage may hold when the tab opens
          FollowedKinds,   \* the sets of kinds whose reads are followed
          MaxLoads         \* bound: calls of loadDetail while the tab is open

\* Storage holds an event's own markets, and only kinds there are are followed.
ASSUME ScreenAssumption ==
    /\ Stores \subseteq StoreType
    /\ \A store \in Stores, e \in Event : DOMAIN store.snapshots[e] \subseteq MarketsOf(e)
    /\ FollowedKinds \subseteq SUBSET Resource

VARIABLES cache,       \* the module-level caches and session storage
          address,     \* props.eventSlug
          selected,    \* selectedMarketSlug
          page,        \* status, data and error
          loads,       \* the calls of loadDetail since the page was loaded
          started,     \* how many there were in all
          followed     \* the kinds whose reads are followed in this behaviour

screenVars == <<cache, address, selected, page, loads, started, followed>>

Version == Len(loads)

LoadingPage == [status |-> "loading", data |-> None, error |-> FALSE]

ScreenInit ==
    /\ followed \in FollowedKinds
    /\ \E store \in Stores : cache = FreshCache(store, followed)
    /\ address \in Event
    /\ selected = None
    /\ page = LoadingPage
    /\ loads = <<>>
    /\ started = 0

\* data shown with status ready, and the error message cleared or kept.
Showing(p, c, e, m) == [p EXCEPT !.status = "ready", !.data = ViewModel(c, e, m)]

\* A load whose address is resolved: it waits for the answers still out.
Hydrating(load, c, m) ==
    LET awaits == Awaited(c, load.event, m) IN
    [load EXCEPT !.stage = IF awaits = {} THEN "done" ELSE "hydrating",
                 !.market = SelectedMarket(c, load.event, m), !.awaits = awaits]

\* loadDetail up to its first await: the page shows the projected view, or
\* keeps what it shows of this event, or says it is loading.
LoadDetail(e, asked, p, shown) ==
    LET projected == Projected(p, e, asked)
        preserve  == shown.data # None /\ shown.data.event = e
        resolved  == ResolveContext(projected.cache, e, asked)
        context   == resolved.contexts[<<e, asked>>]
        load      == [event |-> e, asked |-> asked, market |-> None,
                      keep |-> preserve \/ projected.market # None,
                      stage |-> "resolving", awaits |-> {}, retried |-> FALSE]
        cleared   == [shown EXCEPT !.error = FALSE]
        begun     == BeginHydration(resolved, e, context.market)
    IN  /\ started < MaxLoads
        /\ started' = started + 1
        /\ IF context.stage = "done"
           THEN /\ cache' = begun
                /\ loads' = Append(loads, Hydrating(load, begun, context.market))
                /\ page' = Showing(cleared, begun, e, context.market)
           ELSE /\ cache' = resolved
                /\ loads' = Append(loads, load)
                /\ page' = IF projected.market # None
                           THEN Showing(cleared, resolved, e, projected.market)
                           ELSE [cleared EXCEPT !.status = IF preserve THEN @ ELSE "loading"]

\* The page is mounted: the effect runs for the first time.
Mount ==
    /\ loads = <<>>
    /\ LoadDetail(address, selected, cache, page)
    /\ UNCHANGED <<address, selected, followed>>

\* The router gives the mounted page another event.
VisitEvent(e) ==
    /\ loads # <<>>
    /\ e # address
    /\ address' = e
    /\ selected' = None
    /\ LoadDetail(e, None, cache, page)
    /\ UNCHANGED followed

\* selectMarket, and selectOutcome on another market of the list.
SelectMarket(m) ==
    /\ page.status = "ready" /\ page.data # None
    /\ m \in page.data.list
    /\ m # page.data.market
    /\ m # selected
    /\ selected' = m
    /\ LoadDetail(address, m, cache, page)
    /\ UNCHANGED <<address, followed>>

RetryLoad ==
    /\ page.status = "error"
    /\ LoadDetail(address, selected, cache, page)
    /\ UNCHANGED <<address, selected, followed>>

\* The browser reloads the tab: only session storage and the address stay.
ReloadTab ==
    /\ started < MaxLoads
    /\ loads # <<>>
    /\ cache' = FreshCache(cache.store, followed)
    /\ selected' = None
    /\ page' = LoadingPage
    /\ loads' = <<>>
    /\ UNCHANGED <<address, started, followed>>

(***************************************************************************)
(* Resolving an address: the answers of resolveDetailContext's requests.   *)
(***************************************************************************)
Stage(e, asked) == cache.contexts[<<e, asked>>].stage

InStage(c, e, asked, stage) ==
    WithContext(c, e, asked, [c.contexts[<<e, asked>>] EXCEPT !.stage = stage])

AdvanceContext(e, asked, stage) ==
    /\ cache' = InStage(cache, e, asked, stage)
    /\ UNCHANGED <<address, selected, page, loads, started, followed>>

PreferredMarketGone(e, asked) ==
    /\ Stage(e, asked) = "preferred"
    /\ AdvanceContext(e, asked, LookupStage(cache, e))

EventFound(e, asked) ==
    /\ Stage(e, asked) = "lookup"
    /\ cache' = [InStage(cache, e, asked, "list") EXCEPT !.found = @ \cup {e}]
    /\ UNCHANGED <<address, selected, page, loads, started, followed>>

EventMarketsListed(e, asked) ==
    /\ Stage(e, asked) = "list"
    /\ AdvanceContext(e, asked, "detail")

Waiting(e, asked) ==
    {v \in DOMAIN loads : /\ loads[v].stage = "resolving"
                          /\ loads[v].event = e /\ loads[v].asked = asked}

\* Mutant of IsCurrent: the version of the load is not looked at.
IsAnyVersion(v) == TRUE

\* version === requestVersion.
IsCurrent(v) == v = Version

\* The detail of m is read: the context resolves, and every load that waited
\* for it starts the reads of m and, if it is current, shows the shell view.
DetailRead(e, asked, m, siblings) ==
    LET snapshots == [n \in siblings \cup {m} |-> Bare]
        applied   == ApplyDetail(EnsureEventView(cache, e, snapshots), e, m, siblings)
        resolved  == WithContext(applied, e, asked, [stage |-> "done", market |-> m])
        begun     == BeginHydration(resolved, e, m)
        waiting   == Waiting(e, asked)
    IN  /\ \/ Stage(e, asked) = "preferred" /\ m = cache.store.preferred[e]
           \/ Stage(e, asked) = "detail" /\ m = First(MarketsOf(e))
        /\ cache' = begun
        /\ loads' = [v \in DOMAIN loads |-> IF v \in waiting
                                            THEN Hydrating(loads[v], begun, m)
                                            ELSE loads[v]]
        /\ page' = IF \E v \in waiting : IsCurrent(v) THEN Showing(page, begun, e, m) ELSE page
        /\ UNCHANGED <<address, selected, started, followed>>

\* Mutant of ContextFails: the loads that wait are not told.
ContextFailsUnheard(e, asked) ==
    /\ Stage(e, asked) \in {"lookup", "list", "detail"}
    /\ cache' = InStage(cache, e, asked, "none")
    /\ UNCHANGED <<address, selected, page, loads, started, followed>>

\* A request of the resolution fails: the context is forgotten and every load
\* that waited for it ends; the current one reports the error unless the page
\* has something to show.
ContextFails(e, asked) ==
    LET waiting == Waiting(e, asked)
        current == {v \in waiting : IsCurrent(v)}
    IN  /\ Stage(e, asked) \in {"lookup", "list", "detail"}
        /\ cache' = InStage(cache, e, asked, "none")
        /\ loads' = [v \in DOMAIN loads |-> IF v \in waiting
                                            THEN [loads[v] EXCEPT !.stage = "failed"]
                                            ELSE loads[v]]
        /\ page' = IF current = {} THEN page
                   ELSE [page EXCEPT !.error = TRUE,
                            !.status = IF \E v \in current : ~loads[v].keep
                                       THEN "error" ELSE @]
        /\ UNCHANGED <<address, selected, started, followed>>

(***************************************************************************)
(* The answers of the reads a page started.                                *)
(***************************************************************************)
\* The loads that wait for this answer.
AwaitedBy(e, k, ms) ==
    {v \in DOMAIN loads : /\ loads[v].stage = "hydrating"
                          /\ loads[v].event = e /\ loads[v].market \in ms
                          /\ k \in loads[v].awaits}

\* The loads after an answer: those in waiting stop waiting for it.
AfterAnswer(waiting, k) ==
    [v \in DOMAIN loads |->
        IF v \notin waiting THEN loads[v]
        ELSE LET left == loads[v].awaits \ {k} IN
             [loads[v] EXCEPT !.awaits = left,
                              !.stage = IF left = {} THEN "done" ELSE @]]

\* What the answers make the page show: the hydrated view when nothing is
\* waited for any more, and a preview for the kinds that have one.
Republished(c, waiting, preview, after) ==
    LET showing == {v \in waiting : IsCurrent(v) /\ (preview \/ after[v].stage = "done")}
    IN  IF showing = {} THEN page
        ELSE LET v == CHOOSE u \in showing : TRUE
             IN  Showing(page, c, loads[v].event, loads[v].market)

EventMarketsRead(e, ok) ==
    LET c       == EventMarketsArrive(cache, e, ok)
        waiting == AwaitedBy(e, "markets", Market)
        after   == AfterAnswer(waiting, "markets")
    IN  /\ cache.views[e].listing > 0
        /\ cache' = c
        /\ loads' = after
        /\ page' = Republished(c, waiting, \E m \in Known(c, e) :
                       LET s == c.views[e].markets[m] IN s.priced \/ s.enriched, after)
        /\ UNCHANGED <<address, selected, started, followed>>

\* Every kind but liquidity: only comments have a preview of their own.
ResourceRead(e, k, m, ok) ==
    LET c       == Arrives(cache, e, k, m, ok)
        waiting == AwaitedBy(e, k, {m})
        after   == AfterAnswer(waiting, k)
    IN  /\ k # "liquidity"
        /\ cache.inFlight[k][m] > 0
        /\ cache' = c
        /\ loads' = after
        /\ page' = Republished(c, waiting, k = "comments" /\ ok, after)
        /\ UNCHANGED <<address, selected, started, followed>>

\* Liquidity that could not be read is asked for once more by each load.
LiquidityRead(e, m, ok) ==
    LET c       == Arrives(cache, e, "liquidity", m, ok)
        waiting == AwaitedBy(e, "liquidity", {m})
        again   == {v \in waiting : ~ok /\ ~loads[v].retried}
        after   == AfterAnswer(waiting \ again, "liquidity")
    IN  /\ cache.inFlight["liquidity"][m] > 0
        /\ cache' = IF again = {} THEN c
                    ELSE AskedAgain(c, "liquidity", m)
        /\ loads' = [v \in DOMAIN loads |-> IF v \in again
                                            THEN [after[v] EXCEPT !.retried = TRUE]
                                            ELSE after[v]]
        /\ page' = Republished(c, waiting, ok, after)
        /\ UNCHANGED <<address, selected, started, followed>>

ScreenVisitor ==
    \/ Mount
    \/ \E e \in Event : VisitEvent(e)
    \/ \E m \in Market : SelectMarket(m)
    \/ RetryLoad
    \/ ReloadTab

ScreenAnswer ==
    \E e \in Event :
        \/ \E ok \in BOOLEAN : EventMarketsRead(e, ok)
        \/ \E m \in MarketsOf(e), ok \in BOOLEAN :
              \/ "liquidity" \in followed /\ LiquidityRead(e, m, ok)
              \/ \E k \in followed : ResourceRead(e, k, m, ok)
        \/ \E asked \in {None} \cup MarketsOf(e) :
              \/ PreferredMarketGone(e, asked)
              \/ EventFound(e, asked)
              \/ EventMarketsListed(e, asked)
              \/ ContextFails(e, asked)
              \/ \E m \in MarketsOf(e) :
                    \E siblings \in {{}, MarketsOf(e)} : DetailRead(e, asked, m, siblings)

ScreenNext == ScreenVisitor \/ ScreenAnswer

\* Every request is answered or fails in the end, and a page that is open is
\* mounted (before that nothing is asked for).  Nothing is asked of the visitor.
ScreenFairness == WF_screenVars(Mount \/ ScreenAnswer)

ScreenSpec == ScreenInit /\ [][ScreenNext]_screenVars

FairScreenSpec == ScreenSpec /\ ScreenFairness

\* The page shows the event of its address, and of the markets of that event
\* the one the visitor chose: an answer that comes after the visitor has moved
\* on changes neither.
ShowsWhatIsAddressed ==
    page.status = "ready" =>
        /\ page.data.event = address
        /\ selected # None => page.data.market = selected

\* However many loads run side by side, a resource is never being read twice at
\* a time.
SingleFlight ==
    \A e \in Event :
        /\ cache.views[e].listing <= 1
        /\ \A k \in followed, m \in MarketsOf(e) : cache.inFlight[k][m] <= 1

\* While a market stays on the page what was shown of it is not taken away
\* again.  Order books are left out: the few that are kept may push out the one
\* being shown.
HydrationOnlyAdds ==
    [][(/\ page.status = "ready" /\ page'.status = "ready"
        /\ page.data.event = page'.data.event
        /\ page.data.market = page'.data.market)
       => page.data.filled \ {"orderbook"} \subseteq page'.data.filled]_screenVars

\* A page that has asked and says it is loading comes to show a market or an error.
LoadingEnds == page.status = "loading" /\ loads # <<>> ~> page.status # "loading"
=============================================================================
