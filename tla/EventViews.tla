------------------------------ MODULE EventViews ------------------------------
(***************************************************************************)
(* What the public site remembers about events while its tab is open: one  *)
(* view per event with the resources read so far and the requests in       *)
(* flight (eventViewCache), the event and market an address resolves to    *)
(* (detailContextCache, eventLookupCache), and the tab's session storage.  *)
(* No state is kept here: every operator maps one cache to the next, and   *)
(* MarketScreen holds the cache.                                           *)
(***************************************************************************)
EXTENDS Site

CONSTANTS Rank,            \* the order of a market in its event: compareMarkets
          MaxBooks         \* MAX_CACHED_ORDERBOOKS_PER_EVENT

ASSUME EventViewsAssumption ==
    /\ Rank \in [Market -> Nat]
    /\ MaxBooks \in Nat \ {0}

\* What a page waits for about one market.  The price history is read for the
\* whole event and no page waits for it.
Resource == {"resolution", "related", "activity", "comments", "liquidity",
         "orderbook", "history"}

First(ms) == CHOOSE m \in ms : \A n \in ms : Rank[m] <= Rank[n]

(***************************************************************************)
(* A market's snapshot: has it prices, and has it statistics or a quote    *)
(* summary.  Merging two snapshots of a market turns missing statistics    *)
(* into null, which hasSnapshotEnrichment takes for present.               *)
(***************************************************************************)
Snapshot == [priced : BOOLEAN, enriched : BOOLEAN]

Bare == [priced |-> FALSE, enriched |-> FALSE]
Shell == [priced |-> FALSE, enriched |-> TRUE]
Full == [priced |-> TRUE, enriched |-> TRUE]

\* Snapshots of some markets.
MarketMaps == UNION {[ms -> Snapshot] : ms \in SUBSET Market}

Merge(old, new) ==
    [m \in DOMAIN old \cup DOMAIN new |->
        IF m \notin DOMAIN new THEN old[m]
        ELSE IF m \notin DOMAIN old THEN new[m]
        ELSE [priced |-> old[m].priced \/ new[m].priced, enriched |-> TRUE]]

\* What session storage holds: the market shown last and the snapshots of each
\* event, the markets whose liquidity was read, and those of the home feed.
StoreType ==
    [preferred : [Event -> Market \cup {None}], snapshots : [Event -> MarketMaps],
     liquidity : SUBSET Market, feed : SUBSET Market]

\* The view of an event nothing has been read of: its markets, the requests
\* for them in flight, and the markets whose order book is kept, oldest first.
NoView == [markets |-> [m \in {} |-> Bare], listing |-> 0, books |-> <<>>]

\* A tab that has just been opened on what its session storage holds.  What
\* the views keep per market stands in cached and inFlight, for the kinds that
\* are followed.
FreshCache(store, followed) ==
    [views    |-> [e \in Event |-> NoView],
     cached   |-> [k \in followed |-> [m \in Market |-> "absent"]],
     inFlight |-> [k \in followed |-> [m \in Market |-> 0]],
     contexts |-> [k \in Event \X (Market \cup {None}) |->
                      [stage |-> "none", market |-> None]],
     found    |-> {},
     store    |-> store]

Known(c, e) == DOMAIN c.views[e].markets

Stored(c, e) == c.store.snapshots[e]

\* One part of a cache is replaced.
WithMarkets(c, e, snapshots) == [c EXCEPT !.views[e].markets = snapshots]

WithListing(c, e, n) == [c EXCEPT !.views[e].listing = n]

WithContext(c, e, asked, context) == [c EXCEPT !.contexts[<<e, asked>>] = context]

WritePreferred(c, e, m) == [c EXCEPT !.store.preferred[e] = m]

WriteStored(c, e, snapshots) == [c EXCEPT !.store.snapshots[e] = snapshots]

WriteLiquidity(c, m) == [c EXCEPT !.store.liquidity = @ \cup {m}]

\* A value of kind k for m is stored.
Keep(c, k, m, value) ==
    IF k \in DOMAIN c.cached THEN [c EXCEPT !.cached[k][m] = value] ELSE c

\* An existing view keeps its resources and takes the new markets in place of
\* the ones it had.
EnsureEventView(c, e, snapshots) == WithMarkets(c, e, snapshots)

\* The view's own snapshots win over those of the detail just read.
ApplyDetail(c, e, m, siblings) ==
    LET listed == [n \in siblings \cup {m} |-> Bare] IN
    WritePreferred(Keep(WithMarkets(c, e, Merge(listed, c.views[e].markets)),
                        "resolution", m, "value"), e, m)

ApplyEventMarkets(c, e, snapshots) ==
    LET merged == Merge(c.views[e].markets, snapshots) IN
    WriteStored(WithMarkets(c, e, merged), e, merged)

FeedMarkets(c, e) == {m \in c.store.feed : EventOf[m] = e}

SeedFromHomeFeed(c, e) ==
    LET feed == FeedMarkets(c, e) IN
    IF feed = {} THEN c
    ELSE EnsureEventView(c, e, Merge([m \in feed |-> Shell], Stored(c, e)))

\* The market an address without a market stands for.
Preferred(c, e) ==
    IF c.store.preferred[e] # None THEN c.store.preferred[e] ELSE First(Known(c, e))

\* The view a page can show at once: the cache with what storage adds to it,
\* and the market shown, or None.
Projected(c, e, asked) ==
    LET seeded == IF Known(c, e) # {} THEN c ELSE SeedFromHomeFeed(c, e)
        merged == IF Stored(c, e) = <<>> THEN seeded
                  ELSE WithMarkets(seeded, e, Merge(seeded.views[e].markets, Stored(c, e)))
        m      == IF asked # None THEN asked ELSE Preferred(merged, e)
    IN  IF Known(seeded, e) = {} THEN [cache |-> seeded, market |-> None]
        ELSE [cache  |-> merged,
              market |-> IF m \in Known(merged, e) THEN m ELSE None]

\* The market a page shows for the one its context names.
SelectedMarket(c, e, m) == IF m \in Known(c, e) THEN m ELSE First(Known(c, e))

\* What a page shows: its event and market, the markets of the list, and the
\* resources of the market it has a value of.
ViewModel(c, e, m) ==
    LET shown == SelectedMarket(c, e, m) IN
    [event  |-> e, market |-> shown, list |-> Known(c, e),
     filled |-> {k \in DOMAIN c.cached : c.cached[k][shown] = "value"}]

(***************************************************************************)
(* Resolving an address.  A cached or seeded view answers at once; else    *)
(* the preferred market's detail is read, and without one the event is     *)
(* looked up, its markets listed and the first one's detail read.          *)
(***************************************************************************)
LookupStage(c, e) == IF e \in c.found THEN "list" ELSE "lookup"

ResolveContext(c, e, asked) ==
    LET direct(d) == \/ asked \in Known(d, e)
                     \/ asked = None /\ Known(d, e) # {}
        done(d)   == WithContext(d, e, asked,
                         [stage  |-> "done",
                          market |-> IF asked # None THEN asked ELSE Preferred(d, e)])
        seeded    == SeedFromHomeFeed(c, e)
        fetching  == WithContext(seeded, e, asked,
                         [stage  |-> IF c.store.preferred[e] # None THEN "preferred"
                                     ELSE LookupStage(c, e),
                          market |-> None])
    IN  IF c.contexts[<<e, asked>>].stage # "none" THEN c
        ELSE IF direct(c) THEN done(c)
        ELSE IF direct(seeded) THEN done(seeded)
        ELSE fetching

(***************************************************************************)
(* Starting the requests of a page.  A resource is asked for when it is    *)
(* neither cached nor already asked for.                                   *)
(***************************************************************************)
\* Mutant of Wanted: what is already there is read again.
WantedAgain(c, k, m) == c.inFlight[k][m] = 0

\* Mutant of Wanted: what is already asked for is asked for again.
WantedTwice(c, k, m) == c.cached[k][m] = "absent"

Wanted(c, k, m) == c.cached[k][m] = "absent" /\ c.inFlight[k][m] = 0

Enriched(v) == \A m \in DOMAIN v.markets : v.markets[m].priced /\ v.markets[m].enriched

\* loadEventMarketsForEvent: stored snapshots first, then one request.
LoadEventMarkets(c, e) ==
    LET fromStore == IF Enriched(c.views[e]) \/ Stored(c, e) = <<>> THEN c
                     ELSE ApplyEventMarkets(c, e, Stored(c, e))
    IN  IF Enriched(fromStore.views[e]) \/ fromStore.views[e].listing > 0
        THEN fromStore
        ELSE WithListing(fromStore, e, fromStore.views[e].listing + 1)

\* readStoredLiquidity answers before a request is made.
LoadStoredLiquidity(c, m) ==
    IF m \in c.store.liquidity THEN Keep(c, "liquidity", m, "value") ELSE c

\* hydrateEventDetailView and loadEventDetailView up to their first answer:
\* the history of every market, the other kinds of the one shown.
BeginHydration(c, e, market) ==
    LET m         == SelectedMarket(c, e, market)
        c1        == LoadStoredLiquidity(LoadEventMarkets(c, e), m)
        asks(k)   == {n \in IF k = "history" THEN Known(c1, e) ELSE {m} : Wanted(c1, k, n)}
    IN  [c1 EXCEPT !.inFlight =
            [k \in DOMAIN @ |-> [n \in Market |->
                IF n \in asks(k) THEN @[k][n] + 1 ELSE @[k][n]]]]

\* The answers a page that shows m waits for.
Awaited(c, e, market) ==
    LET m == SelectedMarket(c, e, market) IN
    {k \in DOMAIN c.inFlight \ {"history"} : c.inFlight[k][m] > 0}
        \cup (IF c.views[e].listing > 0 THEN {"markets"} ELSE {})

(***************************************************************************)
(* Answers.  ok is FALSE for a request that failed: readOptional.          *)
(***************************************************************************)
Received(c, k, m) == [c EXCEPT !.inFlight[k][m] = @ - 1]

AskedAgain(c, k, m) == [c EXCEPT !.inFlight[k][m] = @ + 1]

\* related and activity: a failure is forgotten.
RelatedArrives(c, m, ok) ==
    IF ok THEN Keep(Received(c, "related", m), "related", m, "value")
    ELSE Received(c, "related", m)

ActivityArrives(c, m, ok) ==
    IF ok THEN Keep(Received(c, "activity", m), "activity", m, "value")
    ELSE Received(c, "activity", m)

\* The answer also carries a snapshot of the market.
CommentsArrive(c, e, m, ok) ==
    LET answered == Received(c, "comments", m)
        markets  == Merge(c.views[e].markets, [n \in {m} |-> Bare])
    IN  IF ok THEN Keep(WithMarkets(answered, e, markets), "comments", m, "value")
        ELSE answered

LiquidityArrives(c, m, ok) ==
    IF ok THEN Keep(WriteLiquidity(Received(c, "liquidity", m), m),
                    "liquidity", m, "value")
    ELSE Received(c, "liquidity", m)

\* A failure is remembered as an empty history.
HistoryArrives(c, m, ok) ==
    Keep(Received(c, "history", m), "history", m, IF ok THEN "value" ELSE "null")

\* cacheOrderbook: a failure is remembered too, and only the MaxBooks books
\* stored last are kept.
CacheOrderbook(c, e, m, value) ==
    LET order == Append(RemoveFirst(c.views[e].books, m), m)
        kept  == IF Len(order) > MaxBooks THEN Tail(order) ELSE order
        lost  == ToSet(order) \ ToSet(kept)
    IN  [c EXCEPT !.views[e].books = kept,
                  !.cached["orderbook"] =
                      [n \in Market |-> IF n = m THEN value
                                        ELSE IF n \in lost THEN "absent" ELSE @[n]]]

OrderbookArrives(c, e, m, ok) ==
    CacheOrderbook(Received(c, "orderbook", m), e, m, IF ok THEN "value" ELSE "null")

ResolutionArrives(c, e, m, ok) ==
    IF ok THEN ApplyDetail(Received(c, "resolution", m), e, m, MarketsOf(e))
    ELSE Received(c, "resolution", m)

\* fetchEventMarketsSnapshot and its use: the answer is stored as it came, then
\* merged with what the view knew.
EventMarketsArrive(c, e, ok) ==
    LET listed   == [m \in MarketsOf(e) |-> Full]
        answered == WithListing(c, e, c.views[e].listing - 1)
    IN  IF ok THEN ApplyEventMarkets(WriteStored(answered, e, listed), e, listed)
        ELSE answered

Arrives(c, e, k, m, ok) ==
    CASE k = "related"    -> RelatedArrives(c, m, ok)
      [] k = "activity"   -> ActivityArrives(c, m, ok)
      [] k = "comments"   -> CommentsArrive(c, e, m, ok)
      [] k = "liquidity"  -> LiquidityArrives(c, m, ok)
      [] k = "history"    -> HistoryArrives(c, m, ok)
      [] k = "orderbook"  -> OrderbookArrives(c, e, m, ok)
      [] k = "resolution" -> ResolutionArrives(c, e, m, ok)

=============================================================================
