------------------------------- MODULE AdminViews -------------------------------
(***************************************************************************)
(* What the admin site's event pages remember while the tab is open: the   *)
(* markets of every event with what is in flight for them, the market each *)
(* address resolved to, and the tab's session storage.  This is the admin  *)
(* site's own copy of the code behind EventViews, kept to the state that   *)
(* decides which markets its pages list and which one they are about.  No  *)
(* state is kept here: AdminDetail holds the cache.                        *)
(***************************************************************************)
EXTENDS EventViews

\* The markets of an event, those among them that lack prices or statistics,
\* and whether they are being read.
EmptyPage == [markets |-> {}, bare |-> {}, listing |-> FALSE]

\* What session storage holds: as for the public site, with the markets of each
\* snapshot that are bare.
PageStore ==
    [feed : SUBSET Market, preferred : [Event -> Market \cup {None}],
     snapshots : [Event -> [markets : SUBSET Market, bare : SUBSET Market]]]

\* A context is None, "asked" or the market its address stands for.
FreshPages(store) ==
    [views       |-> [e \in Event |-> EmptyPage],
     resolutions |-> [m \in Market |-> "absent"],
     contexts    |-> [k \in Event \X (Market \cup {None}) |-> None],
     store       |-> store]

\* mergeMarketSnapshots: a market is bare if it is in every snapshot of it.
MergePage(page, ms, bare) ==
    [page EXCEPT !.markets = @ \cup ms,
                 !.bare = (@ \ (ms \ bare)) \cup (bare \ page.markets)]

MergeStored(c, e) ==
    LET stored == c.store.snapshots[e] IN
    [c EXCEPT !.views[e] = MergePage(@, stored.markets, stored.bare)]

\* ensureEventView: an existing view takes these markets in place of its own.
EnsurePage(c, e, ms) == [c EXCEPT !.views[e].markets = ms, !.views[e].bare = ms]

\* The detail of a market comes with the other markets of its event.
ApplyMarketDetail(c, e, m) ==
    [c EXCEPT !.views[e] = MergePage(@, MarketsOf(e), MarketsOf(e)),
              !.resolutions[m] = "value", !.store.preferred[e] = m]

ApplyPageMarkets(c, e, ms, bare) ==
    LET merged == MergePage(c.views[e], ms, bare) IN
    [c EXCEPT !.views[e] = merged,
              !.store.snapshots[e] = [markets |-> merged.markets, bare |-> merged.bare]]

StoredFeed(c, e) == {m \in c.store.feed : EventOf[m] = e}

SeedPage(c, e) ==
    IF StoredFeed(c, e) = {} THEN c ELSE MergeStored(EnsurePage(c, e, StoredFeed(c, e)), e)

\* The market an address without a market stands for.
PreferredOf(c, e) ==
    IF c.store.preferred[e] # None THEN c.store.preferred[e] ELSE First(c.views[e].markets)

SelectedOf(c, e, m) == IF m \in c.views[e].markets THEN m ELSE First(c.views[e].markets)

\* What a page can show.
PageViewType == [event : Event, market : Market, list : SUBSET Market]

PageView(c, e, m) ==
    [event |-> e, market |-> SelectedOf(c, e, m), list |-> c.views[e].markets]

\* readProjectedEventDetailView: what can be shown at once, and of which market.
ProjectPage(c, e, asked) ==
    LET seeded == IF c.views[e].markets # {} THEN c ELSE SeedPage(c, e)
        merged == MergeStored(seeded, e)
        m      == IF asked # None THEN asked ELSE PreferredOf(merged, e)
    IN  IF seeded.views[e].markets = {} THEN [cache |-> seeded, market |-> None]
        ELSE [cache |-> merged, market |-> IF m \in merged.views[e].markets THEN m ELSE None]

\* resolveDetailContext up to its first await: an address resolved before, a
\* view that has its market, or the home feed; else its detail is asked for.
ResolvePage(c, e, asked) ==
    LET direct(d)  == LET ms == d.views[e].markets IN
                      IF asked = None THEN ms # {} ELSE asked \in ms
        becomes(d, to) == WithContext(d, e, asked, to)
        market(d)  == IF asked = None THEN PreferredOf(d, e) ELSE asked
        seeded     == SeedPage(c, e)
    IN  IF c.contexts[<<e, asked>>] # None THEN c
        ELSE IF direct(c) THEN becomes(c, market(c))
        ELSE IF direct(seeded) THEN becomes(seeded, market(seeded))
        ELSE becomes(seeded, "asked")

\* The rest of resolveDetailContext, once the detail of a market is read.
PageResolved(c, e, asked, m) ==
    WithContext(ApplyMarketDetail(EnsurePage(c, e, MarketsOf(e)), e, m), e, asked, m)

LoadPageMarkets(c, e) ==
    LET stored == c.store.snapshots[e]
        after  == IF stored.markets = {} THEN c
                  ELSE ApplyPageMarkets(c, e, stored.markets, stored.bare)
    IN  IF c.views[e].bare = {} THEN c
        ELSE IF after.views[e].bare = {} THEN after
        ELSE [after EXCEPT !.views[e].listing = TRUE]

LoadPageResolution(c, m) ==
    [c EXCEPT !.resolutions[m] = IF @ = "absent" THEN "asked" ELSE @]

\* hydrateEventDetailView up to its first await, for a page about m.
HydratePage(c, e, m) == LoadPageResolution(LoadPageMarkets(c, e), SelectedOf(c, e, m))

\* What that page waits for; the rest is the market's liquidity, order book,
\* activity and related markets, which change nothing kept here.
Awaits(c, e, m) ==
    {"rest"} \cup (IF c.views[e].listing THEN {"markets"} ELSE {})
        \cup (IF c.resolutions[SelectedOf(c, e, m)] = "asked" THEN {"resolution"} ELSE {})
=============================================================================
