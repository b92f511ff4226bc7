------------------------------ MODULE ScreenProofs ------------------------------
(***************************************************************************)
(* The event pages of the two sites, for any events, markets, storage and  *)
(* answers: what is shown is what the address stands for, nothing shown is *)
(* lost to a later answer, and what the admin operates on is the market it *)
(* was opened on.  Both caches only ever learn of more markets of an       *)
(* event, which Grows says of the public site's and Wider of the admin's.  *)
(***************************************************************************)
EXTENDS MarketScreen, AdminDetail, FiniteSetTheorems, SequenceTheorems, WellFoundedInduction,
        TLAPS

-----------------------------------------------------------------------------
(* The event page *)

Stages == {"none", "preferred", "lookup", "list", "detail", "done"}

ContextType == [stage : Stages, market : Market \cup {None}]

CacheType ==
    [views    : [Event -> [markets : MarketMaps, listing : Nat, books : Seq(Market)]],
     cached   : [followed -> [Market -> {"absent", "value", "null"}]],
     inFlight : [followed -> [Market -> Nat]],
     contexts : [Event \X (Market \cup {None}) -> ContextType],
     found    : SUBSET Event,
     store    : StoreType]

\* The markets known or stored of an event are its own.
InItsEvent(c) ==
    \A e \in Event : Known(c, e) \subseteq MarketsOf(e) /\ DOMAIN Stored(c, e) \subseteq MarketsOf(e)

\* Requests are made one at a time, for events something is known of.
FlightsOf(c) ==
    /\ \A e \in Event : c.views[e].listing = 0 \/ (c.views[e].listing = 1 /\ Known(c, e) # {})
    /\ \A k \in followed, m \in Market :
          \/ c.inFlight[k][m] = 0
          \/ /\ c.inFlight[k][m] = 1 /\ Known(c, EventOf[m]) # {}
             /\ k = "history" => c.cached[k][m] = "absent"

\* An address is looked up only while nothing is known of its event.
RightContext(c, e, a, context) ==
    \/ context.stage = "none"
    \/ /\ context.stage \in {"preferred", "lookup", "list", "detail"}
       /\ a = None /\ Known(c, e) = {} /\ FeedMarkets(c, e) = {}
    \/ /\ context.stage = "done"
       /\ Known(c, e) # {} /\ (a # None => context.market = a)

ContextsOf(c) ==
    \A e \in Event, a \in Market \cup {None} : RightContext(c, e, a, c.contexts[<<e, a>>])

CacheInv(c) == c \in CacheType /\ InItsEvent(c) /\ FlightsOf(c) /\ ContextsOf(c)

\* d knows what c knows and has the values c has, order books aside.
Extends(c, d) ==
    /\ \A e \in Event : Known(c, e) \subseteq Known(d, e)
    /\ \A k \in followed \ {"orderbook"}, m \in Market :
          c.cached[k][m] = "value" => d.cached[k][m] = "value"

LoadType ==
    [event : Event, asked : Market \cup {None}, market : Market \cup {None}, keep : BOOLEAN,
     stage : {"resolving", "hydrating", "done", "failed"},
     awaits : SUBSET (Resource \cup {"markets"}), retried : BOOLEAN]

\* A load past its resolution has a view to show, of the market it was asked for.
LoadsInv(c, ls) ==
    /\ ls \in Seq(LoadType)
    /\ \A v \in DOMAIN ls :
          ls[v].stage \in {"hydrating", "done"} =>
              /\ Known(c, ls[v].event) # {}
              /\ ls[v].asked # None => ls[v].market = ls[v].asked

\* The last load is of the address, and the market it names is a known one.
AddressInv ==
    /\ address \in Event /\ selected \in Market \cup {None}
    /\ selected # None => selected \in Known(cache, address) /\ loads # <<>>
    /\ loads # <<>> => loads[Len(loads)].event = address /\ loads[Len(loads)].asked = selected

DataType == [event : Event, market : Market, list : SUBSET Market, filled : SUBSET followed]

PageType ==
    [status : {"loading", "ready", "error"}, data : DataType \cup {None}, error : BOOLEAN]

\* What a page shows is still in the caches, and of the address it is at.
PageOk(c, p, e, m) ==
    /\ p \in PageType
    /\ p.data # None \/ p.status = "ready" =>
          /\ p.data \in DataType
          /\ p.data.list \subseteq Known(c, p.data.event)
          /\ \A k \in p.data.filled \ {"orderbook"} : c.cached[k][p.data.market] = "value"
    /\ p.status = "ready" => p.data.event = e /\ (m # None => p.data.market = m)

\* Newly shown, a market is shown with every value there is of it.
ShowsAll(c, q) == q.data.filled = {k \in followed : c.cached[k][q.data.market] = "value"}

ScreenInv ==
    /\ followed \subseteq Resource
    /\ CacheInv(cache) /\ LoadsInv(cache, loads) /\ AddressInv
    /\ PageOk(cache, page, address, selected)

\* A set of ranks has a least one, and so First is a market of the set.
LEMMA LeastOf ==
    ASSUME NEW S \in SUBSET Nat, S # {}
    PROVE  \E n \in S : \A i \in S : n <= i
<1> DEFINE R == {ss \in Nat \X Nat : ss[1] < ss[2]}
<1>1. IsWellFoundedOn(R, Nat)
  BY NatLessThanWellFounded DEF OpToRel
<1> HIDE DEF R
<1>2. \E r \in S : \A s \in S : <<s, r>> \notin R
  BY <1>1, WFMin
<1>3. \A r, s \in Nat : <<s, r>> \in R <=> s < r
  BY DEF R
<1>4. PICK n \in S : \A s \in S : ~(s < n)
  BY <1>2, <1>3
<1>5. \A s \in S : n <= s
  BY <1>4
<1> QED
  BY <1>5

LEMMA FirstOf ==
    ASSUME NEW ms \in SUBSET Market, ms # {}
    PROVE  First(ms) \in ms
<1> DEFINE ranks == {Rank[m] : m \in ms}
<1>1. ranks \subseteq Nat /\ ranks # {}
  BY EventViewsAssumption
<1>2. \E r \in ranks : \A s \in ranks : r <= s
  <2> HIDE DEF ranks
  <2> QED
    BY <1>1, LeastOf
<1>3. \E m \in ms : \A n \in ms : Rank[m] <= Rank[n]
  BY <1>2
<1> QED
  BY <1>3 DEF First

LEMMA RemoveFirstOf ==
    ASSUME NEW S, NEW s \in Seq(S), NEW x
    PROVE  RemoveFirst(s, x) \in Seq(S)
<1>1. CASE \E i \in 1..Len(s) : s[i] = x
  <2> DEFINE I == {i \in 1..Len(s) : s[i] = x}
  <2>1. I \in SUBSET Nat /\ I # {}
    BY <1>1
  <2>2. Min(I) \in I
    BY <2>1, LeastOf DEF Min
  <2>3. PICK i \in 1..Len(s) : i = Min(I)
    BY <2>2
  <2>4. RemoveFirst(s, x) = RemoveAt(s, i)
    BY <1>1, <2>1, <2>3, Zenon DEF RemoveFirst, SelectInSeq
  <2> QED
    BY <2>4 DEF RemoveAt
<1>2. CASE ~\E i \in 1..Len(s) : s[i] = x
  BY <1>2 DEF RemoveFirst
<1> QED
  BY <1>1, <1>2

LEMMA MapOf ==
    ASSUME NEW ms \in SUBSET Market, NEW s \in Snapshot
    PROVE  [n \in ms |-> s] \in MarketMaps /\ DOMAIN [n \in ms |-> s] = ms
BY DEF MarketMaps

LEMMA MergeOf ==
    ASSUME NEW old \in MarketMaps, NEW new \in MarketMaps
    PROVE  /\ Merge(old, new) \in MarketMaps
           /\ DOMAIN Merge(old, new) = DOMAIN old \cup DOMAIN new
<1>1. PICK a \in SUBSET Market : old \in [a -> Snapshot]
  BY DEF MarketMaps
<1>2. PICK b \in SUBSET Market : new \in [b -> Snapshot]
  BY DEF MarketMaps
<1>3. Merge(old, new) \in [a \cup b -> Snapshot]
  BY <1>1, <1>2 DEF Merge, Snapshot
<1> QED
  BY <1>1, <1>2, <1>3 DEF MarketMaps

\* The markets known of an event are markets, and its own.
LEMMA KnownOf ==
    ASSUME NEW c \in CacheType, NEW e \in Event
    PROVE  /\ c.views[e].markets \in MarketMaps /\ Known(c, e) \subseteq Market
           /\ Stored(c, e) \in MarketMaps /\ DOMAIN Stored(c, e) \subseteq Market
           /\ FeedMarkets(c, e) \subseteq MarketsOf(e)
BY DEF CacheType, Known, Stored, StoreType, MarketMaps, FeedMarkets, MarketsOf

LEMMA WithMarketsOf ==
    ASSUME NEW c \in CacheType, NEW e \in Event, NEW ms \in MarketMaps,
           NEW d, d = WithMarkets(c, e, ms)
    PROVE  /\ d \in CacheType /\ Known(d, e) = DOMAIN ms
           /\ \A x \in Event \ {e} : Known(d, x) = Known(c, x)
           /\ \A x \in Event : d.views[x].listing = c.views[x].listing
           /\ d.inFlight = c.inFlight /\ d.cached = c.cached
           /\ d.contexts = c.contexts /\ d.store = c.store /\ d.found = c.found
<1>1. PICK v : v = [c.views[e] EXCEPT !.markets = ms]
  OBVIOUS
<1>2. c.views[e] \in [markets : MarketMaps, listing : Nat, books : Seq(Market)]
  BY DEF CacheType
<1>3. /\ v \in [markets : MarketMaps, listing : Nat, books : Seq(Market)]
      /\ v.markets = ms /\ v.listing = c.views[e].listing
  BY <1>1, <1>2
<1>4. PICK vs : vs = [c.views EXCEPT ![e] = v]
  OBVIOUS
<1>5. /\ vs \in [Event -> [markets : MarketMaps, listing : Nat, books : Seq(Market)]]
      /\ vs[e] = v /\ \A x \in Event \ {e} : vs[x] = c.views[x]
  BY <1>3, <1>4 DEF CacheType
<1>6. d = [c EXCEPT !.views = vs]
  BY <1>1, <1>4 DEF WithMarkets
<1>7. d \in CacheType
  BY <1>5, <1>6 DEF CacheType
<1>8. /\ d.views = vs /\ d.inFlight = c.inFlight /\ d.cached = c.cached
      /\ d.contexts = c.contexts /\ d.store = c.store /\ d.found = c.found
  BY <1>6 DEF CacheType
<1> QED
  BY <1>3, <1>5, <1>7, <1>8 DEF Known

LEMMA WithListingOf ==
    ASSUME NEW c \in CacheType, NEW e \in Event, NEW n \in Nat,
           NEW d, d = WithListing(c, e, n)
    PROVE  /\ d \in CacheType /\ d.views[e].listing = n
           /\ \A x \in Event \ {e} : d.views[x].listing = c.views[x].listing
           /\ \A x \in Event : Known(d, x) = Known(c, x)
           /\ \A x \in Event : d.views[x].markets = c.views[x].markets
           /\ d.inFlight = c.inFlight /\ d.cached = c.cached
           /\ d.contexts = c.contexts /\ d.store = c.store /\ d.found = c.found
<1>1. PICK v : v = [c.views[e] EXCEPT !.listing = n]
  OBVIOUS
<1>2. c.views[e] \in [markets : MarketMaps, listing : Nat, books : Seq(Market)]
  BY DEF CacheType
<1>3. /\ v \in [markets : MarketMaps, listing : Nat, books : Seq(Market)]
      /\ v.markets = c.views[e].markets /\ v.listing = n
  BY <1>1, <1>2
<1>4. PICK vs : vs = [c.views EXCEPT ![e] = v]
  OBVIOUS
<1>5. /\ vs \in [Event -> [markets : MarketMaps, listing : Nat, books : Seq(Market)]]
      /\ vs[e] = v /\ \A x \in Event \ {e} : vs[x] = c.views[x]
  BY <1>3, <1>4 DEF CacheType
<1>6. d = [c EXCEPT !.views = vs]
  BY <1>1, <1>4 DEF WithListing
<1>7. d \in CacheType
  BY <1>5, <1>6 DEF CacheType
<1>8. /\ d.views = vs /\ d.inFlight = c.inFlight /\ d.cached = c.cached
      /\ d.contexts = c.contexts /\ d.store = c.store /\ d.found = c.found
  BY <1>6 DEF CacheType
<1> QED
  BY <1>3, <1>5, <1>7, <1>8 DEF Known

LEMMA WithContextOf ==
    ASSUME NEW c \in CacheType, NEW e \in Event, NEW a \in Market \cup {None},
           NEW context \in ContextType,
           NEW d, d = WithContext(c, e, a, context)
    PROVE  /\ d \in CacheType
           /\ d.views = c.views /\ d.inFlight = c.inFlight /\ d.cached = c.cached
           /\ d.store = c.store /\ d.found = c.found
BY DEF CacheType, WithContext

LEMMA ContextOf ==
    ASSUME NEW c \in CacheType, NEW e \in Event, NEW a \in Market \cup {None},
           NEW context \in ContextType,
           NEW d, d = WithContext(c, e, a, context)
    PROVE  d.contexts[<<e, a>>] = context
BY DEF CacheType, WithContext

LEMMA OtherContextOf ==
    ASSUME NEW c \in CacheType, NEW e \in Event, NEW a \in Market \cup {None},
           NEW context \in ContextType,
           NEW d, d = WithContext(c, e, a, context),
           NEW x \in Event, NEW b \in Market \cup {None}, x # e \/ b # a
    PROVE  d.contexts[<<x, b>>] = c.contexts[<<x, b>>]
BY DEF CacheType, WithContext

LEMMA WriteStoredOf ==
    ASSUME NEW c \in CacheType, NEW e \in Event, NEW ms \in MarketMaps,
           NEW d, d = WriteStored(c, e, ms)
    PROVE  /\ d \in CacheType /\ d.views = c.views
           /\ d.inFlight = c.inFlight /\ d.cached = c.cached
           /\ d.contexts = c.contexts /\ d.found = c.found
           /\ d.store.feed = c.store.feed
           /\ Stored(d, e) = ms
           /\ \A x \in Event \ {e} : Stored(d, x) = Stored(c, x)
BY DEF CacheType, StoreType, WriteStored, Stored

LEMMA WritePreferredOf ==
    ASSUME NEW c \in CacheType, NEW e \in Event, NEW m \in Market,
           NEW d, d = WritePreferred(c, e, m)
    PROVE  /\ d \in CacheType /\ d.views = c.views
           /\ d.inFlight = c.inFlight /\ d.cached = c.cached
           /\ d.contexts = c.contexts /\ d.found = c.found
           /\ d.store.feed = c.store.feed /\ d.store.snapshots = c.store.snapshots
BY DEF CacheType, StoreType, WritePreferred

LEMMA WriteLiquidityOf ==
    ASSUME NEW c \in CacheType, NEW m \in Market, NEW d, d = WriteLiquidity(c, m)
    PROVE  /\ d \in CacheType /\ d.views = c.views
           /\ d.inFlight = c.inFlight /\ d.cached = c.cached
           /\ d.contexts = c.contexts /\ d.found = c.found
           /\ d.store.feed = c.store.feed /\ d.store.snapshots = c.store.snapshots
BY DEF CacheType, StoreType, WriteLiquidity

LEMMA KeepOf ==
    ASSUME NEW c \in CacheType, NEW k, NEW m \in Market, NEW v \in {"value", "null"},
           NEW d, d = Keep(c, k, m, v)
    PROVE  /\ d \in CacheType /\ d.views = c.views
           /\ d.inFlight = c.inFlight /\ d.contexts = c.contexts /\ d.store = c.store
           /\ d.found = c.found
           /\ \A j \in followed, n \in Market :
                 d.cached[j][n] = IF j = k /\ n = m THEN v ELSE c.cached[j][n]
<1>1. CASE k \in DOMAIN c.cached
  BY <1>1 DEF CacheType, Keep
<1>2. CASE k \notin DOMAIN c.cached
  BY <1>2 DEF CacheType, Keep
<1> QED
  BY <1>1, <1>2

LEMMA ReceivedOf ==
    ASSUME NEW c \in CacheType, NEW k \in followed, NEW m \in Market, c.inFlight[k][m] > 0,
           NEW d, d = Received(c, k, m)
    PROVE  /\ d \in CacheType /\ d.views = c.views
           /\ d.cached = c.cached /\ d.contexts = c.contexts /\ d.store = c.store
           /\ d.found = c.found
           /\ \A j \in followed, n \in Market :
                 d.inFlight[j][n] = IF j = k /\ n = m THEN c.inFlight[j][n] - 1
                                    ELSE c.inFlight[j][n]
<1>1. c.inFlight[k] \in [Market -> Nat] /\ c.inFlight[k][m] - 1 \in Nat
  BY DEF CacheType
<1>2. PICK r : r = [c.inFlight[k] EXCEPT ![m] = c.inFlight[k][m] - 1]
  OBVIOUS
<1>3. /\ r \in [Market -> Nat] /\ r[m] = c.inFlight[k][m] - 1
      /\ \A n \in Market \ {m} : r[n] = c.inFlight[k][n]
  BY <1>1, <1>2
<1>4. PICK q : q = [c.inFlight EXCEPT ![k] = r]
  OBVIOUS
<1>5. /\ q \in [followed -> [Market -> Nat]] /\ q[k] = r
      /\ \A j \in followed \ {k} : q[j] = c.inFlight[j]
  BY <1>3, <1>4 DEF CacheType
<1>6. d = [c EXCEPT !.inFlight = q]
  BY <1>2, <1>4 DEF Received
<1>7. d \in CacheType
  BY <1>5, <1>6 DEF CacheType
<1>8. /\ d.inFlight = q /\ d.views = c.views
      /\ d.cached = c.cached /\ d.contexts = c.contexts /\ d.store = c.store
      /\ d.found = c.found
  BY <1>6 DEF CacheType
<1> QED
  BY <1>3, <1>5, <1>7, <1>8

LEMMA AskedAgainOf ==
    ASSUME NEW c \in CacheType, NEW k \in followed, NEW m \in Market,
           NEW d, d = AskedAgain(c, k, m)
    PROVE  /\ d \in CacheType /\ d.views = c.views
           /\ d.cached = c.cached /\ d.contexts = c.contexts /\ d.store = c.store
           /\ d.found = c.found
           /\ \A j \in followed, n \in Market :
                 d.inFlight[j][n] = IF j = k /\ n = m THEN c.inFlight[j][n] + 1
                                    ELSE c.inFlight[j][n]
<1>1. c.inFlight[k] \in [Market -> Nat] /\ c.inFlight[k][m] + 1 \in Nat
  BY DEF CacheType
<1>2. PICK r : r = [c.inFlight[k] EXCEPT ![m] = c.inFlight[k][m] + 1]
  OBVIOUS
<1>3. /\ r \in [Market -> Nat] /\ r[m] = c.inFlight[k][m] + 1
      /\ \A n \in Market \ {m} : r[n] = c.inFlight[k][n]
  BY <1>1, <1>2
<1>4. PICK q : q = [c.inFlight EXCEPT ![k] = r]
  OBVIOUS
<1>5. /\ q \in [followed -> [Market -> Nat]] /\ q[k] = r
      /\ \A j \in followed \ {k} : q[j] = c.inFlight[j]
  BY <1>3, <1>4 DEF CacheType
<1>6. d = [c EXCEPT !.inFlight = q]
  BY <1>2, <1>4 DEF AskedAgain
<1>7. d \in CacheType
  BY <1>5, <1>6 DEF CacheType
<1>8. /\ d.inFlight = q /\ d.views = c.views
      /\ d.cached = c.cached /\ d.contexts = c.contexts /\ d.store = c.store
      /\ d.found = c.found
  BY <1>6 DEF CacheType
<1> QED
  BY <1>3, <1>5, <1>7, <1>8

Sound(c) == c \in CacheType /\ InItsEvent(c) /\ FlightsOf(c)

\* c grows into d: nothing is forgotten, and an event nothing is known of becomes
\* known only by its home feed.
Grows(c, d) ==
    /\ Sound(d) /\ Extends(c, d)
    /\ \A e \in Event : Known(c, e) = {} => Known(d, e) = {} \/ FeedMarkets(c, e) # {}
    /\ d.contexts = c.contexts
    /\ d.store.feed = c.store.feed

\* What holds of a cache holds of one that grew out of it.
LEMMA GrowsKeeps ==
    ASSUME NEW c, NEW d, CacheInv(c), Grows(c, d)
    PROVE  CacheInv(d) /\ Extends(c, d)
<1>1. \A e \in Event : FeedMarkets(d, e) = FeedMarkets(c, e)
  BY DEF Grows, FeedMarkets
<1>2. /\ \A e \in Event : Known(c, e) \subseteq Known(d, e)
      /\ \A e \in Event : Known(c, e) = {} => Known(d, e) = {} \/ FeedMarkets(c, e) # {}
      /\ d.contexts = c.contexts
  BY DEF Grows, Extends
<1>3. ContextsOf(d)
  <2> SUFFICES ASSUME NEW e \in Event, NEW a \in Market \cup {None}
               PROVE  RightContext(d, e, a, c.contexts[<<e, a>>])
    BY <1>2 DEF ContextsOf
  <2>1. RightContext(c, e, a, c.contexts[<<e, a>>])
    BY DEF CacheInv, ContextsOf
  <2>2. Known(c, e) \subseteq Known(d, e) /\ FeedMarkets(d, e) = FeedMarkets(c, e)
        /\ (Known(c, e) = {} => Known(d, e) = {} \/ FeedMarkets(c, e) # {})
    BY <1>1, <1>2
  <2> QED
    BY <2>1, <2>2 DEF RightContext
<1> QED
  BY <1>3 DEF CacheInv, Grows, Sound

\* Growth composes.
LEMMA GrowsOn ==
    ASSUME NEW c, NEW d, NEW f, Grows(c, d), Grows(d, f)
    PROVE  Grows(c, f)
<1>1. \A e \in Event : FeedMarkets(d, e) = FeedMarkets(c, e)
  BY DEF Grows, FeedMarkets
<1>2. Extends(c, f)
  BY DEF Grows, Extends
<1> QED
  BY <1>1, <1>2 DEF Grows

LEMMA GrowsSelf ==
    ASSUME NEW c, Sound(c)
    PROVE  Grows(c, c)
BY DEF Grows, Extends

\* What changes neither markets nor requests nor values grows.
LEMMA GrowsBeside ==
    ASSUME NEW c, Sound(c), NEW d \in CacheType,
           d.views = c.views, d.inFlight = c.inFlight, d.cached = c.cached,
           d.contexts = c.contexts, d.store.feed = c.store.feed,
           \A e \in Event : DOMAIN Stored(d, e) \subseteq MarketsOf(e)
    PROVE  Grows(c, d)
BY DEF Grows, Extends, Sound, InItsEvent, FlightsOf, Known

LEMMA MarketsSound ==
    ASSUME NEW c, Sound(c), NEW e \in Event, NEW ms \in MarketMaps,
           Known(c, e) \subseteq DOMAIN ms, DOMAIN ms \subseteq MarketsOf(e),
           NEW d, d = WithMarkets(c, e, ms)
    PROVE  /\ Sound(d) /\ Extends(c, d) /\ Known(d, e) = DOMAIN ms
           /\ \A x \in Event \ {e} : Known(d, x) = Known(c, x)
           /\ d.contexts = c.contexts /\ d.store = c.store
<1>1. /\ d \in CacheType /\ Known(d, e) = DOMAIN ms
      /\ \A x \in Event \ {e} : Known(d, x) = Known(c, x)
      /\ \A x \in Event : d.views[x].listing = c.views[x].listing
      /\ d.inFlight = c.inFlight /\ d.cached = c.cached
      /\ d.contexts = c.contexts /\ d.store = c.store /\ d.found = c.found
  BY WithMarketsOf DEF Sound
<1>2. \A x \in Event : Known(c, x) \subseteq Known(d, x)
  BY <1>1
<1>3. InItsEvent(d)
  BY <1>1 DEF Sound, InItsEvent, Stored
<1>4. FlightsOf(d)
  BY <1>1, <1>2, SiteAssumption DEF Sound, FlightsOf
<1> QED
  BY <1>1, <1>2, <1>3, <1>4 DEF Sound, Extends

LEMMA GrowsMarkets ==
    ASSUME NEW c, Sound(c), NEW e \in Event, NEW ms \in MarketMaps,
           Known(c, e) \subseteq DOMAIN ms, DOMAIN ms \subseteq MarketsOf(e),
           Known(c, e) # {} \/ FeedMarkets(c, e) # {},
           NEW d, d = WithMarkets(c, e, ms)
    PROVE  Grows(c, d) /\ Known(d, e) = DOMAIN ms
BY MarketsSound DEF Grows

LEMMA GrowsStored ==
    ASSUME NEW c, Sound(c), NEW e \in Event, NEW ms \in MarketMaps,
           DOMAIN ms \subseteq MarketsOf(e),
           NEW d, d = WriteStored(c, e, ms)
    PROVE  Grows(c, d) /\ d.views = c.views
<1>1. /\ d \in CacheType /\ d.views = c.views
      /\ d.inFlight = c.inFlight /\ d.cached = c.cached
      /\ d.contexts = c.contexts /\ d.found = c.found
      /\ d.store.feed = c.store.feed
      /\ Stored(d, e) = ms
      /\ \A x \in Event \ {e} : Stored(d, x) = Stored(c, x)
  BY WriteStoredOf DEF Sound
<1>2. \A x \in Event : DOMAIN Stored(d, x) \subseteq MarketsOf(x)
  BY <1>1 DEF Sound, InItsEvent
<1> QED
  BY <1>1, <1>2, GrowsBeside

LEMMA GrowsPreferred ==
    ASSUME NEW c, Sound(c), NEW e \in Event, NEW m \in Market,
           NEW d, d = WritePreferred(c, e, m)
    PROVE  Grows(c, d) /\ d.views = c.views
<1>1. /\ d \in CacheType /\ d.views = c.views
      /\ d.inFlight = c.inFlight /\ d.cached = c.cached
      /\ d.contexts = c.contexts /\ d.found = c.found
      /\ d.store.feed = c.store.feed /\ d.store.snapshots = c.store.snapshots
  BY WritePreferredOf DEF Sound
<1>2. \A x \in Event : DOMAIN Stored(d, x) \subseteq MarketsOf(x)
  BY <1>1 DEF Sound, InItsEvent, Stored
<1> QED
  BY <1>1, <1>2, GrowsBeside

LEMMA GrowsLiquidity ==
    ASSUME NEW c, Sound(c), NEW m \in Market, NEW d, d = WriteLiquidity(c, m)
    PROVE  Grows(c, d) /\ d.views = c.views
<1>1. /\ d \in CacheType /\ d.views = c.views
      /\ d.inFlight = c.inFlight /\ d.cached = c.cached
      /\ d.contexts = c.contexts /\ d.found = c.found
      /\ d.store.feed = c.store.feed /\ d.store.snapshots = c.store.snapshots
  BY WriteLiquidityOf DEF Sound
<1>2. \A x \in Event : DOMAIN Stored(d, x) \subseteq MarketsOf(x)
  BY <1>1 DEF Sound, InItsEvent, Stored
<1> QED
  BY <1>1, <1>2, GrowsBeside

LEMMA GrowsKept ==
    ASSUME NEW c, Sound(c), NEW k, NEW m \in Market, NEW v \in {"value", "null"},
           k = "history" /\ k \in followed => c.inFlight[k][m] = 0,
           v = "value" \/ (k \in followed => c.cached[k][m] # "value"),
           NEW d, d = Keep(c, k, m, v)
    PROVE  Grows(c, d) /\ d.views = c.views
<1>1. /\ d \in CacheType /\ d.views = c.views
      /\ d.inFlight = c.inFlight /\ d.contexts = c.contexts /\ d.store = c.store
      /\ d.found = c.found
      /\ \A j \in followed, n \in Market :
            d.cached[j][n] = IF j = k /\ n = m THEN v ELSE c.cached[j][n]
  BY KeepOf DEF Sound
<1>2. \A x \in Event : Known(d, x) = Known(c, x) /\ Stored(d, x) = Stored(c, x)
  BY <1>1 DEF Known, Stored
<1>3. FlightsOf(d)
  BY <1>1, <1>2, SiteAssumption DEF FlightsOf, Sound
<1>4. InItsEvent(d) /\ Extends(c, d)
  BY <1>1, <1>2 DEF Sound, InItsEvent, Extends
<1> QED
  BY <1>1, <1>2, <1>3, <1>4 DEF Grows, Sound

LEMMA GrowsReceived ==
    ASSUME NEW c, Sound(c), NEW k \in followed, NEW m \in Market, c.inFlight[k][m] > 0,
           NEW d, d = Received(c, k, m)
    PROVE  /\ Grows(c, d) /\ d.views = c.views /\ d.cached = c.cached
           /\ d.inFlight[k][m] = 0 /\ Known(c, EventOf[m]) # {}
           /\ k = "history" => c.cached[k][m] = "absent"
<1>1. /\ d \in CacheType /\ d.views = c.views
      /\ d.cached = c.cached /\ d.contexts = c.contexts /\ d.store = c.store
      /\ d.found = c.found
      /\ \A j \in followed, n \in Market :
            d.inFlight[j][n] = IF j = k /\ n = m THEN c.inFlight[j][n] - 1
                               ELSE c.inFlight[j][n]
  BY ReceivedOf DEF Sound
<1>2. \A x \in Event : Known(d, x) = Known(c, x) /\ Stored(d, x) = Stored(c, x)
  BY <1>1 DEF Known, Stored
<1>3. \/ c.inFlight[k][m] = 0
      \/ /\ c.inFlight[k][m] = 1 /\ Known(c, EventOf[m]) # {}
         /\ k = "history" => c.cached[k][m] = "absent"
  BY DEF Sound, FlightsOf
<1>4. FlightsOf(d)
  BY <1>1, <1>2, <1>3, SiteAssumption DEF FlightsOf, Sound
<1>5. InItsEvent(d) /\ Extends(c, d)
  BY <1>1, <1>2 DEF Sound, InItsEvent, Extends
<1> QED
  BY <1>1, <1>2, <1>3, <1>4, <1>5 DEF Grows, Sound

LEMMA GrowsListing ==
    ASSUME NEW c, Sound(c), NEW e \in Event, NEW n \in {0, 1}, n = 1 => Known(c, e) # {},
           NEW d, d = WithListing(c, e, n)
    PROVE  /\ Grows(c, d) /\ Known(d, e) = Known(c, e)
           /\ d.views[e].markets = c.views[e].markets /\ d.store = c.store
<1>1. /\ d \in CacheType /\ d.views[e].listing = n
      /\ \A x \in Event \ {e} : d.views[x].listing = c.views[x].listing
      /\ \A x \in Event : Known(d, x) = Known(c, x)
      /\ \A x \in Event : d.views[x].markets = c.views[x].markets
      /\ d.inFlight = c.inFlight /\ d.cached = c.cached
      /\ d.contexts = c.contexts /\ d.store = c.store /\ d.found = c.found
  BY WithListingOf DEF Sound
<1>2. FlightsOf(d)
  BY <1>1, SiteAssumption DEF FlightsOf, Sound
<1>3. InItsEvent(d) /\ Extends(c, d)
  BY <1>1 DEF Sound, InItsEvent, Extends, Stored
<1> QED
  BY <1>1, <1>2, <1>3 DEF Grows, Sound

LEMMA GrowsBook ==
    ASSUME NEW c, Sound(c), NEW e \in Event, NEW m \in Market, NEW v \in {"value", "null"},
           NEW d, d = CacheOrderbook(c, e, m, v), "orderbook" \in followed
    PROVE  Grows(c, d)
<1> DEFINE order == Append(RemoveFirst(c.views[e].books, m), m)
           kept  == IF Len(order) > MaxBooks THEN Tail(order) ELSE order
           lost  == ToSet(order) \ ToSet(kept)
<1>1. c.views[e] \in [markets : MarketMaps, listing : Nat, books : Seq(Market)]
  BY DEF Sound, CacheType
<1>2. order \in Seq(Market) /\ order # <<>>
  <2>1. PICK bs \in Seq(Market) : bs = RemoveFirst(c.views[e].books, m)
    BY <1>1, RemoveFirstOf
  <2>2. Append(bs, m) \in Seq(Market) /\ Append(bs, m) # <<>>
    OBVIOUS
  <2> QED
    BY <2>1, <2>2
<1>3. kept \in Seq(Market)
  BY <1>2
<1>4. PICK books : books = kept
  OBVIOUS
<1>5. PICK v1 : v1 = [c.views[e] EXCEPT !.books = books]
  OBVIOUS
<1>6. /\ v1 \in [markets : MarketMaps, listing : Nat, books : Seq(Market)]
      /\ v1.markets = c.views[e].markets /\ v1.listing = c.views[e].listing
  BY <1>1, <1>3, <1>4, <1>5
<1>7. PICK vs : vs = [c.views EXCEPT ![e] = v1]
  OBVIOUS
<1>8. /\ vs \in [Event -> [markets : MarketMaps, listing : Nat, books : Seq(Market)]]
      /\ \A x \in Event : vs[x].markets = c.views[x].markets /\ vs[x].listing = c.views[x].listing
  BY <1>6, <1>7 DEF Sound, CacheType
<1>9. PICK b : b = [n \in Market |-> IF n = m THEN v
                                     ELSE IF n \in lost THEN "absent"
                                     ELSE c.cached["orderbook"][n]]
  OBVIOUS
<1>10. b \in [Market -> {"absent", "value", "null"}]
  <2> HIDE DEF lost
  <2> QED
    BY <1>9 DEF Sound, CacheType
<1>11. PICK q : q = [c.cached EXCEPT !["orderbook"] = b]
  OBVIOUS
<1>12. /\ q \in [followed -> [Market -> {"absent", "value", "null"}]]
       /\ \A j \in followed \ {"orderbook"} : q[j] = c.cached[j]
  BY <1>10, <1>11 DEF Sound, CacheType
<1>13. d = [c EXCEPT !.views = vs, !.cached = q]
  BY <1>4, <1>5, <1>7, <1>9, <1>11 DEF CacheOrderbook
<1>14. d \in CacheType
  BY <1>8, <1>12, <1>13 DEF Sound, CacheType
<1>15. /\ d.views = vs /\ d.cached = q /\ d.inFlight = c.inFlight
       /\ d.contexts = c.contexts /\ d.store = c.store
  BY <1>13 DEF Sound, CacheType
<1>16. \A x \in Event : Known(d, x) = Known(c, x) /\ Stored(d, x) = Stored(c, x)
                        /\ d.views[x].listing = c.views[x].listing
  BY <1>8, <1>15 DEF Known, Stored
<1>17. FlightsOf(d)
  BY <1>12, <1>15, <1>16, SiteAssumption DEF FlightsOf, Sound
<1>18. InItsEvent(d) /\ Extends(c, d)
  BY <1>12, <1>15, <1>16 DEF Sound, InItsEvent, Extends
<1> QED
  BY <1>14, <1>15, <1>16, <1>17, <1>18 DEF Grows, Sound

\* Each operation of EventViews in turn, from the home feed's snapshots to the
\* answers of the server: it keeps the cache sound and forgets no market.
LEMMA SeedGrows ==
    ASSUME NEW c, Sound(c), NEW e \in Event, Known(c, e) = {},
           NEW d, d = SeedFromHomeFeed(c, e)
    PROVE  /\ Grows(c, d) /\ (FeedMarkets(c, e) # {} => Known(d, e) # {})
           /\ d.store = c.store /\ d.found = c.found
<1>1. CASE FeedMarkets(c, e) = {}
  BY <1>1, GrowsSelf DEF SeedFromHomeFeed
<1>2. CASE FeedMarkets(c, e) # {}
  <2>1. c \in CacheType
    BY DEF Sound
  <2>2. Shell \in Snapshot
    BY DEF Shell, Snapshot
  <2>3. PICK feed : feed = [n \in FeedMarkets(c, e) |-> Shell]
    OBVIOUS
  <2>4. FeedMarkets(c, e) \in SUBSET Market
    BY <2>1, KnownOf DEF MarketsOf
  <2>5. feed \in MarketMaps /\ DOMAIN feed = FeedMarkets(c, e)
    BY <2>2, <2>3, <2>4, MapOf
  <2>6. PICK ms : ms = Merge(feed, Stored(c, e))
    OBVIOUS
  <2>7. ms \in MarketMaps /\ DOMAIN ms = FeedMarkets(c, e) \cup DOMAIN Stored(c, e)
    BY <2>1, <2>5, <2>6, KnownOf, MergeOf
  <2>8. DOMAIN ms \subseteq MarketsOf(e)
    BY <2>1, <2>7, KnownOf DEF Sound, InItsEvent
  <2>9. d = WithMarkets(c, e, ms)
    BY <1>2, <2>3, <2>6 DEF SeedFromHomeFeed, EnsureEventView
  <2>10. Grows(c, d) /\ Known(d, e) = DOMAIN ms
    BY <1>2, <2>7, <2>8, <2>9, GrowsMarkets
  <2>11. d.store = c.store /\ d.found = c.found
    BY <2>1, <2>7, <2>9, WithMarketsOf
  <2> QED
    BY <1>2, <2>7, <2>10, <2>11
<1> QED
  BY <1>1, <1>2

\* What a page can show at once of the market it is asked for, or of any.
LEMMA ProjectedGrows ==
    ASSUME NEW c, Sound(c), NEW e \in Event, NEW a \in Known(c, e) \cup {None},
           NEW p, p = Projected(c, e, a)
    PROVE  /\ Grows(c, p.cache)
           /\ p.market # None => p.market \in Known(p.cache, e)
           /\ a # None => p.market = a
<1> DEFINE seeded == IF Known(c, e) # {} THEN c ELSE SeedFromHomeFeed(c, e)
           merged == IF Stored(c, e) = <<>> THEN seeded
                     ELSE WithMarkets(seeded, e, Merge(seeded.views[e].markets, Stored(c, e)))
           m == IF a # None THEN a ELSE Preferred(merged, e)
<1>1. PICK sd : sd = seeded
  OBVIOUS
<1>2. Grows(c, sd) /\ sd.store = c.store
  <2>1. CASE Known(c, e) # {}
    BY <1>1, <2>1, GrowsSelf
  <2>2. CASE Known(c, e) = {}
    BY <1>1, <2>2, SeedGrows
  <2> QED
    BY <2>1, <2>2
<1>3. CASE Known(sd, e) = {}
  <2>1. p = [cache |-> sd, market |-> None]
    BY <1>1, <1>3, Zenon DEF Projected
  <2>2. Known(c, e) \subseteq Known(sd, e)
    BY <1>2 DEF Grows, Extends
  <2> QED
    BY <1>2, <1>3, <2>1, <2>2
<1>4. CASE Known(sd, e) # {}
  <2>1. PICK md : md = merged
    OBVIOUS
  <2>2. Grows(sd, md) /\ Known(sd, e) \subseteq Known(md, e)
    <3>1. CASE Stored(c, e) = <<>>
      BY <1>1, <1>2, <2>1, <3>1, GrowsSelf DEF Grows
    <3>2. CASE Stored(c, e) # <<>>
      <4>1. Sound(sd) /\ sd \in CacheType
        BY <1>2 DEF Grows, Sound
      <4>2. PICK ms : ms = Merge(sd.views[e].markets, Stored(c, e))
        OBVIOUS
      <4>3. Stored(sd, e) = Stored(c, e)
        BY <1>2 DEF Stored
      <4>4. ms \in MarketMaps /\ DOMAIN ms = Known(sd, e) \cup DOMAIN Stored(sd, e)
        BY <4>1, <4>2, <4>3, KnownOf, MergeOf DEF Known
      <4>5. DOMAIN ms \subseteq MarketsOf(e)
        BY <4>1, <4>4 DEF Sound, InItsEvent
      <4>6. md = WithMarkets(sd, e, ms)
        BY <1>1, <2>1, <3>2, <4>2
      <4> QED
        BY <1>4, <4>1, <4>4, <4>5, <4>6, GrowsMarkets
    <3> QED
      BY <3>1, <3>2
  <2>3. p = [cache |-> md, market |-> IF m \in Known(md, e) THEN m ELSE None]
    BY <1>1, <1>4, <2>1, Zenon DEF Projected
  <2>4. Grows(c, md)
    BY <1>2, <2>2, GrowsOn
  <2>5. Known(c, e) \subseteq Known(md, e)
    BY <2>4 DEF Grows, Extends
  <2>6. p.cache = md /\ p.market = IF m \in Known(md, e) THEN m ELSE None
    <3> HIDE DEF m
    <3> QED
      BY <2>3
  <2>7. a # None => m = a
    OBVIOUS
  <2> HIDE DEF m
  <2> QED
    BY <2>4, <2>5, <2>6, <2>7
<1> QED
  BY <1>3, <1>4

LEMMA ContextSet ==
    ASSUME NEW c, CacheInv(c), NEW e \in Event, NEW a \in Market \cup {None},
           NEW context \in ContextType,
           RightContext(c, e, a, context),
           NEW d, d = WithContext(c, e, a, context)
    PROVE  CacheInv(d) /\ Extends(c, d)
<1>1. /\ d \in CacheType
      /\ d.views = c.views /\ d.inFlight = c.inFlight /\ d.cached = c.cached
      /\ d.store = c.store /\ d.found = c.found
  BY WithContextOf DEF CacheInv
<1>2. \A x \in Event : /\ Known(d, x) = Known(c, x) /\ Stored(d, x) = Stored(c, x)
                       /\ FeedMarkets(d, x) = FeedMarkets(c, x)
  BY <1>1 DEF Known, Stored, FeedMarkets
<1>3. InItsEvent(d) /\ FlightsOf(d) /\ Extends(c, d)
  BY <1>1, <1>2, SiteAssumption DEF CacheInv, InItsEvent, FlightsOf, Extends
<1>4. ContextsOf(d)
  <2> SUFFICES ASSUME NEW x \in Event, NEW b \in Market \cup {None}
               PROVE  RightContext(d, x, b, d.contexts[<<x, b>>])
    BY DEF ContextsOf
  <2>1. CASE x = e /\ b = a
    <3>1. d.contexts[<<x, b>>] = context
      BY <2>1, ContextOf DEF CacheInv
    <3> QED
      BY <1>2, <2>1, <3>1 DEF RightContext
  <2>2. CASE x # e \/ b # a
    <3>1. d.contexts[<<x, b>>] = c.contexts[<<x, b>>]
      BY <2>2, OtherContextOf DEF CacheInv
    <3>2. RightContext(c, x, b, d.contexts[<<x, b>>])
      BY <3>1 DEF CacheInv, ContextsOf
    <3> QED
      BY <1>2, <3>2 DEF RightContext
  <2> QED
    BY <2>1, <2>2
<1> QED
  BY <1>1, <1>2, <1>3, <1>4 DEF CacheInv

LEMMA SoundCache ==
    ASSUME NEW c
    PROVE  CacheInv(c) => Sound(c) /\ c \in CacheType
BY DEF CacheInv, Sound

LEMMA PreferredKnown ==
    ASSUME NEW c \in CacheType, NEW e \in Event, Known(c, e) # {}
    PROVE  Preferred(c, e) \in Market
BY FirstOf, KnownOf DEF Preferred, CacheType, StoreType

\* An address resolves at once to the market it names, or is looked up.
LEMMA ResolveOf ==
    ASSUME NEW c, CacheInv(c), NEW e \in Event, NEW a \in Known(c, e) \cup {None},
           NEW d, d = ResolveContext(c, e, a)
    PROVE  /\ CacheInv(d) /\ Extends(c, d)
           /\ a # None => d.contexts[<<e, a>>].stage = "done"
<1>1. a \in Market \cup {None} /\ Sound(c) /\ c \in CacheType
  BY SoundCache, KnownOf
<1>2. CASE c.contexts[<<e, a>>].stage # "none"
  <2>1. d = c
    BY <1>2 DEF ResolveContext
  <2>2. RightContext(c, e, a, c.contexts[<<e, a>>])
    BY <1>1 DEF CacheInv, ContextsOf
  <2>3. a # None => d.contexts[<<e, a>>].stage = "done"
    BY <1>2, <2>1, <2>2 DEF RightContext
  <2> QED
    BY <2>1, <2>3 DEF Extends
<1>3. ASSUME NEW g, CacheInv(g), a \in Known(g, e) \cup {None}, Known(g, e) # {},
             d = WithContext(g, e, a, [stage  |-> "done",
                                       market |-> IF a # None THEN a ELSE Preferred(g, e)])
      PROVE  CacheInv(d) /\ Extends(g, d) /\ d.contexts[<<e, a>>].stage = "done"
  <2>1. PICK context : context = [stage  |-> "done",
                                  market |-> IF a # None THEN a ELSE Preferred(g, e)]
    OBVIOUS
  <2>2. context \in ContextType
    BY <1>1, <1>3, <2>1, SoundCache, PreferredKnown DEF ContextType, Stages
  <2>3. RightContext(g, e, a, context)
    BY <1>3, <2>1 DEF RightContext
  <2>4. context.stage = "done"
    BY <2>1
  <2>5. CacheInv(d) /\ Extends(g, d)
    BY <1>1, <1>3, <2>1, <2>2, <2>3, ContextSet
  <2>6. d.contexts[<<e, a>>] = context
    BY <1>1, <1>3, <2>1, <2>2, SoundCache, ContextOf
  <2> QED
    BY <2>4, <2>5, <2>6
<1>4. CASE /\ c.contexts[<<e, a>>].stage = "none" /\ Known(c, e) # {}
  <2>1. d = WithContext(c, e, a, [stage  |-> "done",
                                  market |-> IF a # None THEN a ELSE Preferred(c, e)])
    BY <1>4, Zenon DEF ResolveContext
  <2> QED
    BY <1>3, <1>4, <2>1
<1>5. CASE /\ c.contexts[<<e, a>>].stage = "none" /\ Known(c, e) = {}
  <2>1. a = None
    BY <1>5
  <2>2. PICK g : g = SeedFromHomeFeed(c, e)
    OBVIOUS
  <2>3. /\ Grows(c, g) /\ (FeedMarkets(c, e) # {} => Known(g, e) # {})
        /\ g.store = c.store /\ g.found = c.found
    BY <1>1, <1>5, <2>2, SeedGrows
  <2>4. CacheInv(g) /\ Extends(c, g)
    BY <2>3, GrowsKeeps
  <2>5. CASE Known(g, e) # {}
    <3>1. d = WithContext(g, e, a, [stage  |-> "done",
                                    market |-> IF a # None THEN a ELSE Preferred(g, e)])
      BY <1>5, <2>1, <2>2, <2>5, SiteAssumption, <1>1, KnownOf DEF ResolveContext
    <3>2. CacheInv(d) /\ Extends(g, d) /\ d.contexts[<<e, a>>].stage = "done"
      BY <1>3, <2>1, <2>4, <2>5, <3>1
    <3> QED
      BY <2>4, <3>2 DEF Extends
  <2>6. CASE Known(g, e) = {}
    <3> DEFINE stage == IF c.store.preferred[e] # None THEN "preferred" ELSE LookupStage(c, e)
    <3>1. PICK context : context = [stage |-> stage, market |-> None]
      OBVIOUS
    <3>2. stage \in {"preferred", "lookup", "list"}
      BY DEF LookupStage
    <3>3. d = WithContext(g, e, a, context)
      BY <1>5, <2>1, <2>2, <2>6, <3>1, Zenon DEF ResolveContext
    <3>4. /\ context \in ContextType
          /\ context.stage \in {"preferred", "lookup", "list"}
      <4> HIDE DEF stage
      <4> QED
        BY <3>1, <3>2 DEF ContextType, Stages
    <3>5. FeedMarkets(g, e) = {}
      BY <2>3, <2>6 DEF FeedMarkets
    <3>6. RightContext(g, e, a, context)
      BY <2>1, <2>6, <3>4, <3>5 DEF RightContext
    <3> HIDE DEF stage
    <3>7. CacheInv(g) /\ a \in Market \cup {None}
      BY <1>1, <2>4
    <3>8. context \in ContextType
      BY <3>4
    <3>9. CacheInv(d) /\ Extends(g, d)
      BY <3>3, <3>6, <3>7, <3>8, ContextSet
    <3> QED
      BY <2>1, <2>4, <3>9 DEF Extends
  <2> QED
    BY <2>5, <2>6
<1> QED
  BY <1>2, <1>4, <1>5

LEMMA AppliedGrows ==
    ASSUME NEW c, Sound(c), NEW e \in Event, Known(c, e) # {}, NEW ms \in MarketMaps,
           DOMAIN ms \subseteq MarketsOf(e),
           NEW d, d = ApplyEventMarkets(c, e, ms)
    PROVE  Grows(c, d)
<1>1. PICK merged : merged = Merge(c.views[e].markets, ms)
  OBVIOUS
<1>2. c \in CacheType
  BY DEF Sound
<1>3. merged \in MarketMaps /\ DOMAIN merged = Known(c, e) \cup DOMAIN ms
  BY <1>1, <1>2, KnownOf, MergeOf DEF Known
<1>4. DOMAIN merged \subseteq MarketsOf(e)
  BY <1>3 DEF Sound, InItsEvent
<1>5. PICK g : g = WithMarkets(c, e, merged)
  OBVIOUS
<1>6. Grows(c, g)
  BY <1>3, <1>4, <1>5, GrowsMarkets
<1>7. d = WriteStored(g, e, merged)
  BY <1>1, <1>5 DEF ApplyEventMarkets
<1>8. Grows(g, d)
  BY <1>3, <1>4, <1>6, <1>7, GrowsStored DEF Grows
<1> QED
  BY <1>6, <1>8, GrowsOn

LEMMA ListingGrows ==
    ASSUME NEW c, Sound(c), NEW e \in Event, Known(c, e) # {},
           NEW d, d = LoadEventMarkets(c, e)
    PROVE  Grows(c, d)
<1>1. PICK g : g = IF Enriched(c.views[e]) \/ Stored(c, e) = <<>> THEN c
                   ELSE ApplyEventMarkets(c, e, Stored(c, e))
  OBVIOUS
<1>2. Grows(c, g)
  <2>1. CASE g = c
    BY <2>1, GrowsSelf
  <2>2. CASE g = ApplyEventMarkets(c, e, Stored(c, e))
    <3>1. c \in CacheType
      BY DEF Sound
    <3>2. Stored(c, e) \in MarketMaps /\ DOMAIN Stored(c, e) \subseteq MarketsOf(e)
      BY <3>1, KnownOf DEF Sound, InItsEvent
    <3> QED
      BY <2>2, <3>2, AppliedGrows
  <2> QED
    BY <1>1, <2>1, <2>2
<1>3. d = IF Enriched(g.views[e]) \/ g.views[e].listing > 0 THEN g
          ELSE WithListing(g, e, g.views[e].listing + 1)
  BY <1>1, Zenon DEF LoadEventMarkets
<1>4. CASE d = g
  BY <1>2, <1>4
<1>5. CASE ~(g.views[e].listing > 0) /\ d = WithListing(g, e, g.views[e].listing + 1)
  <2>1. Sound(g) /\ Known(g, e) # {}
    BY <1>2 DEF Grows, Extends
  <2>2. g.views[e].listing = 0 \/ g.views[e].listing = 1
    BY <2>1 DEF Sound, FlightsOf
  <2>3. g.views[e].listing + 1 = 1
    BY <1>5, <2>2
  <2>4. d = WithListing(g, e, 1)
    BY <1>5, <2>3
  <2>5. Grows(g, d)
    BY <2>1, <2>4, GrowsListing
  <2> QED
    BY <1>2, <2>5, GrowsOn
<1> QED
  BY <1>3, <1>4, <1>5

LEMMA SelectedKnown ==
    ASSUME NEW c \in CacheType, NEW e \in Event, NEW m, Known(c, e) # {}
    PROVE  SelectedMarket(c, e, m) \in Known(c, e)
BY FirstOf, KnownOf DEF SelectedMarket

\* The reads of a page are started beside those already out.
LEMMA BegunGrows ==
    ASSUME NEW c, Sound(c), NEW e \in Event, Known(c, e) # {}, NEW market,
           NEW d, d = BeginHydration(c, e, market)
    PROVE  Grows(c, d)
<1>1. PICK m : m = SelectedMarket(c, e, market)
  OBVIOUS
<1>2. m \in Known(c, e) /\ m \in Market
  BY <1>1, SelectedKnown, KnownOf DEF Sound
<1>3. PICK g : g = LoadEventMarkets(c, e)
  OBVIOUS
<1>4. Grows(c, g)
  BY <1>3, ListingGrows
<1>5. PICK h : h = LoadStoredLiquidity(g, m)
  OBVIOUS
<1>6. Grows(g, h)
  <2>1. Sound(g)
    BY <1>4 DEF Grows
  <2>2. CASE m \in g.store.liquidity
    BY <1>2, <1>5, <2>1, <2>2, GrowsKept DEF LoadStoredLiquidity
  <2>3. CASE m \notin g.store.liquidity
    BY <1>5, <2>1, <2>3, GrowsSelf DEF LoadStoredLiquidity
  <2> QED
    BY <2>2, <2>3
<1>7. Grows(c, h)
  BY <1>4, <1>6, GrowsOn
<1>8. /\ h \in CacheType /\ InItsEvent(h) /\ FlightsOf(h)
      /\ m \in Known(h, e)
  BY <1>2, <1>7 DEF Grows, Sound, Extends
<1> DEFINE asks(k) == {n \in IF k = "history" THEN Known(h, e) ELSE {m} : Wanted(h, k, n)}
<1>9. PICK q : q = [k \in DOMAIN h.inFlight |-> [n \in Market |->
                      IF n \in asks(k) THEN h.inFlight[k][n] + 1 ELSE h.inFlight[k][n]]]
  OBVIOUS
<1>10. d = [h EXCEPT !.inFlight = q]
  BY <1>1, <1>3, <1>5, <1>9, Zenon DEF BeginHydration
<1>11. DOMAIN h.inFlight = followed
  BY <1>8 DEF CacheType
<1>12. /\ q \in [followed -> [Market -> Nat]]
       /\ \A k \in followed, n \in Market :
             q[k][n] = IF n \in asks(k) THEN h.inFlight[k][n] + 1 ELSE h.inFlight[k][n]
  <2> HIDE DEF asks
  <2> QED
    BY <1>8, <1>9, <1>11 DEF CacheType
<1>13. /\ d \in CacheType /\ d.inFlight = q /\ d.views = h.views /\ d.cached = h.cached
       /\ d.contexts = h.contexts /\ d.store = h.store
  BY <1>8, <1>10, <1>12 DEF CacheType
<1>14. \A x \in Event : Known(d, x) = Known(h, x) /\ Stored(d, x) = Stored(h, x)
  BY <1>13 DEF Known, Stored
<1>15. ASSUME NEW k \in followed, NEW n \in Market
       PROVE  \/ q[k][n] = 0
              \/ /\ q[k][n] = 1 /\ Known(d, EventOf[n]) # {}
                 /\ k = "history" => d.cached[k][n] = "absent"
  <2>1. CASE n \in asks(k)
    <3>1. n \in Known(h, e) /\ Wanted(h, k, n)
      BY <1>8, <2>1
    <3>2. EventOf[n] = e /\ h.cached[k][n] = "absent" /\ h.inFlight[k][n] = 0
      BY <1>8, <3>1 DEF InItsEvent, MarketsOf, Wanted
    <3> HIDE DEF asks
    <3> QED
      BY <1>12, <1>13, <1>14, <2>1, <3>1, <3>2
  <2>2. CASE n \notin asks(k)
    <3> HIDE DEF asks
    <3>1. q[k][n] = h.inFlight[k][n]
      BY <1>12, <2>2
    <3>2. EventOf[n] \in Event
      BY SiteAssumption
    <3> QED
      BY <1>8, <1>13, <1>14, <3>1, <3>2 DEF FlightsOf
  <2> QED
    BY <2>1, <2>2
<1>16. FlightsOf(d)
  BY <1>8, <1>13, <1>14, <1>15 DEF FlightsOf
<1>17. Grows(h, d)
  BY <1>8, <1>13, <1>14, <1>16 DEF Grows, Sound, InItsEvent, Extends
<1> QED
  BY <1>7, <1>17, GrowsOn

LEMMA DetailGrows ==
    ASSUME NEW c, Sound(c), NEW e \in Event, Known(c, e) # {}, NEW m \in MarketsOf(e),
           NEW siblings \in SUBSET MarketsOf(e),
           NEW d, d = ApplyDetail(c, e, m, siblings)
    PROVE  Grows(c, d)
<1>1. PICK listed : listed = [n \in siblings \cup {m} |-> Bare]
  OBVIOUS
<1>2. siblings \cup {m} \in SUBSET Market /\ Bare \in Snapshot /\ m \in Market /\ c \in CacheType
  BY DEF MarketsOf, Bare, Snapshot, Sound
<1>3. listed \in MarketMaps /\ DOMAIN listed = siblings \cup {m}
  BY <1>1, <1>2, MapOf
<1>4. PICK ms : ms = Merge(listed, c.views[e].markets)
  OBVIOUS
<1>5. ms \in MarketMaps /\ DOMAIN ms = siblings \cup {m} \cup Known(c, e)
  BY <1>2, <1>3, <1>4, KnownOf, MergeOf DEF Known
<1>6. DOMAIN ms \subseteq MarketsOf(e) /\ Known(c, e) \subseteq DOMAIN ms
  BY <1>5 DEF Sound, InItsEvent
<1>7. PICK g : g = WithMarkets(c, e, ms)
  OBVIOUS
<1>8. Grows(c, g)
  BY <1>5, <1>6, <1>7, GrowsMarkets
<1>9. PICK h : h = Keep(g, "resolution", m, "value")
  OBVIOUS
<1>10. Grows(g, h)
  BY <1>2, <1>8, <1>9, GrowsKept DEF Grows
<1>11. d = WritePreferred(h, e, m)
  BY <1>1, <1>4, <1>7, <1>9 DEF ApplyDetail
<1>12. Grows(h, d)
  BY <1>2, <1>10, <1>11, GrowsPreferred DEF Grows
<1> QED
  BY <1>8, <1>10, <1>12, GrowsOn

\* An answer is kept, and nothing that was there is lost by it.
LEMMA AnswerGrows ==
    ASSUME NEW c, Sound(c), NEW e \in Event, NEW m \in MarketsOf(e), NEW k \in followed,
           followed \subseteq Resource, c.inFlight[k][m] > 0, NEW ok \in BOOLEAN,
           NEW d, d = Arrives(c, e, k, m, ok)
    PROVE  Grows(c, d)
<1>1. m \in Market /\ EventOf[m] = e
  BY DEF MarketsOf
<1>2. PICK g : g = Received(c, k, m)
  OBVIOUS
<1>3. /\ Grows(c, g) /\ g.views = c.views /\ g.cached = c.cached
      /\ g.inFlight[k][m] = 0 /\ Known(c, e) # {}
      /\ k = "history" => c.cached[k][m] = "absent"
  BY <1>1, <1>2, GrowsReceived
<1>4. Sound(g) /\ Known(g, e) # {} /\ (k = "history" => g.cached[k][m] = "absent")
  BY <1>3 DEF Grows, Known
<1>5. CASE d = g
  BY <1>3, <1>5
<1>6. CASE d = Keep(g, k, m, "value")
  BY <1>1, <1>3, <1>4, <1>6, GrowsKept, GrowsOn
<1>7. CASE k = "comments" /\ d # g
  <2>1. PICK bare : bare = [n \in {m} |-> Bare]
    OBVIOUS
  <2>2. bare \in MarketMaps /\ DOMAIN bare = {m}
    BY <1>1, <2>1, MapOf DEF Bare, Snapshot
  <2>3. PICK ms : ms = Merge(g.views[e].markets, bare)
    OBVIOUS
  <2>4. ms \in MarketMaps /\ DOMAIN ms = Known(g, e) \cup {m}
    BY <1>4, <2>2, <2>3, KnownOf, MergeOf, ZenonT(60) DEF Known, Sound
  <2>5. DOMAIN ms \subseteq MarketsOf(e)
    BY <1>4, <2>4 DEF Sound, InItsEvent
  <2>6. PICK h : h = WithMarkets(g, e, ms)
    OBVIOUS
  <2>7. Grows(g, h)
    BY <1>4, <2>4, <2>5, <2>6, GrowsMarkets
  <2>8. d = Keep(h, k, m, "value")
    BY <1>2, <1>3, <1>7, <2>1, <2>3, <2>6, Zenon DEF Arrives, CommentsArrive
  <2>9. Grows(h, d)
    BY <1>1, <1>7, <2>7, <2>8, GrowsKept DEF Grows
  <2> QED
    BY <1>3, <2>7, <2>9, GrowsOn
<1>8. CASE k = "liquidity" /\ d # g
  <2>1. PICK h : h = WriteLiquidity(g, m)
    OBVIOUS
  <2>2. Grows(g, h)
    BY <1>1, <1>4, <2>1, GrowsLiquidity
  <2>3. d = Keep(h, k, m, "value")
    BY <1>2, <1>8, <2>1, Zenon DEF Arrives, LiquidityArrives
  <2>4. Grows(h, d)
    BY <1>1, <1>8, <2>2, <2>3, GrowsKept DEF Grows
  <2> QED
    BY <1>3, <2>2, <2>4, GrowsOn
<1>9. CASE k = "history"
  <2>1. d = Keep(g, k, m, IF ok THEN "value" ELSE "null")
    BY <1>2, <1>9, Zenon DEF Arrives, HistoryArrives
  <2>2. PICK v \in {"value", "null"} : v = IF ok THEN "value" ELSE "null"
    OBVIOUS
  <2>3. Grows(g, d)
    BY <1>1, <1>3, <1>4, <1>9, <2>1, <2>2, GrowsKept
  <2> QED
    BY <1>3, <2>3, GrowsOn
<1>10. CASE k = "orderbook"
  <2>1. d = CacheOrderbook(g, e, m, IF ok THEN "value" ELSE "null")
    BY <1>2, <1>10, Zenon DEF Arrives, OrderbookArrives
  <2>2. PICK v \in {"value", "null"} : v = IF ok THEN "value" ELSE "null"
    OBVIOUS
  <2>3. Grows(g, d)
    BY <1>1, <1>4, <1>10, <2>1, <2>2, GrowsBook
  <2> QED
    BY <1>3, <2>3, GrowsOn
<1>11. CASE k = "resolution" /\ d # g
  <2>1. d = ApplyDetail(g, e, m, MarketsOf(e))
    BY <1>2, <1>11, Zenon DEF Arrives, ResolutionArrives
  <2>2. Grows(g, d)
    BY <1>4, <2>1, DetailGrows
  <2> QED
    BY <1>3, <2>2, GrowsOn
<1>12. k \in {"related", "activity"} => d = g \/ d = Keep(g, k, m, "value")
  BY <1>2, Zenon DEF Arrives, RelatedArrives, ActivityArrives
<1> QED
  BY <1>5, <1>6, <1>7, <1>8, <1>9, <1>10, <1>11, <1>12 DEF Resource

LEMMA AskedAgainGrows ==
    ASSUME NEW c, Sound(c), NEW m \in Market, "liquidity" \in followed,
           c.inFlight["liquidity"][m] = 0, Known(c, EventOf[m]) # {},
           NEW d, d = AskedAgain(c, "liquidity", m)
    PROVE  Grows(c, d)
<1>1. /\ d \in CacheType /\ d.views = c.views
      /\ d.cached = c.cached /\ d.contexts = c.contexts /\ d.store = c.store
      /\ d.found = c.found
      /\ \A j \in followed, n \in Market :
            d.inFlight[j][n] = IF j = "liquidity" /\ n = m THEN c.inFlight[j][n] + 1
                               ELSE c.inFlight[j][n]
  BY AskedAgainOf DEF Sound
<1>2. \A x \in Event : Known(d, x) = Known(c, x) /\ Stored(d, x) = Stored(c, x)
  BY <1>1 DEF Known, Stored
<1>3. FlightsOf(d)
  BY <1>1, <1>2, SiteAssumption DEF FlightsOf, Sound
<1>4. InItsEvent(d) /\ Extends(c, d)
  BY <1>1, <1>2 DEF Sound, InItsEvent, Extends
<1> QED
  BY <1>1, <1>2, <1>3, <1>4 DEF Grows, Sound

LEMMA ListedGrows ==
    ASSUME NEW c, Sound(c), NEW e \in Event, c.views[e].listing > 0, NEW ok \in BOOLEAN,
           NEW d, d = EventMarketsArrive(c, e, ok)
    PROVE  Grows(c, d)
<1>1. c.views[e].listing = 1 /\ Known(c, e) # {}
  BY DEF Sound, FlightsOf
<1>2. PICK g : g = WithListing(c, e, 0)
  OBVIOUS
<1>3. Grows(c, g)
  BY <1>2, GrowsListing
<1>4. g = WithListing(c, e, c.views[e].listing - 1)
  BY <1>1, <1>2
<1>5. CASE ~ok
  BY <1>3, <1>4, <1>5 DEF EventMarketsArrive
<1>6. CASE ok
  <2>1. PICK listed : listed = [m \in MarketsOf(e) |-> Full]
    OBVIOUS
  <2>2. MarketsOf(e) \in SUBSET Market /\ Full \in Snapshot
    BY DEF MarketsOf, Full, Snapshot
  <2>3. listed \in MarketMaps /\ DOMAIN listed = MarketsOf(e)
    BY <2>1, <2>2, MapOf
  <2>4. PICK h : h = WriteStored(g, e, listed)
    OBVIOUS
  <2>5. Grows(g, h)
    BY <1>3, <2>3, <2>4, GrowsStored DEF Grows
  <2>6. Grows(c, h)
    BY <1>3, <2>5, GrowsOn
  <2>7. d = ApplyEventMarkets(h, e, listed)
    BY <1>4, <1>6, <2>1, <2>4 DEF EventMarketsArrive
  <2>8. Sound(h) /\ Known(h, e) # {}
    BY <1>1, <2>6 DEF Grows, Extends
  <2>9. Grows(h, d)
    BY <2>3, <2>7, <2>8, AppliedGrows
  <2> QED
    BY <2>6, <2>9, GrowsOn
<1> QED
  BY <1>5, <1>6

\* The detail that was waited for makes the event known.
LEMMA DetailResolves ==
    ASSUME NEW c, CacheInv(c), NEW e \in Event, NEW a \in Market \cup {None},
           c.contexts[<<e, a>>].stage \in {"preferred", "detail"},
           NEW m \in MarketsOf(e), NEW siblings \in SUBSET MarketsOf(e),
           NEW snapshots, snapshots = [n \in siblings \cup {m} |-> Bare],
           NEW d, d = WithContext(ApplyDetail(EnsureEventView(c, e, snapshots), e, m, siblings),
                                  e, a, [stage |-> "done", market |-> m])
    PROVE  CacheInv(d) /\ Extends(c, d) /\ Known(d, e) # {} /\ a = None
<1>1. RightContext(c, e, a, c.contexts[<<e, a>>])
  BY DEF CacheInv, ContextsOf
<1>2. a = None /\ Known(c, e) = {}
  BY <1>1 DEF RightContext
<1>3. siblings \cup {m} \in SUBSET Market /\ Bare \in Snapshot /\ m \in Market
  BY DEF MarketsOf, Bare, Snapshot
<1>4. snapshots \in MarketMaps /\ DOMAIN snapshots = siblings \cup {m}
  BY <1>3, MapOf
<1>5. PICK g : g = WithMarkets(c, e, snapshots)
  OBVIOUS
<1>6. /\ Sound(g) /\ Extends(c, g) /\ Known(g, e) # {}
      /\ \A x \in Event \ {e} : Known(g, x) = Known(c, x)
      /\ g.contexts = c.contexts /\ g.store = c.store
  BY <1>2, <1>4, <1>5, MarketsSound, SoundCache
<1>7. PICK h : h = ApplyDetail(g, e, m, siblings)
  OBVIOUS
<1>8. Grows(g, h)
  BY <1>6, <1>7, DetailGrows
<1>9. /\ h \in CacheType /\ Sound(h) /\ Extends(c, h) /\ Known(h, e) # {}
      /\ h.contexts = c.contexts /\ h.store.feed = c.store.feed
      /\ \A x \in Event : Known(g, x) = {} => Known(h, x) = {} \/ FeedMarkets(g, x) # {}
  BY <1>6, <1>8 DEF Grows, Sound, Extends
<1>10. PICK context : context = [stage |-> "done", market |-> m]
  OBVIOUS
<1>11. context \in ContextType /\ context.stage = "done"
  BY <1>3, <1>10 DEF ContextType, Stages
<1>12. d = WithContext(h, e, a, context)
  BY <1>5, <1>7, <1>10 DEF EnsureEventView
<1>13. /\ d \in CacheType
       /\ d.views = h.views /\ d.inFlight = h.inFlight /\ d.cached = h.cached
       /\ d.store = h.store /\ d.found = h.found
  BY <1>9, <1>11, <1>12, WithContextOf
<1>14. \A x \in Event : /\ Known(d, x) = Known(h, x) /\ Stored(d, x) = Stored(h, x)
                        /\ FeedMarkets(d, x) = FeedMarkets(c, x)
                        /\ FeedMarkets(g, x) = FeedMarkets(c, x)
  BY <1>6, <1>9, <1>13 DEF Known, Stored, FeedMarkets
<1>15. Sound(d) /\ Extends(c, d) /\ Known(d, e) # {}
  BY <1>9, <1>13, <1>14, SiteAssumption DEF Sound, InItsEvent, FlightsOf, Extends
<1>16. ContextsOf(d)
  <2> SUFFICES ASSUME NEW x \in Event, NEW b \in Market \cup {None}
               PROVE  RightContext(d, x, b, d.contexts[<<x, b>>])
    BY DEF ContextsOf
  <2>1. CASE x = e /\ b = a
    <3>1. d.contexts[<<x, b>>] = context
      BY <1>9, <1>11, <1>12, <2>1, ContextOf
    <3> QED
      BY <1>2, <1>11, <1>15, <2>1, <3>1 DEF RightContext
  <2>2. CASE x = e /\ b # a
    <3>1. d.contexts[<<x, b>>] = c.contexts[<<x, b>>]
      BY <1>9, <1>11, <1>12, <2>2, OtherContextOf
    <3>2. RightContext(c, x, b, d.contexts[<<x, b>>])
      BY <3>1 DEF CacheInv, ContextsOf
    <3> QED
      BY <1>2, <1>15, <2>2, <3>2 DEF RightContext
  <2>3. CASE x # e
    <3>1. d.contexts[<<x, b>>] = c.contexts[<<x, b>>]
      BY <1>9, <1>11, <1>12, <2>3, OtherContextOf
    <3>2. RightContext(c, x, b, d.contexts[<<x, b>>])
      BY <3>1 DEF CacheInv, ContextsOf
    <3>3. Known(c, x) = {} => Known(d, x) = {} \/ FeedMarkets(c, x) # {}
      BY <1>6, <1>9, <1>14, <2>3
    <3>4. Known(c, x) \subseteq Known(d, x) /\ FeedMarkets(d, x) = FeedMarkets(c, x)
      BY <1>14, <1>15 DEF Extends
    <3> QED
      BY <3>2, <3>3, <3>4 DEF RightContext
  <2> QED
    BY <2>1, <2>2, <2>3
<1> QED
  BY <1>2, <1>15, <1>16 DEF CacheInv, Sound

(***************************************************************************)
(* What the page shows                                                     *)
(***************************************************************************)
LEMMA ShowingOf ==
    ASSUME NEW c, Sound(c), NEW e \in Event, Known(c, e) # {}, NEW m, NEW p \in PageType,
           NEW a, a # None => m = a /\ a \in Known(c, e),
           NEW q, q = Showing(p, c, e, m)
    PROVE  PageOk(c, q, e, a) /\ ShowsAll(c, q)
<1>1. PICK shown : shown = SelectedMarket(c, e, m)
  OBVIOUS
<1>2. c \in CacheType
  BY DEF Sound
<1>3. shown \in Known(c, e) /\ Known(c, e) \subseteq Market
  BY <1>1, <1>2, SelectedKnown, KnownOf
<1>4. a # None => shown = a
  BY <1>1 DEF SelectedMarket
<1>5. PICK filled : filled = {k \in DOMAIN c.cached : c.cached[k][shown] = "value"}
  OBVIOUS
<1>6. PICK view : view = ViewModel(c, e, m)
  OBVIOUS
<1>7. view = [event |-> e, market |-> shown, list |-> Known(c, e), filled |-> filled]
  BY <1>1, <1>5, <1>6 DEF ViewModel
<1>8. filled \subseteq followed
  BY <1>2, <1>5 DEF CacheType
<1>9. /\ view \in DataType /\ view.event = e /\ view.market = shown
      /\ view.list = Known(c, e) /\ view.filled = filled
  BY <1>3, <1>7, <1>8 DEF DataType
<1>10. q = [p EXCEPT !.status = "ready", !.data = view]
  BY <1>6 DEF Showing
<1>11. q \in PageType /\ q.data = view
  BY <1>9, <1>10 DEF PageType
<1>12. filled = {k \in followed : c.cached[k][shown] = "value"}
  BY <1>2, <1>5 DEF CacheType
<1>13. ShowsAll(c, q)
  BY <1>9, <1>11, <1>12 DEF ShowsAll
<1> QED
  BY <1>4, <1>5, <1>9, <1>11, <1>13 DEF PageOk

LEMMA PageKept ==
    ASSUME NEW c, NEW d, Extends(c, d), NEW p, NEW e, NEW m, PageOk(c, p, e, m),
           NEW q \in PageType, q.data = p.data, NEW f, NEW n,
           q.status = "ready" => p.status = "ready" /\ f = e /\ (n = None \/ n = m)
    PROVE  PageOk(d, q, f, n)
<1>1. q.data # None \/ q.status = "ready" =>
        /\ q.data \in DataType
        /\ q.data.list \subseteq Known(d, q.data.event)
        /\ \A k \in q.data.filled \ {"orderbook"} : d.cached[k][q.data.market] = "value"
  BY DEF PageOk, Extends, DataType
<1>2. q.status = "ready" =>
        q.data.event = f /\ (n # None => q.data.market = n)
  BY DEF PageOk
<1> QED
  BY <1>1, <1>2 DEF PageOk

LEMMA LoadsKept ==
    ASSUME NEW c, NEW d, Extends(c, d), NEW ls, LoadsInv(c, ls)
    PROVE  LoadsInv(d, ls)
<1>1. \A v \in DOMAIN ls : ls[v] \in LoadType
  BY DEF LoadsInv
<1>2. \A v \in DOMAIN ls : ls[v].event \in Event
  BY <1>1 DEF LoadType
<1> QED
  BY <1>2 DEF LoadsInv, Extends

LEMMA HydratingOf ==
    ASSUME NEW c, Sound(c), NEW load \in LoadType, Known(c, load.event) # {},
           NEW m, load.asked # None => m = load.asked /\ m \in Known(c, load.event),
           followed \subseteq Resource,
           NEW l, l = Hydrating(load, c, m)
    PROVE  /\ l \in LoadType /\ l.event = load.event /\ l.asked = load.asked
           /\ l.asked # None => l.market = l.asked
<1>1. PICK awaits : awaits = Awaited(c, load.event, m)
  OBVIOUS
<1>2. DOMAIN c.inFlight = followed /\ load.event \in Event
  BY DEF Sound, CacheType, LoadType
<1>3. awaits \subseteq Resource \cup {"markets"}
  BY <1>1, <1>2 DEF Awaited
<1>4. PICK market : market = SelectedMarket(c, load.event, m)
  OBVIOUS
<1>5. market \in Known(c, load.event) /\ market \in Market
  BY <1>2, <1>4, SelectedKnown, KnownOf DEF Sound
<1>6. load.asked # None => market = load.asked
  BY <1>4 DEF SelectedMarket
<1>7. PICK stage \in {"done", "hydrating"} : stage = IF awaits = {} THEN "done" ELSE "hydrating"
  OBVIOUS
<1>8. l = [load EXCEPT !.stage = stage, !.market = market, !.awaits = awaits]
  BY <1>1, <1>4, <1>7 DEF Hydrating
<1> QED
  BY <1>3, <1>5, <1>6, <1>7, <1>8, ZenonT(60) DEF LoadType

\* loadDetail up to its first answer: what is shown, asked and remembered is about
\* the address it was called for.
LEMMA LoadDetailOf ==
    ASSUME ScreenInv, NEW e \in Event, NEW a \in Known(cache, e) \cup {None},
           LoadDetail(e, a, cache, page)
    PROVE  /\ CacheInv(cache') /\ Extends(cache, cache')
           /\ LoadsInv(cache', loads')
           /\ loads' # <<>> /\ loads'[Len(loads')].event = e /\ loads'[Len(loads')].asked = a
           /\ PageOk(cache', page', e, a)
           /\ page'.data = page.data \/ ShowsAll(cache', page')
<1>1. PICK pr : pr = Projected(cache, e, a)
  OBVIOUS
<1>2. PICK rs : rs = ResolveContext(pr.cache, e, a)
  OBVIOUS
<1>3. PICK context : context = rs.contexts[<<e, a>>]
  OBVIOUS
<1>4. PICK preserve \in BOOLEAN : preserve = (page.data # None /\ page.data.event = e)
  OBVIOUS
<1>5. PICK load : load = [event |-> e, asked |-> a, market |-> None,
                          keep |-> preserve \/ pr.market # None,
                          stage |-> "resolving", awaits |-> {}, retried |-> FALSE]
  OBVIOUS
<1>6. PICK cleared : cleared = [page EXCEPT !.error = FALSE]
  OBVIOUS
<1>7. PICK begun : begun = BeginHydration(rs, e, context.market)
  OBVIOUS
<1>8. IF context.stage = "done"
      THEN /\ cache' = begun
           /\ loads' = Append(loads, Hydrating(load, begun, context.market))
           /\ page' = Showing(cleared, begun, e, context.market)
      ELSE /\ cache' = rs
           /\ loads' = Append(loads, load)
           /\ page' = IF pr.market # None THEN Showing(cleared, rs, e, pr.market)
                      ELSE [cleared EXCEPT !.status = IF preserve THEN cleared.status
                                                      ELSE "loading"]
  BY <1>1, <1>2, <1>3, <1>4, <1>5, <1>6, <1>7, Zenon DEF LoadDetail
<1>9. /\ Sound(cache) /\ a \in Market \cup {None} /\ loads \in Seq(LoadType)
      /\ page \in PageType /\ followed \subseteq Resource
  BY SoundCache, KnownOf DEF ScreenInv, LoadsInv, PageOk
<1>10. /\ Grows(cache, pr.cache)
       /\ pr.market # None => pr.market \in Known(pr.cache, e)
       /\ a # None => pr.market = a
  BY <1>1, <1>9, ProjectedGrows
<1>11. CacheInv(pr.cache) /\ Extends(cache, pr.cache)
  BY <1>10, GrowsKeeps DEF ScreenInv
<1>12. a \in Known(pr.cache, e) \cup {None}
  BY <1>11 DEF Extends
<1>13. /\ CacheInv(rs) /\ Extends(pr.cache, rs)
       /\ a # None => context.stage = "done"
  BY <1>2, <1>3, <1>11, <1>12, ResolveOf
<1>14. Extends(cache, rs) /\ a \in Known(rs, e) \cup {None} /\ Sound(rs)
  BY <1>11, <1>12, <1>13, SoundCache DEF Extends
<1>15. RightContext(rs, e, a, context)
  BY <1>3, <1>9, <1>13 DEF CacheInv, ContextsOf
<1>16. cleared \in PageType /\ cleared.data = page.data /\ cleared.status = page.status
  BY <1>6, <1>9 DEF PageType
<1>17. load \in LoadType /\ load.event = e /\ load.asked = a /\ load.stage = "resolving"
  BY <1>5, <1>9 DEF LoadType
<1>18. ASSUME NEW d, Extends(cache, d), NEW l \in LoadType, loads' = Append(loads, l),
              l.event = e, l.asked = a,
              l.stage \in {"hydrating", "done"} =>
                  Known(d, e) # {} /\ (a # None => l.market = a)
       PROVE  /\ LoadsInv(d, loads')
              /\ loads' # <<>> /\ loads'[Len(loads')].event = e /\ loads'[Len(loads')].asked = a
  <2>1. LoadsInv(d, loads)
    BY <1>18, LoadsKept DEF ScreenInv
  <2>2. PICK ls : ls = loads'
    OBVIOUS
  <2>3. /\ ls \in Seq(LoadType) /\ Len(ls) = Len(loads) + 1 /\ ls # <<>>
        /\ ls[Len(ls)] = l /\ \A v \in DOMAIN loads : ls[v] = loads[v]
        /\ DOMAIN ls = DOMAIN loads \cup {Len(ls)}
    BY <1>9, <1>18, <2>2
  <2>4. LoadsInv(d, ls)
    BY <1>18, <2>1, <2>3 DEF LoadsInv
  <2> QED
    BY <1>18, <2>2, <2>3, <2>4
<1>19. CASE context.stage = "done"
  <2>1. Known(rs, e) # {} /\ (a # None => context.market = a)
    BY <1>15, <1>19 DEF RightContext
  <2>2. Grows(rs, begun)
    BY <1>7, <1>14, <2>1, BegunGrows
  <2>3. CacheInv(begun) /\ Extends(rs, begun) /\ Sound(begun)
    BY <1>13, <2>2, GrowsKeeps, SoundCache
  <2>4. Extends(cache, begun) /\ Known(begun, e) # {} /\ a \in Known(begun, e) \cup {None}
    BY <1>14, <2>1, <2>3 DEF Extends
  <2>5. PICK l : l = Hydrating(load, begun, context.market)
    OBVIOUS
  <2>6. /\ l \in LoadType /\ l.event = e /\ l.asked = a
        /\ a # None => l.market = a
    <3>1. /\ Known(begun, load.event) # {}
          /\ load.asked # None => /\ context.market = load.asked
                                  /\ context.market \in Known(begun, load.event)
      BY <1>17, <2>1, <2>4
    <3>2. /\ l \in LoadType /\ l.event = load.event /\ l.asked = load.asked
          /\ l.asked # None => l.market = l.asked
      BY <1>9, <1>17, <2>3, <2>5, <3>1, HydratingOf
    <3> QED
      BY <1>17, <3>2
  <2>7. /\ cache' = begun /\ loads' = Append(loads, l)
        /\ page' = Showing(cleared, begun, e, context.market)
    BY <1>8, <1>19, <2>5
  <2>8. PageOk(begun, page', e, a) /\ ShowsAll(begun, page')
    BY <1>16, <2>1, <2>3, <2>4, <2>7, ShowingOf
  <2>9. /\ LoadsInv(begun, loads')
        /\ loads' # <<>> /\ loads'[Len(loads')].event = e /\ loads'[Len(loads')].asked = a
    BY <1>18, <2>4, <2>6, <2>7
  <2> QED
    BY <2>3, <2>4, <2>7, <2>8, <2>9
<1>20. CASE context.stage # "done"
  <2>1. a = None
    BY <1>13, <1>20
  <2>2. cache' = rs /\ loads' = Append(loads, load)
    BY <1>8, <1>20
  <2>3. /\ LoadsInv(rs, loads')
        /\ loads' # <<>> /\ loads'[Len(loads')].event = e /\ loads'[Len(loads')].asked = a
    BY <1>14, <1>17, <1>18, <2>2
  <2>4. CASE pr.market # None
    <3>1. Known(rs, e) # {}
      BY <1>10, <1>13, <2>4 DEF Extends
    <3>2. page' = Showing(cleared, rs, e, pr.market)
      BY <1>8, <1>20, <2>4
    <3>3. PageOk(rs, page', e, a) /\ ShowsAll(rs, page')
      BY <1>14, <1>16, <2>1, <3>1, <3>2, ShowingOf
    <3> QED
      BY <1>13, <1>14, <2>2, <2>3, <3>3
  <2>5. CASE pr.market = None
    <3>1. PICK q : q = [cleared EXCEPT !.status = IF preserve THEN cleared.status ELSE "loading"]
      OBVIOUS
    <3>2. page' = q
      BY <1>8, <1>20, <2>5, <3>1
    <3>3. q \in PageType /\ q.data = page.data /\ (q.status = "ready" => preserve = TRUE /\ page.status = "ready")
      BY <1>16, <3>1 DEF PageType
    <3>4. PageOk(cache, page, address, selected)
      BY DEF ScreenInv
    <3>5. q.status = "ready" => e = address
      BY <1>4, <3>3, <3>4 DEF PageOk
    <3>6. PageOk(rs, q, e, a)
      BY <1>14, <2>1, <3>3, <3>4, <3>5, PageKept
    <3> QED
      BY <1>13, <1>14, <2>2, <2>3, <3>2, <3>3, <3>6
  <2> QED
    BY <2>4, <2>5
<1> QED
  BY <1>19, <1>20

(***************************************************************************)
(* The steps of the page                                                   *)
(***************************************************************************)
OnlyAdds ==
    (/\ page.status = "ready" /\ page'.status = "ready"
     /\ page.data.event = page'.data.event
     /\ page.data.market = page'.data.market)
    => page.data.filled \ {"orderbook"} \subseteq page'.data.filled

\* What a step has to show to keep the invariant, and to take nothing away.
LEMMA Reaches ==
    ASSUME followed \subseteq Resource, followed' = followed,
           CacheInv(cache'), LoadsInv(cache', loads'), AddressInv',
           PageOk(cache', page', address', selected')
    PROVE  ScreenInv'
BY DEF ScreenInv, CacheInv, CacheType, InItsEvent, FlightsOf, ContextsOf, RightContext, LoadsInv,
       PageOk, PageType, DataType

LEMMA Adds ==
    ASSUME ScreenInv, Extends(cache, cache'), page'.data = page.data \/ ShowsAll(cache', page')
    PROVE  OnlyAdds
<1> SUFFICES ASSUME page.status = "ready", page.data.market = page'.data.market,
                    ShowsAll(cache', page'), NEW k \in page.data.filled \ {"orderbook"}
             PROVE  k \in page'.data.filled
  BY DEF OnlyAdds
<1>1. /\ page.data \in DataType /\ cache.cached[k][page.data.market] = "value"
  BY DEF ScreenInv, PageOk
<1>2. k \in followed \ {"orderbook"} /\ page.data.market \in Market
  BY <1>1 DEF DataType
<1> QED
  BY <1>1, <1>2 DEF ShowsAll, Extends

\* One lemma per action.
LEMMA LoadStep ==
    ASSUME ScreenInv, NEW e \in Event, NEW a \in Known(cache, e) \cup {None},
           LoadDetail(e, a, cache, page), address' = e, selected' = a, followed' = followed
    PROVE  ScreenInv' /\ OnlyAdds
<1>1. /\ CacheInv(cache') /\ Extends(cache, cache')
      /\ LoadsInv(cache', loads')
      /\ loads' # <<>> /\ loads'[Len(loads')].event = e /\ loads'[Len(loads')].asked = a
      /\ PageOk(cache', page', e, a)
      /\ page'.data = page.data \/ ShowsAll(cache', page')
  BY LoadDetailOf
<1>2. a \in Market \cup {None}
  BY KnownOf DEF ScreenInv, CacheInv
<1>3. AddressInv'
  BY <1>1, <1>2 DEF AddressInv, Extends
<1>4. OnlyAdds
  BY <1>1, Adds
<1> QED
  BY <1>1, <1>3, <1>4, Reaches DEF ScreenInv

LEMMA SelectStep ==
    ASSUME ScreenInv, NEW m \in Market, SelectMarket(m)
    PROVE  ScreenInv' /\ OnlyAdds
<1>1. page.data \in DataType /\ page.data.event = address /\ address \in Event
  BY DEF SelectMarket, ScreenInv, PageOk, AddressInv
<1>2. m \in Known(cache, address)
  BY <1>1 DEF SelectMarket, ScreenInv, PageOk
<1> QED
  BY <1>1, <1>2, LoadStep DEF SelectMarket

\* A tab that has just been opened.
LEMMA FreshCacheKept ==
    ASSUME NEW store \in StoreType, followed \subseteq Resource,
           \A e \in Event : DOMAIN store.snapshots[e] \subseteq MarketsOf(e),
           NEW c, c = FreshCache(store, followed)
    PROVE  CacheInv(c)
<1>1. Bare \in Snapshot /\ {} \in SUBSET Market
  BY DEF Bare, Snapshot
<1>2. PICK none : none = [m \in {} |-> Bare]
  OBVIOUS
<1>3a. none \in MarketMaps /\ DOMAIN none = {}
  BY <1>1, <1>2, MapOf
<1>3. PICK view : view = NoView
  OBVIOUS
<1>4. view = [markets |-> none, listing |-> 0, books |-> <<>>]
  BY <1>2, <1>3 DEF NoView
<1>5. /\ view \in [markets : MarketMaps, listing : Nat, books : Seq(Market)]
      /\ view.markets = none /\ view.listing = 0 /\ DOMAIN none = {}
  BY <1>3a, <1>4
<1>6. PICK context : context = [stage |-> "none", market |-> None]
  OBVIOUS
<1>7. context \in ContextType /\ context.stage = "none"
  BY <1>6 DEF ContextType, Stages
<1>8. c = [views    |-> [e \in Event |-> view],
           cached   |-> [k \in followed |-> [m \in Market |-> "absent"]],
           inFlight |-> [k \in followed |-> [m \in Market |-> 0]],
           contexts |-> [k \in Event \X (Market \cup {None}) |-> context],
           found    |-> {},
           store    |-> store]
  BY <1>3, <1>6 DEF FreshCache
<1>9. c \in CacheType
  BY <1>5, <1>7, <1>8 DEF CacheType
<1>10. /\ \A e \in Event : c.views[e] = view
       /\ \A k \in followed, m \in Market : c.inFlight[k][m] = 0
       /\ \A e \in Event, a \in Market \cup {None} : c.contexts[<<e, a>>] = context
       /\ c.store = store
  BY <1>8
<1>11. InItsEvent(c)
  BY <1>5, <1>10 DEF InItsEvent, Known, Stored
<1>12. FlightsOf(c)
  BY <1>5, <1>10 DEF FlightsOf
<1>13. ContextsOf(c)
  BY <1>7, <1>10 DEF ContextsOf, RightContext
<1> QED
  BY <1>9, <1>11, <1>12, <1>13 DEF CacheInv

LEMMA FreshPage ==
    ASSUME NEW c, NEW e
    PROVE  PageOk(c, LoadingPage, e, None)
<1>1. LoadingPage.data = None /\ LoadingPage.status = "loading" /\ LoadingPage \in PageType
  BY DEF LoadingPage, PageType
<1> QED
  BY <1>1 DEF PageOk

LEMMA ReloadStep ==
    ASSUME ScreenInv, ReloadTab
    PROVE  ScreenInv' /\ OnlyAdds
<1>1. cache \in CacheType /\ followed \subseteq Resource /\ InItsEvent(cache)
  BY DEF ScreenInv, CacheInv
<1>2. cache.store \in StoreType
  BY <1>1 DEF CacheType
<1>3. \A e \in Event : DOMAIN cache.store.snapshots[e] \subseteq MarketsOf(e)
  BY <1>1 DEF InItsEvent, Stored
<1>4. PICK c : c = FreshCache(cache.store, followed)
  OBVIOUS
<1>5. CacheInv(c)
  BY <1>1, <1>2, <1>3, <1>4, FreshCacheKept
<1>6. cache' = c /\ loads' = <<>> /\ page' = LoadingPage /\ UNCHANGED <<address, followed>>
      /\ selected' = None
  BY <1>4 DEF ReloadTab
<1>7. PageOk(c, page', address', selected')
  BY <1>6, FreshPage
<1>8. LoadsInv(c, loads') /\ AddressInv'
  BY <1>6 DEF LoadsInv, AddressInv, ScreenInv
<1>9. OnlyAdds
  BY <1>6 DEF OnlyAdds, LoadingPage
<1> QED
  BY <1>1, <1>5, <1>6, <1>7, <1>8, <1>9, Reaches

\* The page starts with nothing shown and nothing asked.
LEMMA ScreenStart == ScreenInit => ScreenInv
<1> SUFFICES ASSUME ScreenInit PROVE ScreenInv
  OBVIOUS
<1>1. followed \subseteq Resource
  BY ScreenAssumption DEF ScreenInit
<1>2. PICK store \in Stores : cache = FreshCache(store, followed)
  BY DEF ScreenInit
<1>3. store \in StoreType /\ \A e \in Event : DOMAIN store.snapshots[e] \subseteq MarketsOf(e)
  BY ScreenAssumption
<1>4. CacheInv(cache)
  BY <1>1, <1>2, <1>3, FreshCacheKept
<1>5. PageOk(cache, page, address, selected)
  BY FreshPage DEF ScreenInit
<1> QED
  BY <1>1, <1>4, <1>5 DEF ScreenInit, ScreenInv, LoadsInv, AddressInv

(***************************************************************************)
(* Answers                                                                 *)
(***************************************************************************)
SameLoads(ls, ks) ==
    /\ Len(ks) = Len(ls) /\ DOMAIN ks = DOMAIN ls
    /\ \A v \in DOMAIN ls : ks[v].event = ls[v].event /\ ks[v].asked = ls[v].asked

LEMMA AnswerStep ==
    ASSUME ScreenInv, CacheInv(cache'), Extends(cache, cache'),
           LoadsInv(cache', loads'), SameLoads(loads, loads'),
           UNCHANGED <<address, selected, followed>>,
           \/ page' \in PageType /\ page'.data = page.data
              /\ (page'.status = "ready" => page.status = "ready")
           \/ PageOk(cache', page', address, selected) /\ ShowsAll(cache', page')
    PROVE  ScreenInv' /\ OnlyAdds
<1>1. PageOk(cache', page', address', selected')
  BY PageKept DEF ScreenInv
<1>2. AddressInv'
  <2>1. loads' # <<>> => loads # <<>> /\ Len(loads) \in DOMAIN loads
    BY DEF SameLoads, ScreenInv, LoadsInv
  <2>2. loads # <<>> => loads' # <<>>
    BY DEF SameLoads, ScreenInv, LoadsInv
  <2> QED
    BY <2>1, <2>2 DEF ScreenInv, AddressInv, SameLoads, Extends
<1>3. OnlyAdds
  BY Adds
<1> QED
  BY <1>1, <1>2, <1>3, Reaches DEF ScreenInv

LEMMA LoadsMapped ==
    ASSUME NEW ls \in Seq(LoadType), NEW ks \in [DOMAIN ls -> LoadType]
    PROVE  ks \in Seq(LoadType) /\ Len(ks) = Len(ls) /\ DOMAIN ks = DOMAIN ls
OBVIOUS

LEMMA AfterOf ==
    ASSUME NEW c, LoadsInv(c, loads), NEW k,
           NEW waiting, \A v \in waiting : v \in DOMAIN loads /\ loads[v].stage = "hydrating",
           NEW after, after = AfterAnswer(waiting, k)
    PROVE  LoadsInv(c, after) /\ SameLoads(loads, after)
           /\ \A v \in DOMAIN loads : after[v].market = loads[v].market
<1>1. loads \in Seq(LoadType) /\ \A v \in DOMAIN loads : loads[v] \in LoadType
  BY DEF LoadsInv
<1>2. ASSUME NEW v \in DOMAIN loads
      PROVE  /\ after[v] \in LoadType /\ after[v].event = loads[v].event
             /\ after[v].asked = loads[v].asked /\ after[v].market = loads[v].market
             /\ after[v].stage \in {"hydrating", "done"} =>
                    loads[v].stage \in {"hydrating", "done"}
  <2>1. CASE v \notin waiting
    <3>1. after[v] = loads[v]
      BY <2>1 DEF AfterAnswer
    <3> QED
      BY <1>1, <3>1
  <2>2. CASE v \in waiting
    <3>1. PICK left : left = loads[v].awaits \ {k}
      OBVIOUS
    <3>2. PICK stage \in {"done", "hydrating"} :
              stage = IF left = {} THEN "done" ELSE loads[v].stage
      BY <2>2
    <3>3. PICK l : l = loads[v]
      OBVIOUS
    <3>4. after[v] = [l EXCEPT !.awaits = left, !.stage = stage]
      BY <2>2, <3>1, <3>2, <3>3, Zenon DEF AfterAnswer
    <3>5. l \in LoadType
      BY <1>1, <3>3
    <3>6. /\ after[v] \in LoadType /\ after[v].event = l.event
          /\ after[v].asked = l.asked /\ after[v].market = l.market
      <4>1. left \subseteq l.awaits
        BY <3>1, <3>3
      <4>2. PICK n : n = after[v]
        OBVIOUS
      <4>3. n = [l EXCEPT !.awaits = left, !.stage = stage]
        BY <3>4, <4>2
      <4>4. /\ n \in LoadType /\ n.event = l.event
            /\ n.asked = l.asked /\ n.market = l.market
        BY <3>2, <3>5, <4>1, <4>3 DEF LoadType
      <4> QED
        BY <4>2, <4>4
    <3> QED
      BY <2>2, <3>3, <3>6
  <2> QED
    BY <2>1, <2>2
<1>3. PICK ls : ls = loads
  OBVIOUS
<1>4. after \in [DOMAIN ls -> LoadType]
  BY <1>2, <1>3 DEF AfterAnswer
<1>5. after \in Seq(LoadType) /\ Len(after) = Len(ls) /\ DOMAIN after = DOMAIN ls
  BY <1>1, <1>3, <1>4, LoadsMapped
<1> QED
  BY <1>2, <1>3, <1>5 DEF LoadsInv, SameLoads

LEMMA LoadsStep ==
    ASSUME NEW c, loads \in Seq(LoadType), NEW ks \in [DOMAIN loads -> LoadType],
           \A v \in DOMAIN loads :
              /\ ks[v].event = loads[v].event /\ ks[v].asked = loads[v].asked
              /\ ks[v].stage \in {"hydrating", "done"} =>
                     /\ Known(c, ks[v].event) # {}
                     /\ ks[v].asked # None => ks[v].market = ks[v].asked
    PROVE  LoadsInv(c, ks) /\ SameLoads(loads, ks)
<1>1. PICK ls : ls = loads
  OBVIOUS
<1>2. ks \in [DOMAIN ls -> LoadType]
  BY <1>1
<1>3. ks \in Seq(LoadType) /\ Len(ks) = Len(ls) /\ DOMAIN ks = DOMAIN ls
  BY <1>1, <1>2, LoadsMapped
<1> QED
  BY <1>1, <1>3 DEF LoadsInv, SameLoads

LEMMA RepublishedOf ==
    ASSUME ScreenInv, NEW d, CacheInv(d), Extends(cache, d), NEW after, NEW preview,
           NEW waiting, \A v \in waiting : v \in DOMAIN loads /\ loads[v].stage = "hydrating",
           NEW q, q = Republished(d, waiting, preview, after)
    PROVE  q = page \/ (PageOk(d, q, address, selected) /\ ShowsAll(d, q))
<1>1. PICK showing : showing = {v \in waiting : IsCurrent(v)
                                                /\ (preview \/ after[v].stage = "done")}
  OBVIOUS
<1>2. CASE showing = {}
  BY <1>1, <1>2 DEF Republished
<1>3. CASE showing # {}
  <2>1. PICK v : v = CHOOSE u \in showing : TRUE
    OBVIOUS
  <2>2. v \in waiting /\ v = Len(loads)
    BY <1>1, <1>3, <2>1 DEF IsCurrent, Version
  <2>3. q = Showing(page, d, loads[v].event, loads[v].market)
    BY <1>1, <1>3, <2>1, Zenon DEF Republished
  <2>4. v \in DOMAIN loads /\ loads[v].stage = "hydrating" /\ loads # <<>>
    BY <2>2 DEF ScreenInv, LoadsInv
  <2>5. /\ loads[v].event = address /\ loads[v].asked = selected
        /\ address \in Event /\ (selected # None => selected \in Known(cache, address))
    BY <2>2, <2>4 DEF ScreenInv, AddressInv
  <2>6. /\ Known(cache, address) # {}
        /\ selected # None => loads[v].market = selected
    BY <2>4, <2>5 DEF ScreenInv, LoadsInv
  <2>7. Known(d, address) # {} /\ (selected # None => selected \in Known(d, address))
    BY <2>5, <2>6 DEF Extends
  <2>8. Sound(d) /\ page \in PageType
    BY SoundCache DEF ScreenInv, PageOk
  <2> QED
    BY <2>3, <2>5, <2>6, <2>7, <2>8, ShowingOf
<1> QED
  BY <1>2, <1>3

LEMMA AwaitedLoads ==
    ASSUME NEW e, NEW k, NEW ms, NEW waiting, waiting \subseteq AwaitedBy(e, k, ms)
    PROVE  \A v \in waiting : v \in DOMAIN loads /\ loads[v].stage = "hydrating"
BY DEF AwaitedBy

\* An answer about a market or the list of an event.
LEMMA ReadStep ==
    ASSUME ScreenInv, NEW d, Grows(cache, d), cache' = d,
           NEW waiting, \A v \in waiting : v \in DOMAIN loads /\ loads[v].stage = "hydrating",
           LoadsInv(cache, loads'), SameLoads(loads, loads'),
           NEW preview, NEW after, NEW c, CacheInv(c), Extends(cache, c), Grows(c, d),
           c.cached = d.cached, \A e \in Event : Known(c, e) = Known(d, e),
           page' = Republished(c, waiting, preview, after),
           UNCHANGED <<address, selected, followed>>
    PROVE  ScreenInv' /\ OnlyAdds
<1>1. CacheInv(d) /\ Extends(cache, d)
  BY GrowsKeeps DEF ScreenInv
<1>2. LoadsInv(d, loads')
  BY <1>1, LoadsKept
<1>3. PICK q : q = page'
  OBVIOUS
<1>4. q = page \/ (PageOk(c, q, address, selected) /\ ShowsAll(c, q))
  BY <1>3, RepublishedOf
<1>5. CASE q = page
  BY <1>1, <1>2, <1>3, <1>5, AnswerStep DEF ScreenInv, PageOk
<1>6. CASE PageOk(c, q, address, selected) /\ ShowsAll(c, q)
  <2>1. PageOk(d, q, address, selected)
    <3>1. Extends(c, d) /\ q \in PageType
      BY <1>6 DEF Grows, PageOk
    <3> QED
      BY <1>6, <3>1, PageKept
  <2>2. ShowsAll(d, q)
    BY <1>6 DEF ShowsAll
  <2> QED
    BY <1>1, <1>2, <1>3, <2>1, <2>2, AnswerStep
<1> QED
  BY <1>4, <1>5, <1>6

LEMMA EventMarketsStep ==
    ASSUME ScreenInv, NEW e \in Event, NEW ok \in BOOLEAN, EventMarketsRead(e, ok)
    PROVE  ScreenInv' /\ OnlyAdds
<1>1. PICK d : d = EventMarketsArrive(cache, e, ok)
  OBVIOUS
<1>2. PICK waiting : waiting = AwaitedBy(e, "markets", Market)
  OBVIOUS
<1>3. PICK after : after = AfterAnswer(waiting, "markets")
  OBVIOUS
<1>4. PICK preview : preview = \E m \in Known(d, e) :
          LET s == d.views[e].markets[m] IN s.priced \/ s.enriched
  OBVIOUS
<1>5. /\ cache.views[e].listing > 0 /\ cache' = d /\ loads' = after
      /\ page' = Republished(d, waiting, preview, after)
      /\ UNCHANGED <<address, selected, followed>>
  BY <1>1, <1>2, <1>3, <1>4, Zenon DEF EventMarketsRead
<1>6. Sound(cache) /\ LoadsInv(cache, loads)
  BY SoundCache DEF ScreenInv
<1>7. Grows(cache, d)
  BY <1>1, <1>5, <1>6, ListedGrows
<1>8. CacheInv(d) /\ Extends(cache, d) /\ Grows(d, d)
  BY <1>7, GrowsKeeps, GrowsSelf, SoundCache DEF ScreenInv
<1>9. \A v \in waiting : v \in DOMAIN loads /\ loads[v].stage = "hydrating"
  BY <1>2, AwaitedLoads
<1>10. LoadsInv(cache, loads') /\ SameLoads(loads, loads')
  BY <1>3, <1>5, <1>6, <1>9, AfterOf
<1> QED
  BY <1>5, <1>7, <1>8, <1>9, <1>10, ReadStep

LEMMA ResourceStep ==
    ASSUME ScreenInv, NEW e \in Event, NEW m \in MarketsOf(e), NEW k \in followed,
           NEW ok \in BOOLEAN, ResourceRead(e, k, m, ok)
    PROVE  ScreenInv' /\ OnlyAdds
<1>1. PICK d : d = Arrives(cache, e, k, m, ok)
  OBVIOUS
<1>2. PICK waiting : waiting = AwaitedBy(e, k, {m})
  OBVIOUS
<1>3. PICK after : after = AfterAnswer(waiting, k)
  OBVIOUS
<1>4. PICK preview : preview = (k = "comments" /\ ok)
  OBVIOUS
<1>5. /\ cache.inFlight[k][m] > 0 /\ cache' = d /\ loads' = after
      /\ page' = Republished(d, waiting, preview, after)
      /\ UNCHANGED <<address, selected, followed>>
  BY <1>1, <1>2, <1>3, <1>4, Zenon DEF ResourceRead
<1>6. Sound(cache) /\ LoadsInv(cache, loads) /\ followed \subseteq Resource
  BY SoundCache DEF ScreenInv
<1>7. Grows(cache, d)
  BY <1>1, <1>5, <1>6, AnswerGrows
<1>8. CacheInv(d) /\ Extends(cache, d) /\ Grows(d, d)
  BY <1>7, GrowsKeeps, GrowsSelf, SoundCache DEF ScreenInv
<1>9. \A v \in waiting : v \in DOMAIN loads /\ loads[v].stage = "hydrating"
  BY <1>2, AwaitedLoads
<1>10. LoadsInv(cache, loads') /\ SameLoads(loads, loads')
  BY <1>3, <1>5, <1>6, <1>9, AfterOf
<1> QED
  BY <1>5, <1>7, <1>8, <1>9, <1>10, ReadStep

LEMMA LiquidityStep ==
    ASSUME ScreenInv, NEW e \in Event, NEW m \in MarketsOf(e), NEW ok \in BOOLEAN,
           "liquidity" \in followed, LiquidityRead(e, m, ok)
    PROVE  ScreenInv' /\ OnlyAdds
<1>1. PICK c : c = Arrives(cache, e, "liquidity", m, ok)
  OBVIOUS
<1>2. PICK waiting : waiting = AwaitedBy(e, "liquidity", {m})
  OBVIOUS
<1>3. PICK again : again = {v \in waiting : ~ok /\ ~loads[v].retried}
  OBVIOUS
<1>4. PICK after : after = AfterAnswer(waiting \ again, "liquidity")
  OBVIOUS
<1>5. PICK d : d = IF again = {} THEN c ELSE AskedAgain(c, "liquidity", m)
  OBVIOUS
<1>6. /\ cache.inFlight["liquidity"][m] > 0 /\ cache' = d
      /\ loads' = [v \in DOMAIN loads |-> IF v \in again
                                          THEN [after[v] EXCEPT !.retried = TRUE]
                                          ELSE after[v]]
      /\ page' = Republished(c, waiting, ok, after)
      /\ UNCHANGED <<address, selected, followed>>
  BY <1>1, <1>2, <1>3, <1>4, <1>5, Zenon DEF LiquidityRead
<1>7. Sound(cache) /\ LoadsInv(cache, loads) /\ followed \subseteq Resource
  BY SoundCache DEF ScreenInv
<1>8. Grows(cache, c)
  BY <1>1, <1>6, <1>7, AnswerGrows
<1>9. CacheInv(c) /\ Extends(cache, c) /\ Sound(c) /\ c \in CacheType
  BY <1>8, GrowsKeeps, SoundCache DEF ScreenInv
<1>10. Grows(c, d) /\ c.cached = d.cached /\ \A x \in Event : Known(c, x) = Known(d, x)
  <2>1. CASE again = {}
    BY <1>5, <1>9, <2>1, GrowsSelf
  <2>2. CASE again # {}
    <3>1. ~ok /\ m \in Market
      BY <1>3, <2>2 DEF MarketsOf
    <3>2. c = Received(cache, "liquidity", m)
      BY <1>1, <3>1, Zenon DEF Arrives, LiquidityArrives
    <3>3. c.inFlight["liquidity"][m] = 0 /\ Known(c, EventOf[m]) # {}
      BY <1>6, <1>7, <3>1, <3>2, GrowsReceived DEF Known
    <3>4. d = AskedAgain(c, "liquidity", m)
      BY <1>5, <2>2
    <3>5. Grows(c, d)
      BY <1>9, <3>1, <3>3, <3>4, AskedAgainGrows
    <3>6. d.views = c.views /\ d.cached = c.cached
      BY <1>9, <3>1, <3>4, AskedAgainOf
    <3> QED
      BY <3>5, <3>6 DEF Known
  <2> QED
    BY <2>1, <2>2
<1>11. Grows(cache, d)
  BY <1>8, <1>10, GrowsOn
<1>12. \A v \in waiting : v \in DOMAIN loads /\ loads[v].stage = "hydrating"
  BY <1>2, AwaitedLoads
<1>13. LoadsInv(cache, after) /\ SameLoads(loads, after)
  BY <1>4, <1>7, <1>12, AfterOf
<1>14. LoadsInv(cache, loads') /\ SameLoads(loads, loads')
  <2>1. PICK ks : ks = loads'
    OBVIOUS
  <2>2. ASSUME NEW v \in DOMAIN loads
        PROVE  /\ ks[v] \in LoadType
               /\ ks[v].event = loads[v].event /\ ks[v].asked = loads[v].asked
               /\ ks[v].stage \in {"hydrating", "done"} =>
                      /\ Known(cache, ks[v].event) # {}
                      /\ ks[v].asked # None => ks[v].market = ks[v].asked
    <3>1. PICK l : l = after[v]
      OBVIOUS
    <3>2. /\ l \in LoadType /\ l.event = loads[v].event /\ l.asked = loads[v].asked
          /\ l.stage \in {"hydrating", "done"} =>
                 /\ Known(cache, l.event) # {}
                 /\ l.asked # None => l.market = l.asked
      <4>1. after \in Seq(LoadType) /\ v \in DOMAIN after
        BY <1>13 DEF LoadsInv, SameLoads
      <4>2. l \in LoadType
        BY <3>1, <4>1
      <4> QED
        BY <1>13, <3>1, <4>1, <4>2 DEF LoadsInv, SameLoads
    <3>3. PICK n : n = [l EXCEPT !.retried = TRUE]
      OBVIOUS
    <3>4. /\ n \in LoadType /\ n.event = l.event /\ n.asked = l.asked
          /\ n.market = l.market /\ n.stage = l.stage
      BY <3>2, <3>3 DEF LoadType
    <3>5. ks[v] = IF v \in again THEN n ELSE l
      BY <1>6, <2>1, <3>1, <3>3
    <3> QED
      BY <3>2, <3>4, <3>5
  <2>3. ks \in [DOMAIN loads -> LoadType]
    BY <1>6, <2>1, <2>2
  <2>4. loads \in Seq(LoadType)
    BY <1>7 DEF LoadsInv
  <2>5. LoadsInv(cache, ks) /\ SameLoads(loads, ks)
    BY <2>2, <2>3, <2>4, LoadsStep
  <2> QED
    BY <2>1, <2>5
<1> QED
  BY <1>6, <1>9, <1>10, <1>11, <1>12, <1>14, ReadStep

(***************************************************************************)
(* The answers that resolve an address                                     *)
(***************************************************************************)
LEMMA StageSet ==
    ASSUME NEW c, CacheInv(c), NEW e \in Event, NEW a \in Market \cup {None},
           c.contexts[<<e, a>>].stage \in {"preferred", "lookup", "list", "detail"},
           NEW stage \in {"none", "lookup", "list", "detail"},
           NEW d, d = InStage(c, e, a, stage)
    PROVE  CacheInv(d) /\ Extends(c, d)
<1>1. RightContext(c, e, a, c.contexts[<<e, a>>])
  BY DEF CacheInv, ContextsOf
<1>2. PICK old : old = c.contexts[<<e, a>>]
  OBVIOUS
<1>3. old \in ContextType
  BY <1>2 DEF CacheInv, CacheType
<1>4. PICK context : context = [old EXCEPT !.stage = stage]
  OBVIOUS
<1>5. context \in ContextType /\ context.stage = stage
  BY <1>3, <1>4 DEF ContextType, Stages
<1>6. RightContext(c, e, a, context)
  BY <1>1, <1>5 DEF RightContext
<1>7. d = WithContext(c, e, a, context)
  BY <1>2, <1>4 DEF InStage
<1> QED
  BY <1>5, <1>6, <1>7, ContextSet

\* The page and its loads wait on.
LEMMA WaitStep ==
    ASSUME ScreenInv, CacheInv(cache'), Extends(cache, cache'),
           UNCHANGED <<address, selected, page, loads, started, followed>>
    PROVE  ScreenInv' /\ OnlyAdds
<1>1. LoadsInv(cache', loads') /\ SameLoads(loads, loads')
  BY LoadsKept DEF ScreenInv, SameLoads
<1>2. page' \in PageType /\ page'.data = page.data
      /\ (page'.status = "ready" => page.status = "ready")
  BY DEF ScreenInv, PageOk
<1> QED
  BY <1>1, <1>2, AnswerStep

LEMMA LookupStep ==
    ASSUME ScreenInv, NEW e \in Event, NEW a \in Market \cup {None},
           PreferredMarketGone(e, a) \/ EventFound(e, a) \/ EventMarketsListed(e, a)
    PROVE  ScreenInv' /\ OnlyAdds
<1>1. CASE PreferredMarketGone(e, a)
  <2>1. LookupStage(cache, e) \in {"lookup", "list"}
    BY DEF LookupStage
  <2>2. CacheInv(cache') /\ Extends(cache, cache')
    BY <1>1, <2>1, StageSet DEF PreferredMarketGone, AdvanceContext, Stage, ScreenInv
  <2> QED
    BY <1>1, <2>2, WaitStep DEF PreferredMarketGone, AdvanceContext
<1>2. CASE EventMarketsListed(e, a)
  <2>1. CacheInv(cache') /\ Extends(cache, cache')
    BY <1>2, StageSet DEF EventMarketsListed, AdvanceContext, Stage, ScreenInv
  <2> QED
    BY <1>2, <2>1, WaitStep DEF EventMarketsListed, AdvanceContext
<1>3. CASE EventFound(e, a)
  <2>1. PICK c : c = InStage(cache, e, a, "list")
    OBVIOUS
  <2>2. CacheInv(c) /\ Extends(cache, c)
    BY <1>3, <2>1, StageSet DEF EventFound, Stage, ScreenInv
  <2>3. PICK d : d = [c EXCEPT !.found = c.found \cup {e}]
    OBVIOUS
  <2>4. cache' = d
    BY <1>3, <2>1, <2>3 DEF EventFound
  <2>5. c \in CacheType /\ Sound(c)
    BY <2>2, SoundCache
  <2>6. /\ d \in CacheType /\ d.views = c.views /\ d.cached = c.cached
        /\ d.inFlight = c.inFlight /\ d.contexts = c.contexts /\ d.store = c.store
    BY <2>3, <2>5 DEF CacheType
  <2>7. \A x \in Event : DOMAIN Stored(d, x) \subseteq MarketsOf(x)
    BY <2>2, <2>6 DEF Stored, CacheInv, InItsEvent
  <2>8. Grows(c, d)
    BY <2>5, <2>6, <2>7, GrowsBeside
  <2>9. CacheInv(d) /\ Extends(c, d)
    BY <2>2, <2>8, GrowsKeeps
  <2>10. Extends(cache, d)
    BY <2>2, <2>9 DEF Extends
  <2> QED
    BY <1>3, <2>4, <2>9, <2>10, WaitStep DEF EventFound
<1> QED
  BY <1>1, <1>2, <1>3

LEMMA FailsStep ==
    ASSUME ScreenInv, NEW e \in Event, NEW a \in Market \cup {None}, ContextFails(e, a)
    PROVE  ScreenInv' /\ OnlyAdds
<1>1. PICK waiting : waiting = Waiting(e, a)
  OBVIOUS
<1>2. PICK current : current = {v \in waiting : IsCurrent(v)}
  OBVIOUS
<1>3. /\ cache.contexts[<<e, a>>].stage \in {"lookup", "list", "detail"}
      /\ cache' = InStage(cache, e, a, "none")
      /\ loads' = [v \in DOMAIN loads |-> IF v \in waiting
                                          THEN [loads[v] EXCEPT !.stage = "failed"]
                                          ELSE loads[v]]
      /\ page' = IF current = {} THEN page
                 ELSE [page EXCEPT !.error = TRUE,
                          !.status = IF \E v \in current : ~loads[v].keep
                                     THEN "error" ELSE @]
      /\ UNCHANGED <<address, selected, started, followed>>
  BY <1>1, <1>2, Zenon DEF ContextFails, Stage
<1>4. CacheInv(cache') /\ Extends(cache, cache')
  BY <1>3, StageSet DEF ScreenInv
<1>5. LoadsInv(cache, loads') /\ SameLoads(loads, loads')
  <2>1. PICK ks : ks = loads'
    OBVIOUS
  <2>2. ASSUME NEW v \in DOMAIN loads
        PROVE  /\ ks[v] \in LoadType
               /\ ks[v].event = loads[v].event /\ ks[v].asked = loads[v].asked
               /\ ks[v].stage \in {"hydrating", "done"} =>
                      /\ Known(cache, ks[v].event) # {}
                      /\ ks[v].asked # None => ks[v].market = ks[v].asked
    <3>1. PICK l : l = loads[v]
      OBVIOUS
    <3>2. /\ l \in LoadType
          /\ l.stage \in {"hydrating", "done"} =>
                 /\ Known(cache, l.event) # {}
                 /\ l.asked # None => l.market = l.asked
      BY <3>1 DEF LoadsInv, ScreenInv
    <3>3. PICK n : n = [l EXCEPT !.stage = "failed"]
      OBVIOUS
    <3>4. /\ n \in LoadType /\ n.event = l.event /\ n.asked = l.asked /\ n.stage = "failed"
      BY <3>2, <3>3 DEF LoadType
    <3>5. ks[v] = IF v \in waiting THEN n ELSE l
      BY <1>3, <2>1, <3>1, <3>3
    <3> QED
      BY <3>1, <3>2, <3>4, <3>5
  <2>3. ks \in [DOMAIN loads -> LoadType]
    BY <1>3, <2>1, <2>2
  <2>4. loads \in Seq(LoadType)
    BY DEF ScreenInv, LoadsInv
  <2>5. LoadsInv(cache, ks) /\ SameLoads(loads, ks)
    BY <2>2, <2>3, <2>4, LoadsStep
  <2> QED
    BY <2>1, <2>5
<1>6. LoadsInv(cache', loads')
  BY <1>4, <1>5, LoadsKept
<1>7. page' \in PageType /\ page'.data = page.data
      /\ (page'.status = "ready" => page.status = "ready")
  <2>1. PICK p \in PageType : p = page
    BY DEF ScreenInv, PageOk
  <2>2. PICK status \in {"loading", "ready", "error"} :
            status = IF \E v \in current : ~loads[v].keep THEN "error" ELSE p.status
    BY <2>1 DEF PageType
  <2>3. PICK q : q = [p EXCEPT !.error = TRUE, !.status = status]
    OBVIOUS
  <2>4. page' = p \/ page' = q
    BY <1>3, <2>1, <2>2, <2>3
  <2>5. q \in PageType /\ q.data = p.data /\ q.status = status
    BY <2>1, <2>2, <2>3 DEF PageType
  <2> QED
    BY <2>1, <2>2, <2>4, <2>5
<1> QED
  BY <1>3, <1>4, <1>5, <1>6, <1>7, AnswerStep

LEMMA DetailStep ==
    ASSUME ScreenInv, NEW e \in Event, NEW a \in Market \cup {None}, NEW m \in MarketsOf(e),
           NEW siblings \in SUBSET MarketsOf(e), DetailRead(e, a, m, siblings)
    PROVE  ScreenInv' /\ OnlyAdds
<1>1. PICK waiting : waiting = Waiting(e, a)
  OBVIOUS
<1>2. PICK snapshots : snapshots = [n \in siblings \cup {m} |-> Bare]
  OBVIOUS
<1>3. PICK rs : rs = WithContext(ApplyDetail(EnsureEventView(cache, e, snapshots),
                                             e, m, siblings),
                                 e, a, [stage |-> "done", market |-> m])
  OBVIOUS
<1>4. PICK d : d = BeginHydration(rs, e, m)
  OBVIOUS
<1>5. /\ cache.contexts[<<e, a>>].stage \in {"preferred", "detail"}
      /\ cache' = d
      /\ loads' = [v \in DOMAIN loads |-> IF v \in waiting THEN Hydrating(loads[v], d, m)
                                          ELSE loads[v]]
      /\ page' = IF \E v \in waiting : IsCurrent(v) THEN Showing(page, d, e, m) ELSE page
      /\ UNCHANGED <<address, selected, started, followed>>
  BY <1>1, <1>2, <1>3, <1>4, Zenon DEF DetailRead, Stage
<1>6. CacheInv(rs) /\ Extends(cache, rs) /\ Known(rs, e) # {} /\ a = None
  BY <1>2, <1>3, <1>5, DetailResolves DEF ScreenInv
<1>7. Grows(rs, d)
  BY <1>4, <1>6, BegunGrows, SoundCache
<1>8. CacheInv(d) /\ Extends(rs, d) /\ Sound(d)
  BY <1>6, <1>7, GrowsKeeps, SoundCache
<1>9. Extends(cache, d) /\ Known(d, e) # {}
  BY <1>6, <1>8 DEF Extends
<1>10. LoadsInv(d, loads) /\ loads \in Seq(LoadType) /\ followed \subseteq Resource
  <2>1. LoadsInv(cache, loads) /\ followed \subseteq Resource
    BY DEF ScreenInv
  <2>2. LoadsInv(d, loads)
    BY <1>9, <2>1, LoadsKept
  <2> QED
    BY <2>1, <2>2 DEF LoadsInv
<1>11. LoadsInv(d, loads') /\ SameLoads(loads, loads')
  <2>1. PICK ks : ks = loads'
    OBVIOUS
  <2>2. ASSUME NEW v \in DOMAIN loads
        PROVE  /\ ks[v] \in LoadType
               /\ ks[v].event = loads[v].event /\ ks[v].asked = loads[v].asked
               /\ ks[v].stage \in {"hydrating", "done"} =>
                      /\ Known(d, ks[v].event) # {}
                      /\ ks[v].asked # None => ks[v].market = ks[v].asked
    <3>1. PICK l : l = loads[v]
      OBVIOUS
    <3>2. l \in LoadType
      BY <1>10, <3>1
    <3>3. CASE v \notin waiting
      BY <1>5, <1>10, <2>1, <3>1, <3>2, <3>3 DEF LoadsInv
    <3>4. CASE v \in waiting
      <4>1. l.event = e /\ l.asked = None
        BY <1>1, <1>6, <3>1, <3>4 DEF Waiting
      <4>2. PICK n : n = Hydrating(l, d, m)
        OBVIOUS
      <4>3. ks[v] = n
        BY <1>5, <2>1, <3>1, <3>4, <4>2
      <4>4. Known(d, l.event) # {} /\ ~(l.asked # None)
        BY <1>9, <4>1
      <4>5. n \in LoadType /\ n.event = l.event /\ n.asked = l.asked
        BY <1>8, <1>10, <3>2, <4>2, <4>4, HydratingOf
      <4> QED
        BY <3>1, <4>3, <4>4, <4>5
    <3> QED
      BY <3>3, <3>4
  <2>3. ks \in [DOMAIN loads -> LoadType]
    BY <1>5, <2>1, <2>2
  <2>4. LoadsInv(d, ks) /\ SameLoads(loads, ks)
    BY <1>10, <2>2, <2>3, LoadsStep
  <2> QED
    BY <2>1, <2>4
<1>12. page \in PageType
  BY DEF ScreenInv, PageOk
<1>13. CASE ~\E v \in waiting : IsCurrent(v)
  BY <1>5, <1>8, <1>9, <1>11, <1>12, <1>13, AnswerStep
<1>14. CASE \E v \in waiting : IsCurrent(v)
  <2>1. Len(loads) \in waiting
    BY <1>14 DEF IsCurrent, Version
  <2>2. loads # <<>> /\ loads[Len(loads)].event = e /\ loads[Len(loads)].asked = None
    BY <1>1, <1>6, <1>10, <2>1 DEF Waiting
  <2>3. address = e /\ selected = None
    BY <2>2 DEF ScreenInv, AddressInv
  <2>4. PICK q : q = Showing(page, d, e, m)
    OBVIOUS
  <2>5. PageOk(d, q, address, selected) /\ ShowsAll(d, q)
    BY <1>8, <1>9, <1>12, <2>3, <2>4, ShowingOf
  <2>6. page' = q
    BY <1>5, <1>14, <2>4
  <2> QED
    BY <1>5, <1>8, <1>9, <1>11, <2>5, <2>6, AnswerStep
<1> QED
  BY <1>13, <1>14

\* Every step of the visitor and every answer keeps the invariant, and takes
\* nothing away from a page that stays what it is.
LEMMA ScreenSteps == ScreenInv /\ [ScreenNext]_screenVars => ScreenInv' /\ OnlyAdds
<1> SUFFICES ASSUME ScreenInv, [ScreenNext]_screenVars PROVE ScreenInv' /\ OnlyAdds
  OBVIOUS
<1>1. CASE UNCHANGED screenVars
  <2>1. UNCHANGED <<cache, address, selected, page, loads, followed>>
    BY <1>1 DEF screenVars
  <2>2. CacheInv(cache') /\ Extends(cache, cache')
    BY <2>1 DEF ScreenInv, Extends
  <2>3. UNCHANGED <<address, selected, page, loads, started, followed>>
    BY <1>1 DEF screenVars
  <2> QED
    BY <2>2, <2>3, WaitStep
<1>2. CASE ScreenVisitor
  <2>1. CASE ReloadTab
    BY <2>1, ReloadStep
  <2>2. CASE Mount \/ RetryLoad
    <3>1. selected \in Known(cache, address) \cup {None} /\ address \in Event
      BY DEF ScreenInv, AddressInv
    <3> QED
      BY <2>2, <3>1, LoadStep DEF Mount, RetryLoad
  <2>3. CASE \E e \in Event : VisitEvent(e)
    BY <2>3, LoadStep DEF VisitEvent
  <2>4. CASE \E m \in Market : SelectMarket(m)
    BY <2>4, SelectStep
  <2> QED
    BY <1>2, <2>1, <2>2, <2>3, <2>4 DEF ScreenVisitor
<1>3. CASE ScreenAnswer
  <2>1. PICK e \in Event :
        \/ \E ok \in BOOLEAN : EventMarketsRead(e, ok)
        \/ \E m \in MarketsOf(e) : \E ok \in BOOLEAN :
              \/ "liquidity" \in followed /\ LiquidityRead(e, m, ok)
              \/ \E k \in followed : ResourceRead(e, k, m, ok)
        \/ \E a \in {None} \cup MarketsOf(e) :
              \/ PreferredMarketGone(e, a)
              \/ EventFound(e, a)
              \/ EventMarketsListed(e, a)
              \/ ContextFails(e, a)
              \/ \E m \in MarketsOf(e) :
                    \E siblings \in {{}, MarketsOf(e)} : DetailRead(e, a, m, siblings)
    BY <1>3, Zenon DEF ScreenAnswer
  <2>2. CASE \E ok \in BOOLEAN : EventMarketsRead(e, ok)
    BY <2>2, EventMarketsStep
  <2>3. CASE \E m \in MarketsOf(e) : \E ok \in BOOLEAN :
                \/ "liquidity" \in followed /\ LiquidityRead(e, m, ok)
                \/ \E k \in followed : ResourceRead(e, k, m, ok)
    BY <2>3, LiquidityStep, ResourceStep
  <2>4. CASE \E a \in {None} \cup MarketsOf(e) :
                \/ PreferredMarketGone(e, a)
                \/ EventFound(e, a)
                \/ EventMarketsListed(e, a)
                \/ ContextFails(e, a)
                \/ \E m \in MarketsOf(e) :
                      \E siblings \in {{}, MarketsOf(e)} : DetailRead(e, a, m, siblings)
    <3>1. \A a \in {None} \cup MarketsOf(e) : a \in Market \cup {None}
      BY DEF MarketsOf
    <3>2. \A siblings \in {{}, MarketsOf(e)} : siblings \in SUBSET MarketsOf(e)
      OBVIOUS
    <3> QED
      BY <2>4, <3>1, <3>2, LookupStep, FailsStep, DetailStep
  <2> QED
    BY <2>1, <2>2, <2>3, <2>4
<1> QED
  BY <1>1, <1>2, <1>3 DEF ScreenNext

LEMMA ScreenAlways == ScreenSpec => []ScreenInv
BY ScreenStart, ScreenSteps, PTL DEF ScreenSpec

\* Whatever answers come late, in whatever order, a page that is ready shows the
\* event and the market of its address, of the markets known of that event.
THEOREM PageIsOfItsAddress == ScreenSpec => []ShowsWhatIsAddressed
<1>1. ScreenInv => ShowsWhatIsAddressed
  BY DEF ScreenInv, PageOk, ShowsWhatIsAddressed
<1> QED
  BY <1>1, ScreenAlways, PTL

\* No resource of a market and no list of an event is asked for while it is being
\* asked for: inFlight is shared by all the loads of the tab.
THEOREM ReadsAreNotDoubled == ScreenSpec => []SingleFlight
<1>1. ScreenInv => SingleFlight
  BY DEF ScreenInv, CacheInv, FlightsOf, SingleFlight, MarketsOf
<1> QED
  BY <1>1, ScreenAlways, PTL

\* As long as a page shows the same market, none of its sections but the order book
\* is emptied again: a republished view holds what the previous one held.
THEOREM WhatIsShownStays == ScreenSpec => HydrationOnlyAdds
<1>1. OnlyAdds <=> ((/\ page.status = "ready" /\ page'.status = "ready"
                     /\ page.data.event = page'.data.event
                     /\ page.data.market = page'.data.market)
                    => page.data.filled \ {"orderbook"} \subseteq page'.data.filled)
  BY DEF OnlyAdds
<1> QED
  BY <1>1, ScreenAlways, ScreenSteps, PTL DEF ScreenSpec, HydrationOnlyAdds

-----------------------------------------------------------------------------
(* The admin site's event page *)

AdminPageType == [markets : SUBSET Market, bare : SUBSET Market, listing : BOOLEAN]

PagesType ==
    [views       : [Event -> AdminPageType],
     resolutions : [Market -> {"absent", "asked", "value"}],
     contexts    : [Event \X (Market \cup {None}) -> Market \cup {None, "asked"}],
     store       : PageStore]

Listed(c, e) == c.views[e].markets

\* Pages list markets of their own event, and an address that is resolved has some.
PagesInv(c) ==
    /\ c \in PagesType
    /\ \A e \in Event : /\ Listed(c, e) \subseteq MarketsOf(e)
                        /\ c.store.snapshots[e].markets \subseteq MarketsOf(e)
    /\ \A e \in Event, a \in Market \cup {None} :
          c.contexts[<<e, a>>] \notin {None, "asked"} => Listed(c, e) # {}

Wider(c, d) == \A e \in Event : Listed(c, e) \subseteq Listed(d, e)

\* An invariant of the admin's cache that lists at least as much.
LEMMA Widens ==
    ASSUME NEW c, PagesInv(c), NEW d \in PagesType, Wider(c, d), d.contexts = c.contexts,
           \A e \in Event : /\ Listed(d, e) \subseteq MarketsOf(e)
                            /\ d.store.snapshots[e].markets \subseteq MarketsOf(e)
    PROVE  PagesInv(d)
<1>1. ASSUME NEW e \in Event, NEW a \in Market \cup {None},
             d.contexts[<<e, a>>] \notin {None, "asked"}
      PROVE  Listed(d, e) # {}
  <2>1. Listed(c, e) # {}
    BY <1>1 DEF PagesInv
  <2> QED
    BY <2>1 DEF Wider
<1> QED
  BY <1>1 DEF PagesInv

\* The view of an event is replaced by one that lists as much.
LEMMA ViewSet ==
    ASSUME NEW c, PagesInv(c), NEW e \in Event, NEW v \in AdminPageType,
           Listed(c, e) \subseteq v.markets, v.markets \subseteq MarketsOf(e),
           NEW vs, vs = [c.views EXCEPT ![e] = v],
           NEW d, d = [c EXCEPT !.views = vs]
    PROVE  /\ PagesInv(d) /\ Wider(c, d) /\ Listed(d, e) = v.markets
           /\ d.store = c.store /\ d.contexts = c.contexts /\ d.resolutions = c.resolutions
<1>1. c \in PagesType
  BY DEF PagesInv
<1>2. vs \in [Event -> AdminPageType] /\ vs[e] = v /\ \A x \in Event \ {e} : vs[x] = c.views[x]
  BY <1>1 DEF PagesType
<1>3. /\ d \in PagesType /\ d.views = vs /\ d.store = c.store /\ d.contexts = c.contexts
      /\ d.resolutions = c.resolutions
  BY <1>1, <1>2 DEF PagesType
<1>4. /\ Listed(d, e) = v.markets /\ \A x \in Event \ {e} : Listed(d, x) = Listed(c, x)
  BY <1>2, <1>3 DEF Listed
<1>5. Wider(c, d)
  BY <1>4 DEF Wider
<1>6. \A x \in Event : /\ Listed(d, x) \subseteq MarketsOf(x)
                       /\ d.store.snapshots[x].markets \subseteq MarketsOf(x)
  BY <1>3, <1>4 DEF PagesInv
<1>7. PagesInv(d)
  BY <1>3, <1>5, <1>6, Widens
<1> QED
  BY <1>3, <1>4, <1>5, <1>7

\* mergeMarketSnapshots lists the markets of both.
LEMMA MergePageOf ==
    ASSUME NEW page1 \in AdminPageType, NEW ms \in SUBSET Market, NEW bare \in SUBSET Market
    PROVE  /\ MergePage(page1, ms, bare) \in AdminPageType
           /\ MergePage(page1, ms, bare).markets = page1.markets \cup ms
BY DEF MergePage, AdminPageType

\* The parts of a cache that the operations read.
LEMMA PageParts ==
    ASSUME NEW c, PagesInv(c), NEW e \in Event
    PROVE  /\ c \in PagesType /\ c.views[e] \in AdminPageType /\ Listed(c, e) \subseteq Market
           /\ Listed(c, e) \subseteq MarketsOf(e)
           /\ c.store.snapshots[e].markets \subseteq MarketsOf(e)
           /\ c.store.snapshots[e].bare \subseteq Market
           /\ MarketsOf(e) \subseteq Market
           /\ c.store.preferred[e] \in Market \cup {None}
<1>1. c \in PagesType
  BY DEF PagesInv
<1>2. c.store \in PageStore /\ c.views[e] \in AdminPageType
  BY <1>1 DEF PagesType
<1> QED
  BY <1>1, <1>2 DEF PagesInv, AdminPageType, MarketsOf, PageStore, Listed

LEMMA MergeStoredOf ==
    ASSUME NEW c, PagesInv(c), NEW e \in Event, NEW d, d = MergeStored(c, e)
    PROVE  /\ PagesInv(d) /\ Wider(c, d) /\ d.store = c.store /\ d.contexts = c.contexts
<1>1. PICK ms : ms = c.store.snapshots[e].markets
  OBVIOUS
<1>2. PICK bare : bare = c.store.snapshots[e].bare
  OBVIOUS
<1>3. PICK v : v = MergePage(c.views[e], ms, bare)
  OBVIOUS
<1>4. ms \in SUBSET Market /\ bare \in SUBSET Market /\ ms \subseteq MarketsOf(e)
      /\ c.views[e] \in AdminPageType /\ Listed(c, e) \subseteq MarketsOf(e)
  BY <1>1, <1>2, PageParts
<1>5. v \in AdminPageType /\ v.markets = Listed(c, e) \cup ms
  BY <1>3, <1>4, MergePageOf DEF Listed
<1>6. PICK vs : vs = [c.views EXCEPT ![e] = v]
  OBVIOUS
<1>7. d = [c EXCEPT !.views = vs]
  BY <1>1, <1>2, <1>3, <1>6 DEF MergeStored
<1> QED
  BY <1>4, <1>5, <1>6, <1>7, ViewSet

LEMMA EnsurePageOf ==
    ASSUME NEW c, PagesInv(c), NEW e \in Event, NEW ms \in SUBSET MarketsOf(e),
           Listed(c, e) \subseteq ms, NEW d, d = EnsurePage(c, e, ms)
    PROVE  /\ PagesInv(d) /\ Wider(c, d) /\ Listed(d, e) = ms
           /\ d.store = c.store /\ d.contexts = c.contexts
<1>1. c.views[e] \in AdminPageType /\ ms \subseteq Market
  BY PageParts
<1>2. PICK u : u = [c.views[e] EXCEPT !.markets = ms]
  OBVIOUS
<1>3. u \in AdminPageType /\ u.markets = ms
  BY <1>1, <1>2 DEF AdminPageType
<1>4. PICK v : v = [u EXCEPT !.bare = ms]
  OBVIOUS
<1>5. v \in AdminPageType /\ v.markets = ms
  BY <1>1, <1>3, <1>4 DEF AdminPageType
<1>6. PICK vs : vs = [c.views EXCEPT ![e] = v]
  OBVIOUS
<1>7. d = [c EXCEPT !.views = vs]
  <2>1. c \in PagesType
    BY DEF PagesInv
  <2> QED
    BY <1>2, <1>4, <1>6, <2>1 DEF EnsurePage, PagesType
<1> QED
  BY <1>5, <1>6, <1>7, ViewSet

\* Each operation of AdminViews in turn: it keeps the cache's invariant and lists
\* what was listed.
LEMMA AppliedMarket ==
    ASSUME NEW c, PagesInv(c), NEW e \in Event, NEW m \in MarketsOf(e),
           NEW d, d = ApplyMarketDetail(c, e, m)
    PROVE  /\ PagesInv(d) /\ Wider(c, d) /\ Listed(d, e) = MarketsOf(e)
           /\ d.contexts = c.contexts
<1>1. /\ c \in PagesType /\ c.views[e] \in AdminPageType /\ MarketsOf(e) \in SUBSET Market
      /\ Listed(c, e) \subseteq MarketsOf(e) /\ m \in Market
  BY PageParts
<1>2. PICK v : v = MergePage(c.views[e], MarketsOf(e), MarketsOf(e))
  OBVIOUS
<1>3. v \in AdminPageType /\ v.markets = MarketsOf(e)
  <2>1. v \in AdminPageType /\ v.markets = c.views[e].markets \cup MarketsOf(e)
    BY <1>1, <1>2, MergePageOf
  <2> QED
    BY <1>1, <2>1 DEF Listed
<1>4. PICK vs : vs = [c.views EXCEPT ![e] = v]
  OBVIOUS
<1>5. PICK ps : ps = [c.store.preferred EXCEPT ![e] = m]
  OBVIOUS
<1>6. PICK st : st = [c.store EXCEPT !.preferred = ps]
  OBVIOUS
<1>7. PICK rs : rs = [c.resolutions EXCEPT ![m] = "value"]
  OBVIOUS
<1>8. d = [c EXCEPT !.views = vs, !.resolutions = rs, !.store = st]
  BY <1>2, <1>4, <1>5, <1>6, <1>7 DEF ApplyMarketDetail
<1>9. vs \in [Event -> AdminPageType] /\ vs[e] = v /\ \A x \in Event \ {e} : vs[x] = c.views[x]
  BY <1>1, <1>3, <1>4 DEF PagesType
<1>10. rs \in [Market -> {"absent", "asked", "value"}]
  BY <1>1, <1>7 DEF PagesType
<1>11. st \in PageStore /\ st.snapshots = c.store.snapshots
  <2>1. c.store \in PageStore
    BY <1>1 DEF PagesType
  <2>2. ps \in [Event -> Market \cup {None}]
    BY <1>1, <1>5, <2>1 DEF PageStore
  <2> QED
    BY <1>6, <2>1, <2>2 DEF PageStore
<1>12. /\ d \in PagesType /\ d.views = vs /\ d.store = st /\ d.contexts = c.contexts
  BY <1>1, <1>8, <1>9, <1>10, <1>11 DEF PagesType
<1>13. /\ Listed(d, e) = MarketsOf(e) /\ \A x \in Event \ {e} : Listed(d, x) = Listed(c, x)
  BY <1>3, <1>9, <1>12 DEF Listed
<1>14. Wider(c, d)
  BY <1>1, <1>13 DEF Wider
<1>15. \A x \in Event : /\ Listed(d, x) \subseteq MarketsOf(x)
                        /\ d.store.snapshots[x].markets \subseteq MarketsOf(x)
  BY <1>11, <1>12, <1>13 DEF PagesInv
<1>16. PagesInv(d)
  BY <1>12, <1>14, <1>15, Widens
<1> QED
  BY <1>12, <1>13, <1>14, <1>16

LEMMA AppliedPage ==
    ASSUME NEW c, PagesInv(c), NEW e \in Event, NEW ms \in SUBSET MarketsOf(e),
           NEW bare \in SUBSET Market, NEW d, d = ApplyPageMarkets(c, e, ms, bare)
    PROVE  /\ PagesInv(d) /\ Wider(c, d) /\ d.contexts = c.contexts
<1>1. /\ c \in PagesType /\ c.views[e] \in AdminPageType /\ MarketsOf(e) \in SUBSET Market
      /\ Listed(c, e) \subseteq MarketsOf(e) /\ ms \in SUBSET Market
  BY PageParts
<1>2. PICK v : v = MergePage(c.views[e], ms, bare)
  OBVIOUS
<1>3. v \in AdminPageType /\ v.markets = Listed(c, e) \cup ms /\ v.bare \in SUBSET Market
  BY <1>1, <1>2, MergePageOf DEF Listed, AdminPageType
<1>4. PICK vs : vs = [c.views EXCEPT ![e] = v]
  OBVIOUS
<1>5. PICK ss : ss = [c.store.snapshots EXCEPT ![e] = [markets |-> v.markets, bare |-> v.bare]]
  OBVIOUS
<1>6. PICK st : st = [c.store EXCEPT !.snapshots = ss]
  OBVIOUS
<1>7. d = [c EXCEPT !.views = vs, !.store = st]
  BY <1>2, <1>4, <1>5, <1>6 DEF ApplyPageMarkets
<1>8. vs \in [Event -> AdminPageType] /\ vs[e] = v /\ \A x \in Event \ {e} : vs[x] = c.views[x]
  BY <1>1, <1>3, <1>4 DEF PagesType
<1>9. st \in PageStore /\ st.snapshots = ss
  <2>1. c.store \in PageStore
    BY <1>1 DEF PagesType
  <2>2. ss \in [Event -> [markets : SUBSET Market, bare : SUBSET Market]]
    BY <1>1, <1>3, <1>5, <2>1 DEF PageStore
  <2> QED
    BY <1>6, <2>1, <2>2 DEF PageStore
<1>10. /\ d \in PagesType /\ d.views = vs /\ d.store = st /\ d.contexts = c.contexts
  BY <1>1, <1>7, <1>8, <1>9 DEF PagesType
<1>11. /\ Listed(d, e) = Listed(c, e) \cup ms
       /\ \A x \in Event \ {e} : Listed(d, x) = Listed(c, x)
  BY <1>3, <1>8, <1>10 DEF Listed
<1>12. Wider(c, d)
  BY <1>11 DEF Wider
<1>13. \A x \in Event : Listed(d, x) \subseteq MarketsOf(x)
  BY <1>1, <1>11 DEF PagesInv
<1>14. ss[e].markets = v.markets /\ \A x \in Event \ {e} : ss[x] = c.store.snapshots[x]
  <2>1. c.store \in PageStore
    BY <1>1 DEF PagesType
  <2> QED
    BY <1>5, <2>1 DEF PageStore
<1>15. \A x \in Event : d.store.snapshots[x].markets \subseteq MarketsOf(x)
  BY <1>1, <1>3, <1>9, <1>10, <1>14 DEF PagesInv
<1>16. PagesInv(d)
  BY <1>10, <1>12, <1>13, <1>15, Widens
<1> QED
  BY <1>10, <1>12, <1>16

\* What is in flight of a page changes.
LEMMA PageListing ==
    ASSUME NEW c, PagesInv(c), NEW e \in Event, NEW b \in BOOLEAN,
           NEW d, d = [c EXCEPT !.views[e].listing = b]
    PROVE  PagesInv(d) /\ Wider(c, d) /\ d.contexts = c.contexts
<1>1. c \in PagesType /\ c.views[e] \in AdminPageType /\ Listed(c, e) \subseteq MarketsOf(e)
  BY PageParts
<1>2. PICK v : v = [c.views[e] EXCEPT !.listing = b]
  OBVIOUS
<1>3. v \in AdminPageType /\ v.markets = Listed(c, e)
  BY <1>1, <1>2 DEF AdminPageType, Listed
<1>4. PICK vs : vs = [c.views EXCEPT ![e] = v]
  OBVIOUS
<1>5. d = [c EXCEPT !.views = vs]
  BY <1>2, <1>4
<1> QED
  BY <1>1, <1>3, <1>4, <1>5, ViewSet

LEMMA PageResolutions ==
    ASSUME NEW c, PagesInv(c), NEW m \in Market, NEW r \in {"absent", "asked", "value"},
           NEW d, d = [c EXCEPT !.resolutions[m] = r]
    PROVE  PagesInv(d) /\ Wider(c, d) /\ d.contexts = c.contexts
<1>1. c \in PagesType
  BY DEF PagesInv
<1>2. PICK rs : rs = [c.resolutions EXCEPT ![m] = r]
  OBVIOUS
<1>3. rs \in [Market -> {"absent", "asked", "value"}]
  BY <1>1, <1>2 DEF PagesType
<1>4. d = [c EXCEPT !.resolutions = rs]
  BY <1>2
<1>5. /\ d \in PagesType /\ d.views = c.views /\ d.store = c.store /\ d.contexts = c.contexts
  BY <1>1, <1>3, <1>4 DEF PagesType
<1>6. \A x \in Event : Listed(d, x) = Listed(c, x)
  BY <1>5 DEF Listed
<1>7. Wider(c, d)
  BY <1>6 DEF Wider
<1>8. \A x \in Event : /\ Listed(d, x) \subseteq MarketsOf(x)
                       /\ d.store.snapshots[x].markets \subseteq MarketsOf(x)
  BY <1>5, <1>6 DEF PagesInv
<1>9. PagesInv(d)
  BY <1>5, <1>7, <1>8, Widens
<1> QED
  BY <1>5, <1>7, <1>9

\* An address is resolved, asked for or forgotten.
LEMMA PageContext ==
    ASSUME NEW c, PagesInv(c), NEW e \in Event, NEW asked \in Market \cup {None},
           NEW to \in Market \cup {None, "asked"},
           to \notin {None, "asked"} => Listed(c, e) # {},
           NEW d, d = WithContext(c, e, asked, to)
    PROVE  PagesInv(d) /\ Wider(c, d) /\ Listed(d, e) = Listed(c, e)
           /\ d.contexts[<<e, asked>>] = to /\ d.views = c.views
<1>1. c \in PagesType
  BY DEF PagesInv
<1>2. PICK cs : cs = [c.contexts EXCEPT ![<<e, asked>>] = to]
  OBVIOUS
<1>3. /\ cs \in [Event \X (Market \cup {None}) -> Market \cup {None, "asked"}]
      /\ cs[<<e, asked>>] = to
      /\ \A x \in Event, a \in Market \cup {None} :
            <<x, a>> # <<e, asked>> => cs[<<x, a>>] = c.contexts[<<x, a>>]
  BY <1>1, <1>2 DEF PagesType
<1>4. d = [c EXCEPT !.contexts = cs]
  BY <1>2 DEF WithContext
<1>5. /\ d \in PagesType /\ d.views = c.views /\ d.store = c.store /\ d.contexts = cs
  BY <1>1, <1>3, <1>4 DEF PagesType
<1>6. \A x \in Event : Listed(d, x) = Listed(c, x)
  BY <1>5 DEF Listed
<1>7. Wider(c, d)
  BY <1>6 DEF Wider
<1>8. \A x \in Event : /\ Listed(d, x) \subseteq MarketsOf(x)
                       /\ d.store.snapshots[x].markets \subseteq MarketsOf(x)
  BY <1>5, <1>6 DEF PagesInv
<1>9. ASSUME NEW x \in Event, NEW a \in Market \cup {None},
             d.contexts[<<x, a>>] \notin {None, "asked"}
      PROVE  Listed(d, x) # {}
  <2>1. CASE <<x, a>> = <<e, asked>>
    BY <1>3, <1>5, <1>6, <1>9, <2>1
  <2>2. CASE <<x, a>> # <<e, asked>>
    <3>1. c.contexts[<<x, a>>] \notin {None, "asked"}
      BY <1>3, <1>5, <1>9, <2>2
    <3> QED
      BY <1>6, <3>1 DEF PagesInv
  <2> QED
    BY <2>1, <2>2
<1>10. PagesInv(d)
  BY <1>5, <1>8, <1>9 DEF PagesInv
<1> QED
  BY <1>3, <1>5, <1>6, <1>7, <1>10

LEMMA PageAsked ==
    ASSUME NEW c, PagesInv(c), NEW e \in Event, NEW asked \in Market \cup {None},
           NEW d, d = WithContext(c, e, asked, "asked")
    PROVE  PagesInv(d) /\ Wider(c, d) /\ d.contexts[<<e, asked>>] = "asked"
<1>1. PICK to : to = "asked"
  OBVIOUS
<1>2. to \in Market \cup {None, "asked"} /\ (to \notin {None, "asked"} => Listed(c, e) # {})
  BY <1>1
<1>3. d = WithContext(c, e, asked, to)
  BY <1>1
<1>4. PagesInv(d) /\ Wider(c, d) /\ d.contexts[<<e, asked>>] = to
  BY <1>2, <1>3, PageContext
<1> QED
  BY <1>1, <1>4

LEMMA PageAnswered ==
    ASSUME NEW c, PagesInv(c), NEW e \in Event, NEW asked \in Market \cup {None},
           NEW to \in Market, Listed(c, e) # {}, NEW d, d = WithContext(c, e, asked, to)
    PROVE  PagesInv(d) /\ Wider(c, d) /\ Listed(d, e) = Listed(c, e)
<1>1. to \in Market \cup {None, "asked"} /\ (to \notin {None, "asked"} => Listed(c, e) # {})
  OBVIOUS
<1> QED
  BY <1>1, PageContext

LEMMA WiderOn ==
    ASSUME NEW c, NEW d, NEW x, Wider(c, d), Wider(d, x) PROVE Wider(c, x)
BY DEF Wider

LEMMA WiderSelf == ASSUME NEW c PROVE Wider(c, c)
BY DEF Wider

\* A page nothing is listed on takes its markets from the home feed.
LEMMA SeedPageOf ==
    ASSUME NEW c, PagesInv(c), NEW e \in Event, Listed(c, e) = {}, NEW d, d = SeedPage(c, e)
    PROVE  PagesInv(d) /\ Wider(c, d) /\ d.store = c.store /\ d.contexts = c.contexts
<1>1. CASE StoredFeed(c, e) = {}
  <2>1. d = c
    BY <1>1 DEF SeedPage
  <2> QED
    BY <2>1, WiderSelf
<1>2. CASE StoredFeed(c, e) # {}
  <2>1. PICK x : x = EnsurePage(c, e, StoredFeed(c, e))
    OBVIOUS
  <2>2. d = MergeStored(x, e)
    BY <1>2, <2>1 DEF SeedPage
  <2>3. StoredFeed(c, e) \in SUBSET MarketsOf(e)
    <3>1. c.store \in PageStore
      BY DEF PagesInv, PagesType
    <3> QED
      BY <3>1 DEF StoredFeed, MarketsOf, PageStore
  <2>4. PagesInv(x) /\ Wider(c, x) /\ x.store = c.store /\ x.contexts = c.contexts
    BY <2>1, <2>3, EnsurePageOf
  <2>5. PagesInv(d) /\ Wider(x, d) /\ d.store = x.store /\ d.contexts = x.contexts
    BY <2>2, <2>4, MergeStoredOf
  <2> QED
    BY <2>4, <2>5, WiderOn
<1> QED
  BY <1>1, <1>2

LEMMA FirstListed ==
    ASSUME NEW ms \in SUBSET Market, ms # {} PROVE First(ms) \in ms
BY FirstOf

LEMMA SelectedListed ==
    ASSUME NEW c, PagesInv(c), NEW e \in Event, NEW m, Listed(c, e) # {}
    PROVE  /\ SelectedOf(c, e, m) \in Listed(c, e) /\ SelectedOf(c, e, m) \in Market
           /\ PageView(c, e, m) \in PageViewType
           /\ PageView(c, e, m).event = e /\ PageView(c, e, m).list = Listed(c, e)
<1>1. Listed(c, e) \in SUBSET Market
  BY PageParts
<1>2. First(Listed(c, e)) \in Listed(c, e)
  BY <1>1, FirstListed
<1>3. SelectedOf(c, e, m) \in Listed(c, e)
  BY <1>2 DEF SelectedOf, Listed
<1> QED
  BY <1>1, <1>3 DEF PageView, PageViewType, Listed

LEMMA PreferredListed ==
    ASSUME NEW c, PagesInv(c), NEW e \in Event, Listed(c, e) # {}
    PROVE  PreferredOf(c, e) \in Market
<1>1. Listed(c, e) \in SUBSET Market /\ c.store.preferred[e] \in Market \cup {None}
  BY PageParts
<1>2. First(Listed(c, e)) \in Listed(c, e)
  BY <1>1, FirstListed
<1> QED
  BY <1>1, <1>2 DEF PreferredOf, Listed

LEMMA ProjectPageOf ==
    ASSUME NEW c, PagesInv(c), NEW e \in Event, NEW asked \in Market \cup {None},
           NEW p, p = ProjectPage(c, e, asked)
    PROVE  /\ PagesInv(p.cache) /\ Wider(c, p.cache) /\ p.cache.contexts = c.contexts
           /\ p.market # None => Listed(p.cache, e) # {}
<1>1. PICK seeded : seeded = IF c.views[e].markets # {} THEN c ELSE SeedPage(c, e)
  OBVIOUS
<1>2. PICK merged : merged = MergeStored(seeded, e)
  OBVIOUS
<1>3. PICK m : m = IF asked # None THEN asked ELSE PreferredOf(merged, e)
  OBVIOUS
<1>4. PagesInv(seeded) /\ Wider(c, seeded) /\ seeded.contexts = c.contexts
  <2>1. CASE Listed(c, e) # {}
    <3>1. seeded = c
      BY <1>1, <2>1 DEF Listed
    <3> QED
      BY <3>1, WiderSelf
  <2>2. CASE Listed(c, e) = {}
    <3>1. seeded = SeedPage(c, e)
      BY <1>1, <2>2 DEF Listed
    <3> QED
      BY <2>2, <3>1, SeedPageOf
  <2> QED
    BY <2>1, <2>2
<1>5. PagesInv(merged) /\ Wider(seeded, merged) /\ merged.contexts = c.contexts
  BY <1>2, <1>4, MergeStoredOf
<1>6. Wider(c, merged)
  BY <1>4, <1>5, WiderOn
<1>7. p = IF seeded.views[e].markets = {} THEN [cache |-> seeded, market |-> None]
          ELSE [cache |-> merged, market |-> IF m \in merged.views[e].markets THEN m ELSE None]
  BY <1>1, <1>2, <1>3, Zenon DEF ProjectPage
<1>8. CASE seeded.views[e].markets = {}
  <2>1. p.cache = seeded /\ p.market = None
    BY <1>7, <1>8
  <2> QED
    BY <1>4, <2>1
<1>9. CASE seeded.views[e].markets # {}
  <2>1. /\ p.cache = merged
        /\ p.market = IF m \in merged.views[e].markets THEN m ELSE None
    BY <1>7, <1>9
  <2>2. p.market # None => Listed(merged, e) # {}
    BY <2>1 DEF Listed
  <2> QED
    BY <1>5, <1>6, <2>1, <2>2
<1> QED
  BY <1>8, <1>9

\* Whatever an address resolved to, its event has markets by now.
LEMMA ResolvePageOf ==
    ASSUME NEW c, PagesInv(c), NEW e \in Event, NEW asked \in Listed(c, e) \cup {None},
           NEW d, d = ResolvePage(c, e, asked)
    PROVE  /\ PagesInv(d) /\ Wider(c, d)
           /\ d.contexts[<<e, asked>>] # "asked" => Listed(d, e) # {}
<1> DEFINE direct(x) == LET ms == x.views[e].markets IN
                        IF asked = None THEN ms # {} ELSE asked \in ms
           market(x) == IF asked = None THEN PreferredOf(x, e) ELSE asked
<1>1. PICK seeded : seeded = SeedPage(c, e)
  OBVIOUS
<1>a. Listed(c, e) \subseteq Market /\ asked \in Market \cup {None}
  BY PageParts
<1>2. d = IF c.contexts[<<e, asked>>] # None THEN c
          ELSE IF direct(c) THEN WithContext(c, e, asked, market(c))
          ELSE IF direct(seeded) THEN WithContext(seeded, e, asked, market(seeded))
          ELSE WithContext(seeded, e, asked, "asked")
  BY <1>1, Zenon DEF ResolvePage
<1>3. \A x : direct(x) => Listed(x, e) # {}
  BY DEF Listed
<1>4. ASSUME NEW x, PagesInv(x), direct(x), d = WithContext(x, e, asked, market(x)),
             Wider(c, x)
      PROVE  PagesInv(d) /\ Wider(c, d) /\ Listed(d, e) # {}
  <2>1. Listed(x, e) # {}
    BY <1>3, <1>4
  <2>2. market(x) \in Market
    <3>1. PreferredOf(x, e) \in Market
      BY <1>4, <2>1, PreferredListed
    <3> QED
      BY <1>a, <3>1
  <2> HIDE DEF market
  <2>3. PagesInv(d) /\ Wider(x, d) /\ Listed(d, e) = Listed(x, e)
    BY <1>4, <1>a, <2>1, <2>2, PageAnswered
  <2> QED
    BY <1>4, <2>1, <2>3, WiderOn
<1> HIDE DEF market
<1>5. CASE c.contexts[<<e, asked>>] # None
  <2>1. d = c
    BY <1>2, <1>5
  <2>2. c.contexts[<<e, asked>>] # "asked" => Listed(c, e) # {}
    BY <1>5, <1>a DEF PagesInv
  <2> QED
    BY <2>1, <2>2, WiderSelf
<1>6. CASE c.contexts[<<e, asked>>] = None /\ direct(c)
  <2>1. d = WithContext(c, e, asked, market(c))
    BY <1>2, <1>6
  <2> QED
    BY <1>4, <1>6, <2>1, WiderSelf
<1>7. CASE c.contexts[<<e, asked>>] = None /\ ~direct(c)
  <2>1. Listed(c, e) = {}
    BY <1>7 DEF Listed
  <2>2. PagesInv(seeded) /\ Wider(c, seeded)
    BY <1>1, <2>1, SeedPageOf
  <2>3. CASE direct(seeded)
    <3>1. d = WithContext(seeded, e, asked, market(seeded))
      BY <1>2, <1>7, <2>3
    <3> QED
      BY <1>4, <2>2, <2>3, <3>1
  <2>4. CASE ~direct(seeded)
    <3>1. d = WithContext(seeded, e, asked, "asked")
      BY <1>2, <1>7, <2>4
    <3>2. PagesInv(d) /\ Wider(seeded, d) /\ d.contexts[<<e, asked>>] = "asked"
      BY <1>a, <2>2, <3>1, PageAsked
    <3> QED
      BY <2>2, <3>2, WiderOn
  <2> QED
    BY <2>3, <2>4
<1> QED
  BY <1>5, <1>6, <1>7

LEMMA PageResolvedOf ==
    ASSUME NEW c, PagesInv(c), NEW e \in Event, NEW asked \in Market \cup {None},
           NEW m \in MarketsOf(e), NEW d, d = PageResolved(c, e, asked, m)
    PROVE  PagesInv(d) /\ Wider(c, d) /\ Listed(d, e) = MarketsOf(e)
<1>1. PICK x : x = EnsurePage(c, e, MarketsOf(e))
  OBVIOUS
<1>2. PICK y : y = ApplyMarketDetail(x, e, m)
  OBVIOUS
<1>3. d = WithContext(y, e, asked, m)
  BY <1>1, <1>2 DEF PageResolved
<1>4. PagesInv(x) /\ Wider(c, x)
  <2>1. Listed(c, e) \subseteq MarketsOf(e)
    BY PageParts
  <2> QED
    BY <1>1, <2>1, EnsurePageOf
<1>5. PagesInv(y) /\ Wider(x, y) /\ Listed(y, e) = MarketsOf(e)
  BY <1>2, <1>4, AppliedMarket
<1>6. m \in Market /\ MarketsOf(e) # {}
  BY DEF MarketsOf
<1>7. PagesInv(d) /\ Wider(y, d) /\ Listed(d, e) = Listed(y, e)
  BY <1>3, <1>5, <1>6, PageAnswered
<1> QED
  BY <1>4, <1>5, <1>7, WiderOn

LEMMA LoadPageMarketsOf ==
    ASSUME NEW c, PagesInv(c), NEW e \in Event, NEW d, d = LoadPageMarkets(c, e)
    PROVE  PagesInv(d) /\ Wider(c, d) /\ d.contexts = c.contexts
<1>1. PICK ms : ms = c.store.snapshots[e].markets
  OBVIOUS
<1>2. PICK bare : bare = c.store.snapshots[e].bare
  OBVIOUS
<1>3. PICK after : after = IF ms = {} THEN c ELSE ApplyPageMarkets(c, e, ms, bare)
  OBVIOUS
<1>4. PagesInv(after) /\ Wider(c, after) /\ after.contexts = c.contexts
  <2>1. CASE ms = {}
    BY <1>3, <2>1, WiderSelf
  <2>2. CASE ms # {}
    <3>1. ms \in SUBSET MarketsOf(e) /\ bare \in SUBSET Market
      BY <1>1, <1>2, PageParts
    <3>2. after = ApplyPageMarkets(c, e, ms, bare)
      BY <1>3, <2>2
    <3> QED
      BY <3>1, <3>2, AppliedPage
  <2> QED
    BY <2>1, <2>2
<1>5. d = IF c.views[e].bare = {} THEN c
          ELSE IF after.views[e].bare = {} THEN after
          ELSE [after EXCEPT !.views[e].listing = TRUE]
  BY <1>1, <1>2, <1>3, Zenon DEF LoadPageMarkets
<1>6. PICK x : x = [after EXCEPT !.views[e].listing = TRUE]
  OBVIOUS
<1>7. PagesInv(x) /\ Wider(after, x) /\ x.contexts = after.contexts
  BY <1>4, <1>6, PageListing
<1>8. d = c \/ d = after \/ d = x
  BY <1>5, <1>6
<1> QED
  BY <1>4, <1>7, <1>8, WiderOn, WiderSelf

LEMMA HydratePageOf ==
    ASSUME NEW c, PagesInv(c), NEW e \in Event, NEW m, Listed(c, e) # {},
           NEW d, d = HydratePage(c, e, m)
    PROVE  /\ PagesInv(d) /\ Wider(c, d) /\ d.contexts = c.contexts /\ Listed(d, e) # {}
<1>1. PICK x : x = LoadPageMarkets(c, e)
  OBVIOUS
<1>2. PICK n : n = SelectedOf(c, e, m)
  OBVIOUS
<1>3. d = LoadPageResolution(x, n)
  BY <1>1, <1>2 DEF HydratePage
<1>4. PagesInv(x) /\ Wider(c, x) /\ x.contexts = c.contexts
  BY <1>1, LoadPageMarketsOf
<1>5. n \in Market
  BY <1>2, SelectedListed
<1>6. PICK r : r = IF x.resolutions[n] = "absent" THEN "asked" ELSE x.resolutions[n]
  OBVIOUS
<1>7. r \in {"absent", "asked", "value"}
  BY <1>4, <1>5, <1>6 DEF PagesInv, PagesType
<1>8. d = [x EXCEPT !.resolutions[n] = r]
  BY <1>3, <1>6 DEF LoadPageResolution
<1>9. PagesInv(d) /\ Wider(x, d) /\ d.contexts = x.contexts
  BY <1>4, <1>5, <1>7, <1>8, PageResolutions
<1>10. Wider(c, d)
  BY <1>4, <1>9, WiderOn
<1> QED
  BY <1>4, <1>9, <1>10 DEF Wider

(***************************************************************************)
(* The invariant                                                           *)
(***************************************************************************)
Awaitable == {"rest", "markets", "resolution"}

AdminLoad ==
    [event : Event \cup {None}, asked : Market \cup {None}, market : Market \cup {None},
     keep : BOOLEAN, stage : {"resolving", "hydrating", "over"}, awaits : SUBSET Awaitable]

\* The latest load is of the event of the page, and a load that hydrates has
\* something to show.
AdminLoadsInv(c, ls, e) ==
    /\ ls \in Seq(AdminLoad)
    /\ \A v \in DOMAIN ls : /\ ls[v].stage # "over" => ls[v].event \in Event
                            /\ ls[v].stage = "hydrating" => Listed(c, ls[v].event) # {}
    /\ ls # <<>> /\ ls[Len(ls)].stage # "over" => ls[Len(ls)].event = e

NothingAsked(c) ==
    /\ \A e \in Event : ~c.views[e].listing
    /\ \A m \in Market : c.resolutions[m] # "asked"
    /\ \A e \in Event, a \in Market \cup {None} : c.contexts[<<e, a>>] # "asked"

DetailType == [status : {"loading", "ready", "error"}, data : {None} \cup PageViewType]

DetailOk(c, q, e) ==
    /\ q \in DetailType
    /\ q.data # None => /\ q.data \in PageViewType /\ q.data.market \in q.data.list
                        /\ q.data.list \subseteq Listed(c, q.data.event)
    /\ q.status = "ready" => q.data # None /\ q.data.event = e

\* What is shown of an event is still shown, with the markets there were.
KeepsShown(q, r, e) ==
    q.data # None /\ q.data.event = e
        => r.data # None /\ r.data.event = e /\ q.data.list \subseteq r.data.list

PlaceInv(c, p) ==
    /\ p \in [event : Event, selected : Market \cup {None}]
    /\ p.selected \in Listed(c, p.event) \cup {None}

ToolsType ==
    [creation : BOOLEAN, event : Event \cup {None}, open : BOOLEAN, initial : Tab, tab : Tab,
     slug : Market \cup {None}]

OperationsType ==
    [sent    : SUBSET [task : Tab, market : Market, mounted : BOOLEAN],
     results : SUBSET [task : Tab, market : Market]]

\* What the modal sends and shows is about the market it was asked for on, and
\* only one that was asked for on none has no market of its own.
OperationsInv ==
    /\ tools \in ToolsType /\ operations \in OperationsType
    /\ opened # None =>
          /\ tools.open = TRUE /\ tools.slug = opened
          /\ \A r \in operations.results : r.market = opened
          /\ \A o \in operations.sent : o.mounted = TRUE => o.market = opened
    /\ tools.open = TRUE /\ opened = None => tools.slug = None
    /\ tools.open = FALSE =>
          /\ opened = None /\ operations.results = {}
          /\ \A o \in operations.sent : o.mounted = FALSE

\* The page shows the market the modal is asked for on, open or not yet.
OpenedShown(q, e) ==
    tools.slug # None => q.data # None /\ q.data.event = e /\ tools.slug \in q.data.list

AdminInv ==
    /\ PagesInv(pages) /\ PlaceInv(pages, place)
    /\ AdminLoadsInv(pages, detailLoads, place.event)
    /\ detailLoads = <<>> => NothingAsked(pages)
    /\ DetailOk(pages, detail, place.event)
    /\ OperationsInv /\ OpenedShown(detail, place.event)
    /\ resolving \in {None} \cup [event : Event, for : {"creation", "bootstrap"}]

(***************************************************************************)
(* What a page shows                                                       *)
(***************************************************************************)
LEMMA ShowDetailOf ==
    ASSUME NEW c, PagesInv(c), NEW e \in Event, NEW m, Listed(c, e) # {},
           NEW q, q = ShowDetail(c, e, m)
    PROVE  /\ DetailOk(c, q, e) /\ q.data # None /\ q.data.event = e
           /\ q.data.list = Listed(c, e)
<1>1. PICK w : w = PageView(c, e, m)
  OBVIOUS
<1>2. w \in PageViewType /\ w.event = e /\ w.list = Listed(c, e) /\ w.market \in w.list
  BY <1>1, SelectedListed DEF PageView
<1>3. w # None
  BY <1>2, AdminDetailAssumption
<1>4. q = [status |-> "ready", data |-> w]
  BY <1>1 DEF ShowDetail
<1>5. q \in DetailType /\ q.data = w /\ q.status = "ready"
  BY <1>2, <1>4 DEF DetailType
<1> QED
  BY <1>2, <1>3, <1>5 DEF DetailOk

\* Showing the event again lists what was listed; so the market the modal is about
\* is still there.
LEMMA ShowKeeps ==
    ASSUME NEW c, NEW d, Wider(c, d), PagesInv(d), NEW p, NEW e \in Event, NEW m,
           DetailOk(c, p, e), Listed(d, e) # {}, NEW q, q = ShowDetail(d, e, m)
    PROVE  DetailOk(d, q, e) /\ KeepsShown(p, q, e)
<1>1. /\ DetailOk(d, q, e) /\ q.data # None /\ q.data.event = e /\ q.data.list = Listed(d, e)
  BY ShowDetailOf
<1>2. p.data # None /\ p.data.event = e => p.data.list \subseteq Listed(d, e)
  BY DEF DetailOk, Wider
<1> QED
  BY <1>1, <1>2 DEF KeepsShown

\* What is shown stays true of a cache that has learnt more.
LEMMA DetailKept ==
    ASSUME NEW c, NEW d, Wider(c, d), NEW p, NEW e, DetailOk(c, p, e)
    PROVE  DetailOk(d, p, e) /\ KeepsShown(p, p, e)
<1>1. p.data # None => /\ p.data \in PageViewType /\ p.data.market \in p.data.list
                       /\ p.data.list \subseteq Listed(d, p.data.event)
  BY DEF DetailOk, Wider, PageViewType
<1> QED
  BY <1>1 DEF DetailOk, KeepsShown

\* A load or its failure without anything to show.
LEMMA StatusKeeps ==
    ASSUME NEW c, NEW d, Wider(c, d), NEW p, NEW e, NEW f, DetailOk(c, p, e),
           NEW s \in {"loading", "error"}, NEW q, q = [p EXCEPT !.status = s]
    PROVE  DetailOk(d, q, f) /\ KeepsShown(p, q, f)
<1>1. p \in DetailType
  BY DEF DetailOk
<1>2. q \in DetailType /\ q.data = p.data /\ q.status # "ready"
  BY <1>1 DEF DetailType
<1>3. p.data # None => /\ p.data \in PageViewType /\ p.data.market \in p.data.list
                       /\ p.data.list \subseteq Listed(d, p.data.event)
  BY DEF DetailOk, Wider, PageViewType
<1> QED
  BY <1>2, <1>3 DEF DetailOk, KeepsShown

LEMMA OpenedKept ==
    ASSUME NEW p, NEW q, NEW e, OpenedShown(p, e), KeepsShown(p, q, e)
    PROVE  OpenedShown(q, e)
BY DEF OpenedShown, KeepsShown

LEMMA PlaceKept ==
    ASSUME NEW c, NEW d, Wider(c, d), NEW p, PlaceInv(c, p) PROVE PlaceInv(d, p)
BY DEF PlaceInv, Wider

LEMMA AdminLoadsKept ==
    ASSUME NEW c, NEW d, Wider(c, d), NEW ls, NEW e, AdminLoadsInv(c, ls, e)
    PROVE  AdminLoadsInv(d, ls, e)
<1>1. ASSUME NEW v \in DOMAIN ls, ls[v].stage = "hydrating"
      PROVE  Listed(d, ls[v].event) # {}
  <2>1. ls[v].event \in Event /\ Listed(c, ls[v].event) # {}
    BY <1>1 DEF AdminLoadsInv
  <2> QED
    BY <2>1 DEF Wider
<1> QED
  BY <1>1 DEF AdminLoadsInv

(***************************************************************************)
(* Loads                                                                   *)
(***************************************************************************)
LEMMA OverOf == Over \in AdminLoad /\ Over.stage = "over"
BY DEF Over, AdminLoad

\* A load that waits for less is over, or goes on with its event.
LEMMA SettleOf ==
    ASSUME NEW load \in AdminLoad, NEW awaits \in SUBSET Awaitable, NEW l, l = Settle(load, awaits)
    PROVE  /\ l \in AdminLoad
           /\ l = Over \/ (l.stage = load.stage /\ l.event = load.event)
<1>1. CASE awaits = {}
  BY <1>1, OverOf DEF Settle
<1>2. CASE awaits # {}
  <2>1. l = [load EXCEPT !.awaits = awaits]
    BY <1>2 DEF Settle
  <2> QED
    BY <2>1 DEF AdminLoad
<1> QED
  BY <1>1, <1>2

LEMMA HydrateOf ==
    ASSUME NEW c, PagesInv(c), NEW load \in AdminLoad, load.event \in Event,
           Listed(c, load.event) # {}, NEW m, NEW l, l = Hydrate(load, c, m)
    PROVE  /\ l \in AdminLoad
           /\ l = Over \/ (l.stage = "hydrating" /\ l.event = load.event)
<1>1. PICK n : n = SelectedOf(c, load.event, m)
  OBVIOUS
<1>2. n \in Market
  BY <1>1, SelectedListed
<1>3. PICK h : h = [Over EXCEPT !.event = load.event, !.market = n, !.stage = "hydrating"]
  OBVIOUS
<1>4. h \in AdminLoad /\ h.stage = "hydrating" /\ h.event = load.event
  <2>1. h = [event |-> load.event, asked |-> None, market |-> n, keep |-> FALSE,
             stage |-> "hydrating", awaits |-> {}]
    BY <1>3 DEF Over
  <2> QED
    BY <1>2, <2>1 DEF AdminLoad
<1>5. PICK awaits : awaits = Awaits(c, load.event, m)
  OBVIOUS
<1>6. awaits \in SUBSET Awaitable
  BY <1>5 DEF Awaits, Awaitable
<1>7. l = Settle(h, awaits)
  BY <1>1, <1>3, <1>5 DEF Hydrate
<1> QED
  BY <1>4, <1>6, <1>7, SettleOf

\* A new load is the latest.
LEMMA AdminLoadsAppended ==
    ASSUME NEW c, NEW d, Wider(c, d), NEW ls, NEW e, NEW f \in Event,
           AdminLoadsInv(c, ls, e), NEW l \in AdminLoad,
           l = Over \/ (l.event = f /\ (l.stage = "hydrating" => Listed(d, f) # {})),
           NEW ks, ks = Append(ls, l)
    PROVE  AdminLoadsInv(d, ks, f) /\ ks # <<>>
<1>1. ls \in Seq(AdminLoad)
  BY DEF AdminLoadsInv
<1>2. /\ ks \in Seq(AdminLoad) /\ Len(ks) = Len(ls) + 1 /\ ks # <<>>
      /\ ks[Len(ks)] = l /\ \A v \in DOMAIN ls : ks[v] = ls[v]
      /\ DOMAIN ks = DOMAIN ls \cup {Len(ks)}
  BY <1>1
<1>3. AdminLoadsInv(d, ls, e)
  BY AdminLoadsKept
<1>4. l.stage # "over" => l.event = f /\ (l.stage = "hydrating" => Listed(d, f) # {})
  BY OverOf
<1>5. ASSUME NEW v \in DOMAIN ks
      PROVE  /\ ks[v].stage # "over" => ks[v].event \in Event
             /\ ks[v].stage = "hydrating" => Listed(d, ks[v].event) # {}
  <2>1. CASE v \in DOMAIN ls
    BY <1>2, <1>3, <2>1 DEF AdminLoadsInv
  <2>2. CASE v = Len(ks)
    BY <1>2, <1>4, <2>2
  <2> QED
    BY <1>2, <2>1, <2>2
<1> QED
  BY <1>2, <1>4, <1>5 DEF AdminLoadsInv

\* An answer lets loads go on or end, and starts none.
LEMMA AdminLoadsMapped ==
    ASSUME NEW c, NEW d, Wider(c, d), NEW e, NEW ls, AdminLoadsInv(c, ls, e),
           NEW ks \in [DOMAIN ls -> AdminLoad],
           \A v \in DOMAIN ls :
              ks[v].stage # "over" =>
                  /\ ls[v].stage # "over" /\ ks[v].event = ls[v].event
                  /\ ks[v].stage = "hydrating" =>
                        ls[v].stage = "hydrating" \/ Listed(d, ls[v].event) # {}
    PROVE  AdminLoadsInv(d, ks, e) /\ (ks = <<>> => ls = <<>>) /\ Len(ks) = Len(ls)
<1>1. ls \in Seq(AdminLoad)
  BY DEF AdminLoadsInv
<1>2. ks \in Seq(AdminLoad) /\ Len(ks) = Len(ls) /\ DOMAIN ks = DOMAIN ls
  BY <1>1
<1>3. ks # <<>> => Len(ks) \in DOMAIN ks /\ ls # <<>>
  BY <1>1, <1>2
<1>4. AdminLoadsInv(d, ls, e)
  BY AdminLoadsKept
<1>5. ASSUME NEW v \in DOMAIN ks
      PROVE  /\ ks[v].stage # "over" => ks[v].event \in Event
             /\ ks[v].stage = "hydrating" => Listed(d, ks[v].event) # {}
  BY <1>2, <1>4, <1>5 DEF AdminLoadsInv
<1>6. ks # <<>> /\ ks[Len(ks)].stage # "over" => ks[Len(ks)].event = e
  BY <1>2, <1>3, <1>4 DEF AdminLoadsInv
<1>7. ks = <<>> => ls = <<>>
  BY <1>1, <1>2
<1> QED
  BY <1>2, <1>5, <1>6, <1>7 DEF AdminLoadsInv

\* loadDetail: what it shows is of its event, and takes no market off that event's
\* list.
LEMMA LoadAdminDetailOf ==
    ASSUME AdminInv, NEW e \in Event, NEW asked \in Listed(pages, e) \cup {None},
           LoadAdminDetail(e, asked)
    PROVE  /\ PagesInv(pages') /\ Wider(pages, pages')
           /\ AdminLoadsInv(pages', detailLoads', e) /\ detailLoads' # <<>>
           /\ DetailOk(pages', detail', e) /\ KeepsShown(detail, detail', e)
<1>1. PICK preserve \in BOOLEAN : preserve = (detail.data # None /\ detail.data.event = e)
  OBVIOUS
<1>2. PICK pr : pr = ProjectPage(pages, e, asked)
  OBVIOUS
<1>3. PICK rs : rs = ResolvePage(pr.cache, e, asked)
  OBVIOUS
<1>4. PICK m : m = rs.contexts[<<e, asked>>]
  OBVIOUS
<1>5. PICK load : load = [event |-> e, asked |-> asked, market |-> None,
                          keep |-> preserve \/ pr.market # None,
                          stage |-> "resolving", awaits |-> {}]
  OBVIOUS
<1>6. IF m = "asked"
      THEN /\ pages' = rs
           /\ detailLoads' = Append(detailLoads, load)
           /\ detail' = IF pr.market # None THEN ShowDetail(rs, e, pr.market)
                        ELSE IF preserve THEN detail ELSE [detail EXCEPT !.status = "loading"]
      ELSE /\ pages' = HydratePage(rs, e, m)
           /\ detailLoads' = Append(detailLoads, Hydrate(load, pages', m))
           /\ detail' = ShowDetail(rs, e, m)
  BY <1>1, <1>2, <1>3, <1>4, <1>5, Zenon DEF LoadAdminDetail
<1>7. /\ PagesInv(pages) /\ AdminLoadsInv(pages, detailLoads, place.event)
      /\ DetailOk(pages, detail, place.event)
  BY DEF AdminInv
<1>8. asked \in Market \cup {None}
  BY <1>7, PageParts
<1>9. /\ PagesInv(pr.cache) /\ Wider(pages, pr.cache)
      /\ pr.market # None => Listed(pr.cache, e) # {}
  BY <1>2, <1>7, <1>8, ProjectPageOf
<1>10. asked \in Listed(pr.cache, e) \cup {None}
  BY <1>9 DEF Wider
<1>11. /\ PagesInv(rs) /\ Wider(pr.cache, rs)
       /\ m # "asked" => Listed(rs, e) # {}
  BY <1>3, <1>4, <1>9, <1>10, ResolvePageOf
<1>12. Wider(pages, rs)
  BY <1>9, <1>11, WiderOn
<1>13. load \in AdminLoad /\ load.event = e /\ load.stage = "resolving"
  BY <1>5, <1>8 DEF AdminLoad
\* What is known of the event shown, whatever the page is.
<1>14. ASSUME NEW d, NEW n, NEW q, Wider(pages, d), PagesInv(d), Listed(d, e) # {},
              q = ShowDetail(d, e, n)
       PROVE  DetailOk(d, q, e) /\ KeepsShown(detail, q, e)
  <2>1. /\ DetailOk(d, q, e) /\ q.data # None /\ q.data.event = e /\ q.data.list = Listed(d, e)
    BY <1>14, ShowDetailOf
  <2>2. detail.data # None /\ detail.data.event = e => detail.data.list \subseteq Listed(d, e)
    BY <1>7, <1>14 DEF DetailOk, Wider
  <2> QED
    BY <2>1, <2>2 DEF KeepsShown
<1>15. CASE m = "asked"
  <2>1. pages' = rs /\ detailLoads' = Append(detailLoads, load)
    BY <1>6, <1>15
  <2>2. AdminLoadsInv(pages', detailLoads', e) /\ detailLoads' # <<>>
    BY <1>7, <1>12, <1>13, <2>1, AdminLoadsAppended
  <2>3. CASE pr.market # None
    <3>1. Listed(rs, e) # {}
      BY <1>9, <1>11, <2>3 DEF Wider
    <3>2. detail' = ShowDetail(rs, e, pr.market)
      BY <1>6, <1>15, <2>3
    <3> QED
      BY <1>11, <1>12, <1>14, <2>1, <2>2, <3>1, <3>2
  <2>4. CASE pr.market = None /\ preserve
    <3>1. detail' = detail
      BY <1>6, <1>15, <2>4
    <3>2. /\ DetailOk(rs, detail, place.event) /\ detail.data.event = e /\ detail.data # None
          /\ KeepsShown(detail, detail, e)
      BY <1>1, <1>7, <1>12, <2>4, DetailKept DEF KeepsShown
    <3>3. DetailOk(rs, detail, e)
      BY <3>2 DEF DetailOk
    <3> QED
      BY <1>11, <1>12, <2>1, <2>2, <3>1, <3>2, <3>3
  <2>5. CASE pr.market = None /\ ~preserve
    <3>1. PICK s \in {"loading", "error"} : s = "loading"
      OBVIOUS
    <3>2. PICK q : q = [detail EXCEPT !.status = s]
      OBVIOUS
    <3>3. detail' = q
      BY <1>6, <1>15, <2>5, <3>1, <3>2
    <3>4. DetailOk(rs, q, e) /\ KeepsShown(detail, q, e)
      BY <1>7, <1>12, <3>2, StatusKeeps
    <3> QED
      BY <1>11, <1>12, <2>1, <2>2, <3>3, <3>4
  <2> QED
    BY <2>3, <2>4, <2>5
<1>16. CASE m # "asked"
  <2>1. PICK d : d = HydratePage(rs, e, m)
    OBVIOUS
  <2>2. pages' = d /\ detail' = ShowDetail(rs, e, m)
        /\ detailLoads' = Append(detailLoads, Hydrate(load, d, m))
    BY <1>6, <1>16, <2>1
  <2>3. PagesInv(d) /\ Wider(rs, d) /\ Listed(d, e) # {} /\ Listed(rs, e) # {}
    BY <1>11, <1>16, <2>1, HydratePageOf
  <2>4. Wider(pages, d)
    BY <1>12, <2>3, WiderOn
  <2>5. PICK l : l = Hydrate(load, d, m)
    OBVIOUS
  <2>6. l \in AdminLoad /\ (l = Over \/ (l.stage = "hydrating" /\ l.event = e))
    BY <1>13, <2>3, <2>5, HydrateOf
  <2>7. AdminLoadsInv(pages', detailLoads', e) /\ detailLoads' # <<>>
    BY <1>7, <2>2, <2>3, <2>4, <2>5, <2>6, AdminLoadsAppended
  <2>8. DetailOk(rs, detail', e) /\ KeepsShown(detail, detail', e)
    BY <1>11, <1>12, <1>14, <2>2, <2>3
  <2>9. DetailOk(d, detail', e)
    BY <2>3, <2>8, DetailKept
  <2> QED
    BY <2>2, <2>3, <2>4, <2>7, <2>8, <2>9
<1> QED
  BY <1>15, <1>16

(***************************************************************************)
(* The steps of the page                                                   *)
(***************************************************************************)
\* A load of the event that is shown, whatever else of the page changes.
LEMMA LoadOfPlace ==
    ASSUME AdminInv, NEW asked \in Listed(pages, place.event) \cup {None},
           LoadAdminDetail(place.event, asked), place'.event = place.event,
           PlaceInv(pages, place'), OperationsInv', tools' = tools, resolving' = resolving
    PROVE  AdminInv'
<1>1. place.event \in Event /\ OpenedShown(detail, place.event)
  BY DEF AdminInv, PlaceInv
<1>2. /\ PagesInv(pages') /\ Wider(pages, pages')
      /\ AdminLoadsInv(pages', detailLoads', place.event) /\ detailLoads' # <<>>
      /\ DetailOk(pages', detail', place.event) /\ KeepsShown(detail, detail', place.event)
  BY <1>1, LoadAdminDetailOf
<1>3. PlaceInv(pages', place')
  BY <1>2, PlaceKept
<1>4. OpenedShown(detail', place.event)
  BY <1>1, <1>2, OpenedKept
<1>5. OpenedShown(detail, place.event)'
  BY <1>4 DEF OpenedShown
<1> QED
  BY <1>2, <1>3, <1>5 DEF AdminInv

\* One lemma per action, of the page first.
LEMMA OperationsKept ==
    ASSUME OperationsInv, UNCHANGED <<tools, operations, opened>> PROVE OperationsInv'
BY DEF OperationsInv

LEMMA SelectAdminStep ==
    ASSUME AdminInv, NEW m \in Market, SelectAdminMarket(m)
    PROVE  AdminInv'
<1>1. /\ m \in detail.data.list /\ detail.status = "ready"
      /\ place' = [place EXCEPT !.selected = m] /\ LoadAdminDetail(place.event, m)
      /\ UNCHANGED <<tools, resolving, operations, opened>>
  BY DEF SelectAdminMarket, Uncovered
<1>2. m \in Listed(pages, place.event)
  BY <1>1 DEF AdminInv, DetailOk
<1>3. PlaceInv(pages, place') /\ place'.event = place.event
  BY <1>1, <1>2 DEF AdminInv, PlaceInv
<1>4. OperationsInv'
  BY <1>1, OperationsKept DEF AdminInv
<1> QED
  BY <1>1, <1>2, <1>3, <1>4, LoadOfPlace

LEMMA ReloadsStep ==
    ASSUME AdminInv, MountDetail \/ RetryDetail
    PROVE  AdminInv'
<1>1. /\ UNCHANGED <<place, tools, resolving, operations, opened>>
      /\ \E a \in {None, place.selected} : LoadAdminDetail(place.event, a)
  BY DEF MountDetail, RetryDetail
<1>2. PICK a \in {None, place.selected} : LoadAdminDetail(place.event, a)
  BY <1>1
<1>3. PlaceInv(pages, place') /\ a \in Listed(pages, place.event) \cup {None}
  BY <1>1 DEF AdminInv, PlaceInv
<1>4. OperationsInv'
  BY <1>1, OperationsKept DEF AdminInv
<1> QED
  BY <1>1, <1>2, <1>3, <1>4, LoadOfPlace

\* The operations modal is gone with what it showed.
LEMMA UnmountedOf ==
    ASSUME operations \in OperationsType
    PROVE  /\ Unmounted \in OperationsType /\ Unmounted.results = {}
           /\ \A o \in Unmounted.sent : o.mounted = FALSE
<1>1. PICK sent : sent = {[o EXCEPT !.mounted = FALSE] : o \in operations.sent}
  OBVIOUS
<1>2. Unmounted = [NoOperations EXCEPT !.sent = sent]
  BY <1>1 DEF Unmounted
<1>3. Unmounted = [sent |-> sent, results |-> {}]
  BY <1>2 DEF NoOperations
<1>4. ASSUME NEW o \in sent
      PROVE  o \in [task : Tab, market : Market, mounted : BOOLEAN] /\ o.mounted = FALSE
  <2>1. PICK p \in operations.sent : o = [p EXCEPT !.mounted = FALSE]
    BY <1>1
  <2>2. p \in [task : Tab, market : Market, mounted : BOOLEAN]
    BY DEF OperationsType
  <2> QED
    BY <2>1, <2>2
<1> QED
  BY <1>3, <1>4 DEF OperationsType

LEMMA VisitAdminStep ==
    ASSUME AdminInv, NEW e \in Event, VisitAdminEvent(e)
    PROVE  AdminInv'
<1>1. tools \in ToolsType /\ operations \in OperationsType
  BY DEF AdminInv, OperationsInv
<1>2. LeaveTools \in ToolsType /\ LeaveTools.open = FALSE /\ LeaveTools.slug = None
  <2>1. PICK i \in Tab : i = tools.initial
    BY <1>1 DEF ToolsType
  <2>2. LeaveTools = [NoTools EXCEPT !.initial = i]
    BY <2>1 DEF LeaveTools
  <2>3. LeaveTools = [creation |-> FALSE, event |-> None, open |-> FALSE, initial |-> i,
                      tab |-> "set_prices", slug |-> None]
    BY <2>2 DEF NoTools
  <2> QED
    BY <2>3 DEF ToolsType, Tab
<1>3. /\ place' = [event |-> e, selected |-> None] /\ tools' = LeaveTools /\ opened' = None
      /\ operations' = Unmounted /\ LoadAdminDetail(e, None) /\ resolving' = resolving
  BY <1>2 DEF VisitAdminEvent
<1>4. OperationsInv'
  BY <1>1, <1>2, <1>3, UnmountedOf DEF OperationsInv
<1>5. /\ PagesInv(pages') /\ AdminLoadsInv(pages', detailLoads', e) /\ detailLoads' # <<>>
      /\ DetailOk(pages', detail', e)
  BY <1>3, LoadAdminDetailOf
<1>6. PlaceInv(pages', place') /\ place'.event = e
  BY <1>3 DEF PlaceInv
<1>7. OpenedShown(detail, place.event)'
  BY <1>2, <1>3 DEF OpenedShown
<1> QED
  BY <1>3, <1>4, <1>5, <1>6, <1>7 DEF AdminInv

(***************************************************************************)
(* Answers                                                                 *)
(***************************************************************************)
LEMMA AdminAnswer ==
    ASSUME AdminInv, UNCHANGED <<place, tools, resolving, operations, opened>>,
           PagesInv(pages'), Wider(pages, pages'),
           AdminLoadsInv(pages', detailLoads', place.event), detailLoads' # <<>>,
           DetailOk(pages', detail', place.event), KeepsShown(detail, detail', place.event)
    PROVE  AdminInv'
<1>1. OperationsInv'
  BY OperationsKept DEF AdminInv
<1>2. PlaceInv(pages', place')
  BY PlaceKept DEF AdminInv
<1>3. OpenedShown(detail', place.event)
  BY OpenedKept DEF AdminInv
<1>4. OpenedShown(detail, place.event)'
  BY <1>3 DEF OpenedShown
<1> QED
  BY <1>1, <1>2, <1>4 DEF AdminInv

\* The latest load, unless it is over, is of the event of the page.
LEMMA LastLoad ==
    ASSUME AdminInv, detailLoads # <<>>
    PROVE  /\ Len(detailLoads) \in DOMAIN detailLoads
           /\ detailLoads[Len(detailLoads)] \in AdminLoad
           /\ detailLoads[Len(detailLoads)].stage # "over" =>
                 detailLoads[Len(detailLoads)].event = place.event
           /\ detailLoads[Len(detailLoads)].stage = "hydrating" => Listed(pages, place.event) # {}
<1>1. detailLoads \in Seq(AdminLoad)
  BY DEF AdminInv, AdminLoadsInv
<1>2. Len(detailLoads) \in DOMAIN detailLoads
  BY <1>1
<1> QED
  BY <1>1, <1>2 DEF AdminInv, AdminLoadsInv

\* A late load publishes only while it is the latest, and so of the event shown.
LEMMA PublicationOf ==
    ASSUME AdminInv, detailLoads # <<>>, NEW c, PagesInv(c), Wider(pages, c),
           NEW ls, Len(ls) = Len(detailLoads), NEW preview,
           NEW q, q = Publication(c, ls, preview)
    PROVE  DetailOk(c, q, place.event) /\ KeepsShown(detail, q, place.event)
<1>1. PICK last : last = Len(detailLoads)
  OBVIOUS
<1>2. PICK load : load = detailLoads[last]
  OBVIOUS
<1>3. q = IF load.stage = "hydrating" /\ (ls[last] = Over \/ preview)
          THEN ShowDetail(c, load.event, load.market) ELSE detail
  BY <1>1, <1>2 DEF Publication
<1>4. DetailOk(pages, detail, place.event) /\ place.event \in Event
  BY DEF AdminInv, PlaceInv
<1>5. CASE load.stage = "hydrating" /\ (ls[last] = Over \/ preview)
  <2>1. load.event = place.event /\ Listed(pages, place.event) # {}
    BY <1>1, <1>2, <1>5, LastLoad
  <2>2. Listed(c, place.event) # {}
    BY <1>4, <2>1 DEF Wider
  <2>3. q = ShowDetail(c, place.event, load.market)
    BY <1>3, <1>5, <2>1
  <2> QED
    BY <1>4, <2>2, <2>3, ShowKeeps
<1>6. CASE ~(load.stage = "hydrating" /\ (ls[last] = Over \/ preview))
  <2>1. q = detail
    BY <1>3, <1>6
  <2> QED
    BY <1>4, <2>1, DetailKept
<1> QED
  BY <1>5, <1>6

LEMMA AnsweredOf ==
    ASSUME AdminInv, NEW c, Wider(pages, c), NEW kind, NEW e, NEW ms,
           NEW ls, ls = Answered(kind, e, ms)
    PROVE  /\ AdminLoadsInv(c, ls, place.event) /\ (ls = <<>> => detailLoads = <<>>)
           /\ Len(ls) = Len(detailLoads)
<1>1. AdminLoadsInv(pages, detailLoads, place.event)
  BY DEF AdminInv
<1>2. \A v \in DOMAIN detailLoads : detailLoads[v] \in AdminLoad
  BY <1>1 DEF AdminLoadsInv
<1>3. ASSUME NEW v \in DOMAIN detailLoads
      PROVE  /\ ls[v] \in AdminLoad
             /\ ls[v] = Over \/ (ls[v].stage = detailLoads[v].stage
                                 /\ ls[v].event = detailLoads[v].event)
  <2>1. PICK load \in AdminLoad : load = detailLoads[v]
    BY <1>2
  <2>2. PICK left : left = load.awaits \ {kind}
    OBVIOUS
  <2>3. left \in SUBSET Awaitable
    BY <2>1, <2>2 DEF AdminLoad
  <2>4. ls[v] = Settle(load, left) \/ ls[v] = load
    BY <2>1, <2>2 DEF Answered
  <2>5. PICK l : l = Settle(load, left)
    OBVIOUS
  <2>6. l \in AdminLoad /\ (l = Over \/ (l.stage = load.stage /\ l.event = load.event))
    BY <2>3, <2>5, SettleOf
  <2> QED
    BY <2>1, <2>4, <2>5, <2>6
<1>4. ls \in [DOMAIN detailLoads -> AdminLoad]
  BY <1>3 DEF Answered
<1>5. ASSUME NEW v \in DOMAIN detailLoads, ls[v].stage # "over"
      PROVE  /\ detailLoads[v].stage # "over" /\ ls[v].event = detailLoads[v].event
             /\ ls[v].stage = "hydrating" => detailLoads[v].stage = "hydrating"
  BY <1>3, <1>5, OverOf
<1> QED
  BY <1>1, <1>4, <1>5, AdminLoadsMapped

LEMMA PageMarketsStep ==
    ASSUME AdminInv, NEW e \in Event, NEW ok \in BOOLEAN, NEW priced \in BOOLEAN,
           PageMarketsRead(e, ok, priced)
    PROVE  AdminInv'
<1>1. PICK read : read = [pages EXCEPT !.views[e].listing = FALSE]
  OBVIOUS
<1>2. PICK last : last = detailLoads[Len(detailLoads)]
  OBVIOUS
<1>3. PICK preview : preview = (priced /\ last.event = e /\ "markets" \in last.awaits)
  OBVIOUS
<1>4. /\ pages.views[e].listing
      /\ pages' = IF ok THEN ApplyPageMarkets(read, e, MarketsOf(e), {}) ELSE read
      /\ detailLoads' = Answered("markets", e, MarketsOf(e))
      /\ detail' = Publication(pages', detailLoads', preview)
      /\ UNCHANGED <<place, tools, resolving, operations, opened>>
  BY <1>1, <1>2, <1>3, Zenon DEF PageMarketsRead
<1>5. detailLoads # <<>> /\ PagesInv(pages)
  BY <1>4 DEF AdminInv, NothingAsked
<1>6. PagesInv(read) /\ Wider(pages, read)
  BY <1>1, <1>5, PageListing
<1>7. PICK applied : applied = ApplyPageMarkets(read, e, MarketsOf(e), {})
  OBVIOUS
<1>8. PagesInv(applied) /\ Wider(read, applied)
  BY <1>6, <1>7, AppliedPage
<1>9. PICK c : c = pages'
  OBVIOUS
<1>10. PagesInv(c) /\ Wider(pages, c)
  BY <1>4, <1>6, <1>7, <1>8, <1>9, WiderOn
<1>11. PICK ls : ls = detailLoads'
  OBVIOUS
<1>12. /\ AdminLoadsInv(c, ls, place.event) /\ ls # <<>> /\ Len(ls) = Len(detailLoads)
  BY <1>4, <1>5, <1>10, <1>11, AnsweredOf
<1>13. PICK q : q = detail'
  OBVIOUS
<1>14. DetailOk(c, q, place.event) /\ KeepsShown(detail, q, place.event)
  <2>1. q = Publication(c, ls, preview)
    BY <1>4, <1>9, <1>11, <1>13
  <2> QED
    BY <1>5, <1>10, <1>12, <2>1, PublicationOf
<1> QED
  BY <1>4, <1>9, <1>10, <1>11, <1>12, <1>13, <1>14, AdminAnswer

LEMMA PageResolutionStep ==
    ASSUME AdminInv, NEW m \in Market, NEW ok \in BOOLEAN, PageResolutionRead(m, ok)
    PROVE  AdminInv'
<1>1. /\ pages.resolutions[m] = "asked"
      /\ pages' = IF ok THEN ApplyMarketDetail(pages, EventOf[m], m)
                  ELSE [pages EXCEPT !.resolutions[m] = "absent"]
      /\ detailLoads' = Answered("resolution", EventOf[m], {m})
      /\ detail' = Publication(pages', detailLoads', FALSE)
      /\ UNCHANGED <<place, tools, resolving, operations, opened>>
  BY Zenon DEF PageResolutionRead
<1>2. detailLoads # <<>> /\ PagesInv(pages)
  BY <1>1 DEF AdminInv, NothingAsked
<1>3. EventOf[m] \in Event /\ m \in MarketsOf(EventOf[m])
  BY SiteAssumption DEF MarketsOf
<1>4. PICK c : c = pages'
  OBVIOUS
<1>5. PagesInv(c) /\ Wider(pages, c)
  <2>1. CASE ok
    <3>1. c = ApplyMarketDetail(pages, EventOf[m], m)
      BY <1>1, <1>4, <2>1
    <3> QED
      BY <1>2, <1>3, <3>1, AppliedMarket
  <2>2. CASE ~ok
    <3>1. PICK r \in {"absent", "asked", "value"} : r = "absent"
      OBVIOUS
    <3>2. c = [pages EXCEPT !.resolutions[m] = r]
      BY <1>1, <1>4, <2>2, <3>1
    <3> QED
      BY <1>2, <3>2, PageResolutions
  <2> QED
    BY <2>1, <2>2
<1>6. PICK ls : ls = detailLoads'
  OBVIOUS
<1>7. AdminLoadsInv(c, ls, place.event) /\ ls # <<>> /\ Len(ls) = Len(detailLoads)
  BY <1>1, <1>2, <1>5, <1>6, AnsweredOf
<1>8. PICK q : q = detail'
  OBVIOUS
<1>9. DetailOk(c, q, place.event) /\ KeepsShown(detail, q, place.event)
  <2>1. q = Publication(c, ls, FALSE)
    BY <1>1, <1>4, <1>6, <1>8
  <2> QED
    BY <1>2, <1>5, <1>7, <2>1, PublicationOf
<1> QED
  BY <1>1, <1>4, <1>5, <1>6, <1>7, <1>8, <1>9, AdminAnswer

LEMMA PageRestStep ==
    ASSUME AdminInv, NEW v \in DOMAIN detailLoads, NEW liquidity \in BOOLEAN,
           PageRestRead(v, liquidity)
    PROVE  AdminInv'
<1>1. PICK ls : ls = detailLoads
  OBVIOUS
<1>2. PICK left : left = ls[v].awaits \ {"rest"}
  OBVIOUS
<1>3. PICK l : l = Settle(ls[v], left)
  OBVIOUS
<1>4. PICK ks : ks = [ls EXCEPT ![v] = l]
  OBVIOUS
<1>5. PICK preview : preview = (liquidity /\ v = Len(ls))
  OBVIOUS
<1>6. /\ detailLoads' = ks /\ detail' = Publication(pages, ks, preview)
      /\ UNCHANGED <<pages, place, tools, resolving, operations, opened>>
  BY <1>1, <1>2, <1>3, <1>4, <1>5 DEF PageRestRead
<1>7. PagesInv(pages) /\ Wider(pages, pages) /\ AdminLoadsInv(pages, ls, place.event)
      /\ v \in DOMAIN ls
  BY <1>1, WiderSelf DEF AdminInv
<1>8. ls \in Seq(AdminLoad) /\ ls # <<>> /\ \A u \in DOMAIN ls : ls[u] \in AdminLoad
  BY <1>7 DEF AdminLoadsInv
<1>9. left \in SUBSET Awaitable
  BY <1>2, <1>7, <1>8 DEF AdminLoad
<1>10. l \in AdminLoad /\ (l = Over \/ (l.stage = ls[v].stage /\ l.event = ls[v].event))
  BY <1>3, <1>7, <1>8, <1>9, SettleOf
<1>11. /\ ks \in [DOMAIN ls -> AdminLoad] /\ ks[v] = l
       /\ \A u \in DOMAIN ls \ {v} : ks[u] = ls[u]
  BY <1>4, <1>7, <1>8, <1>10
<1>12. ASSUME NEW u \in DOMAIN ls, ks[u].stage # "over"
       PROVE  /\ ls[u].stage # "over" /\ ks[u].event = ls[u].event
              /\ ks[u].stage = "hydrating" => ls[u].stage = "hydrating"
  BY <1>10, <1>11, <1>12, OverOf
<1>13. AdminLoadsInv(pages, ks, place.event) /\ ks # <<>> /\ Len(ks) = Len(ls)
  BY <1>7, <1>8, <1>11, <1>12, AdminLoadsMapped
<1>14. PICK q : q = detail'
  OBVIOUS
<1>15. DetailOk(pages, q, place.event) /\ KeepsShown(detail, q, place.event)
  BY <1>1, <1>6, <1>7, <1>8, <1>13, <1>14, PublicationOf
<1> QED
  BY <1>1, <1>6, <1>7, <1>13, <1>14, <1>15, AdminAnswer

LEMMA AdminReadStep ==
    ASSUME AdminInv, NEW e \in Event, NEW m \in MarketsOf(e),
           NEW asked \in MarketsOf(e) \cup {None}, AdminDetailRead(e, asked, m)
    PROVE  AdminInv'
<1>1. PICK x : x = PageResolved(pages, e, asked, m)
  OBVIOUS
<1>2. PICK c : c = HydratePage(x, e, m)
  OBVIOUS
<1>3. /\ pages.contexts[<<e, asked>>] = "asked"
      /\ pages' = c
      /\ detailLoads' = [v \in DOMAIN detailLoads |->
            IF Waits(v, e, asked) THEN Hydrate(detailLoads[v], c, m) ELSE detailLoads[v]]
      /\ detail' = IF Waits(Len(detailLoads), e, asked) THEN ShowDetail(c, e, m) ELSE detail
      /\ UNCHANGED <<place, tools, resolving, operations, opened>>
  BY <1>1, <1>2, Zenon DEF AdminDetailRead
<1>4. /\ asked \in Market \cup {None} /\ PagesInv(pages) /\ place.event \in Event
      /\ AdminLoadsInv(pages, detailLoads, place.event) /\ DetailOk(pages, detail, place.event)
  BY DEF MarketsOf, AdminInv, PlaceInv
<1>5. detailLoads # <<>>
  BY <1>3, <1>4 DEF AdminInv, NothingAsked
<1>6. PagesInv(x) /\ Wider(pages, x) /\ Listed(x, e) # {}
  BY <1>1, <1>4, PageResolvedOf
<1>7. PagesInv(c) /\ Wider(x, c) /\ Listed(c, e) # {}
  BY <1>2, <1>6, HydratePageOf
<1>8. Wider(pages, c)
  BY <1>6, <1>7, WiderOn
<1>9. PICK ks : ks = [v \in DOMAIN detailLoads |->
            IF Waits(v, e, asked) THEN Hydrate(detailLoads[v], c, m) ELSE detailLoads[v]]
  OBVIOUS
<1>10. ASSUME NEW v \in DOMAIN detailLoads
       PROVE  /\ ks[v] \in AdminLoad
              /\ ks[v].stage # "over" =>
                    /\ detailLoads[v].stage # "over" /\ ks[v].event = detailLoads[v].event
                    /\ ks[v].stage = "hydrating" =>
                          \/ detailLoads[v].stage = "hydrating"
                          \/ Listed(c, detailLoads[v].event) # {}
  <2>1. PICK load \in AdminLoad : load = detailLoads[v]
    BY <1>4 DEF AdminLoadsInv
  <2>2. CASE Waits(v, e, asked)
    <3>1. load.stage = "resolving" /\ load.event = e
      BY <2>1, <2>2 DEF Waits
    <3>2. PICK l : l = Hydrate(load, c, m)
      OBVIOUS
    <3>3. l \in AdminLoad /\ (l = Over \/ (l.stage = "hydrating" /\ l.event = e))
      BY <1>7, <3>1, <3>2, HydrateOf
    <3>4. ks[v] = l
      BY <1>9, <2>1, <2>2, <3>2
    <3> QED
      BY <1>7, <2>1, <3>1, <3>3, <3>4, OverOf
  <2>3. CASE ~Waits(v, e, asked)
    BY <1>9, <2>1, <2>3
  <2> QED
    BY <2>2, <2>3
<1>11. ks \in [DOMAIN detailLoads -> AdminLoad]
  BY <1>9, <1>10
<1>12. AdminLoadsInv(c, ks, place.event) /\ ks # <<>>
  BY <1>4, <1>5, <1>8, <1>10, <1>11, AdminLoadsMapped, SMTT(30)
<1>13. DetailOk(c, detail', place.event) /\ KeepsShown(detail, detail', place.event)
  <2>1. CASE Waits(Len(detailLoads), e, asked)
    <3>1. e = place.event
      BY <1>5, <2>1, LastLoad DEF Waits
    <3>2. detail' = ShowDetail(c, e, m)
      BY <1>3, <2>1
    <3> QED
      BY <1>4, <1>7, <1>8, <3>1, <3>2, ShowKeeps
  <2>2. CASE ~Waits(Len(detailLoads), e, asked)
    <3>1. detail' = detail
      BY <1>3, <2>2
    <3> QED
      BY <1>4, <1>8, <3>1, DetailKept
  <2> QED
    BY <2>1, <2>2
<1> QED
  BY <1>3, <1>7, <1>8, <1>9, <1>12, <1>13, AdminAnswer

LEMMA AdminFailsStep ==
    ASSUME AdminInv, NEW e \in Event, NEW asked \in Market \cup {None},
           AdminLoadFails(e, asked)
    PROVE  AdminInv'
<1>1. PICK last : last = Len(detailLoads)
  OBVIOUS
<1>2. PICK c : c = WithContext(pages, e, asked, None)
  OBVIOUS
<1>3. PICK q : q = [detail EXCEPT !.status = "error"]
  OBVIOUS
<1>4. /\ pages.contexts[<<e, asked>>] = "asked"
      /\ pages' = c
      /\ detailLoads' = [v \in DOMAIN detailLoads |->
            IF Waits(v, e, asked) THEN Over ELSE detailLoads[v]]
      /\ detail' = IF Waits(last, e, asked) /\ ~detailLoads[last].keep THEN q ELSE detail
      /\ UNCHANGED <<place, tools, resolving, operations, opened>>
  BY <1>1, <1>2, <1>3, Zenon DEF AdminLoadFails
<1>5. /\ PagesInv(pages)
      /\ AdminLoadsInv(pages, detailLoads, place.event) /\ DetailOk(pages, detail, place.event)
  BY DEF AdminInv
<1>6. detailLoads # <<>>
  BY <1>4, <1>5 DEF AdminInv, NothingAsked
<1>7. PagesInv(c) /\ Wider(pages, c)
  <2>1. PICK to \in Market \cup {None, "asked"} : to = None
    OBVIOUS
  <2>2. c = WithContext(pages, e, asked, to) /\ (to \notin {None, "asked"} => Listed(pages, e) # {})
    BY <1>2, <2>1
  <2> QED
    BY <1>5, <2>2, PageContext
<1>8. PICK ks : ks = [v \in DOMAIN detailLoads |->
            IF Waits(v, e, asked) THEN Over ELSE detailLoads[v]]
  OBVIOUS
<1>9. \A v \in DOMAIN detailLoads : detailLoads[v] \in AdminLoad
  BY <1>5 DEF AdminLoadsInv
<1>10. ASSUME NEW v \in DOMAIN detailLoads
       PROVE  ks[v] \in AdminLoad /\ (ks[v] = Over \/ ks[v] = detailLoads[v])
  BY <1>8, <1>9, OverOf
<1>11. ks \in [DOMAIN detailLoads -> AdminLoad]
  BY <1>8, <1>10
<1>12. ASSUME NEW v \in DOMAIN detailLoads, ks[v].stage # "over"
       PROVE  /\ detailLoads[v].stage # "over" /\ ks[v].event = detailLoads[v].event
              /\ ks[v].stage = "hydrating" => detailLoads[v].stage = "hydrating"
  BY <1>10, <1>12, OverOf
<1>13. AdminLoadsInv(c, ks, place.event) /\ ks # <<>>
  BY <1>5, <1>6, <1>7, <1>11, <1>12, AdminLoadsMapped
<1>14. DetailOk(c, q, place.event) /\ KeepsShown(detail, q, place.event)
  <2>1. PICK s \in {"loading", "error"} : s = "error"
    OBVIOUS
  <2>2. q = [detail EXCEPT !.status = s]
    BY <1>3, <2>1
  <2> QED
    BY <1>5, <1>7, <2>2, StatusKeeps
<1>15. DetailOk(c, detail, place.event) /\ KeepsShown(detail, detail, place.event)
  BY <1>5, <1>7, DetailKept
<1>16. detail' = q \/ detail' = detail
  BY <1>4
<1>17. DetailOk(c, detail', place.event) /\ KeepsShown(detail, detail', place.event)
  BY <1>14, <1>15, <1>16
<1> QED
  BY <1>4, <1>7, <1>8, <1>13, <1>17, AdminAnswer

(***************************************************************************)
(* The modals                                                              *)
(***************************************************************************)
\* The page and its loads stay as they are.
LEMMA ModalStep ==
    ASSUME AdminInv, UNCHANGED <<pages, place, detail, detailLoads>>, OperationsInv',
           OpenedShown(detail, place.event)',
           resolving' \in {None} \cup [event : Event, for : {"creation", "bootstrap"}]
    PROVE  AdminInv'
BY DEF AdminInv

\* The page can be clicked only when it is shown and the modal is not.
LEMMA Clickable ==
    ASSUME AdminInv, Uncovered
    PROVE  /\ detail.data # None /\ detail.data \in PageViewType
           /\ detail.data.event = place.event /\ detail.data.list \subseteq Market
           /\ detail.data.market \in detail.data.list
           /\ tools.open = FALSE /\ opened = None /\ operations.results = {}
           /\ \A o \in operations.sent : o.mounted = FALSE
<1>1. tools.open = FALSE
  BY DEF Uncovered, AdminInv, OperationsInv, ToolsType
<1>2. /\ detail.data # None /\ detail.data \in PageViewType /\ detail.data.event = place.event
      /\ detail.data.market \in detail.data.list
  BY DEF Uncovered, AdminInv, DetailOk
<1> QED
  BY <1>1, <1>2 DEF AdminInv, OperationsInv, PageViewType

\* The modals change, but not the market the operations modal is about.
LEMMA ToolsStep ==
    ASSUME AdminInv, tools' \in ToolsType,
           UNCHANGED <<pages, place, detail, detailLoads, operations, opened>>,
           tools'.slug = tools.slug, tools'.open = tools.open,
           resolving' \in {None} \cup [event : Event, for : {"creation", "bootstrap"}]
    PROVE  AdminInv'
<1>1. OperationsInv'
  BY DEF AdminInv, OperationsInv
<1>2. OpenedShown(detail, place.event)'
  BY DEF AdminInv, OpenedShown
<1> QED
  BY <1>1, <1>2, ModalStep

LEMMA CreationSteps ==
    ASSUME AdminInv, AddMarketToEvent \/ CloseCreation
    PROVE  AdminInv'
<1>1. tools \in ToolsType
  BY DEF AdminInv, OperationsInv
<1>2. PICK opens : opens = [tools EXCEPT !.creation = TRUE]
  OBVIOUS
<1>3. PICK closes : closes = [tools EXCEPT !.creation = FALSE]
  OBVIOUS
<1>4. /\ opens \in ToolsType /\ opens.open = tools.open /\ opens.slug = tools.slug
      /\ closes \in ToolsType /\ closes.open = tools.open /\ closes.slug = tools.slug
  BY <1>1, <1>2, <1>3 DEF ToolsType
<1>6. CASE AddMarketToEvent
  <2>1. detail.data.event \in Event
    BY <1>6, Clickable DEF AddMarketToEvent, PageViewType
  <2>2. /\ tools' \in {tools, opens}
        /\ resolving' = resolving \/ resolving' = [event |-> detail.data.event, for |-> "creation"]
        /\ UNCHANGED <<pages, place, detail, detailLoads, operations, opened>>
    BY <1>2, <1>6 DEF AddMarketToEvent
  <2>3. resolving' \in {None} \cup [event : Event, for : {"creation", "bootstrap"}]
    BY <2>1, <2>2 DEF AdminInv
  <2> QED
    BY <1>1, <1>4, <2>2, <2>3, ToolsStep
<1>7. CASE CloseCreation
  <2>1. /\ tools' = closes
        /\ UNCHANGED <<pages, place, detail, detailLoads, resolving, operations, opened>>
    BY <1>3, <1>7 DEF CloseCreation, ToolsChange
  <2>2. resolving' \in {None} \cup [event : Event, for : {"creation", "bootstrap"}]
    BY <2>1 DEF AdminInv
  <2> QED
    BY <1>4, <2>1, <2>2, ToolsStep
<1> QED
  BY <1>6, <1>7

LEMMA EditStep ==
    ASSUME AdminInv, NEW m \in Market, EditMarket(m)
    PROVE  AdminInv'
<1>1. PICK t : t = tools
  OBVIOUS
<1>2. /\ Uncovered /\ m \in detail.data.list /\ opened' = m
      /\ tools' = [t EXCEPT !.open = TRUE, !.initial = "set_prices",
                            !.tab = "set_prices", !.slug = m]
      /\ UNCHANGED <<pages, place, detail, detailLoads, resolving, operations>>
  BY <1>1 DEF EditMarket, ToolsChange
<1>3. t \in ToolsType /\ operations \in OperationsType
  BY <1>1 DEF AdminInv, OperationsInv
<1>4. tools' \in ToolsType /\ tools'.open = TRUE /\ tools'.slug = m
  BY <1>2, <1>3 DEF ToolsType, Tab
<1>5. /\ detail.data # None /\ detail.data.event = place.event /\ operations.results = {}
      /\ \A o \in operations.sent : o.mounted = FALSE
  BY <1>2, Clickable
<1>6. OperationsInv'
  BY <1>2, <1>3, <1>4, <1>5 DEF OperationsInv
<1>7. OpenedShown(detail, place.event)'
  BY <1>2, <1>4, <1>5 DEF OpenedShown
<1>8. resolving' \in {None} \cup [event : Event, for : {"creation", "bootstrap"}]
  BY <1>2 DEF AdminInv
<1> QED
  BY <1>2, <1>6, <1>7, <1>8, ModalStep

LEMMA BootstrapStep ==
    ASSUME AdminInv, BootstrapEventClicked
    PROVE  AdminInv'
<1>1. PICK t : t = tools
  OBVIOUS
<1>2. PICK w : w = detail.data
  OBVIOUS
<1>3. PICK asked : asked = [t EXCEPT !.initial = "bootstrap_event", !.slug = w.market]
  OBVIOUS
<1>4. /\ t \in ToolsType /\ Uncovered
  BY <1>1 DEF AdminInv, OperationsInv, BootstrapEventClicked
<1>5. /\ w \in PageViewType /\ w.market \in w.list /\ w # None /\ w.event = place.event
      /\ t.open = FALSE /\ opened = None /\ operations.results = {}
      /\ \A o \in operations.sent : o.mounted = FALSE
  BY <1>1, <1>2, <1>4, Clickable
<1>6. /\ asked \in ToolsType /\ asked.open = FALSE /\ asked.initial = "bootstrap_event"
      /\ asked.slug = w.market
  BY <1>3, <1>4, <1>5 DEF ToolsType, Tab, PageViewType
<1>7. PICK opens : opens = [asked EXCEPT !.open = TRUE, !.tab = asked.initial]
  OBVIOUS
<1>8. opens \in ToolsType /\ opens.open = TRUE /\ opens.slug = w.market
  BY <1>6, <1>7 DEF ToolsType, Tab
<1>9. /\ (tools' = opens /\ opened' = w.market) \/ (tools' = asked /\ opened' = opened)
      /\ resolving' = resolving \/ resolving' = [event |-> w.event, for |-> "bootstrap"]
      /\ UNCHANGED <<pages, place, detail, detailLoads, operations>>
  BY <1>1, <1>2, <1>3, <1>7, Zenon DEF BootstrapEventClicked
<1>10. resolving' \in {None} \cup [event : Event, for : {"creation", "bootstrap"}]
  BY <1>5, <1>9 DEF AdminInv, PageViewType
<1>11. operations \in OperationsType
  BY DEF AdminInv, OperationsInv
<1>12. OperationsInv'
  BY <1>5, <1>6, <1>8, <1>9, <1>11 DEF OperationsInv
<1>13. OpenedShown(detail, place.event)'
  BY <1>2, <1>5, <1>6, <1>8, <1>9 DEF OpenedShown
<1> QED
  BY <1>9, <1>10, <1>12, <1>13, ModalStep

LEMMA AdminEventSteps ==
    ASSUME AdminInv, AdminEventFound \/ AdminEventMissing
    PROVE  AdminInv'
<1>1. PICK t \in ToolsType : t = tools
  BY DEF AdminInv, OperationsInv
<1>2. OperationsInv /\ OpenedShown(detail, place.event)
  BY DEF AdminInv
<1>3. CASE AdminEventFound
  <2>1. PICK e \in Event : e = resolving.event
    BY <1>3 DEF AdminEventFound, AdminInv
  <2>2. PICK found : found = [t EXCEPT !.event = e]
    OBVIOUS
  <2>3. found \in ToolsType /\ found.open = t.open /\ found.slug = t.slug
    BY <2>2 DEF ToolsType
  <2>4. PICK creates :
            creates = [found EXCEPT !.creation = @ \/ resolving.for = "creation"]
    OBVIOUS
  <2>5. creates \in ToolsType /\ creates.open = t.open /\ creates.slug = t.slug
    BY <2>3, <2>4 DEF ToolsType
  <2>6. PICK tab \in Tab : tab = t.initial
    BY DEF ToolsType
  <2>7. PICK opens : opens = [found EXCEPT !.open = TRUE, !.tab = tab]
    OBVIOUS
  <2>8. opens \in ToolsType /\ opens.open = TRUE /\ opens.slug = t.slug
    BY <2>3, <2>7 DEF ToolsType
  <2>9. /\ \/ tools' = creates /\ opened' = opened
           \/ t.open # TRUE /\ tools' = opens /\ opened' = t.slug
        /\ resolving' = None
        /\ UNCHANGED <<pages, place, detail, detailLoads, operations>>
    BY <1>1, <1>3, <2>1, <2>2, <2>4, <2>6, <2>7 DEF AdminEventFound
  <2>10. CASE tools' = creates /\ opened' = opened
    BY <1>1, <2>5, <2>9, <2>10, ToolsStep
  <2>11. CASE t.open # TRUE /\ tools' = opens /\ opened' = t.slug
    <3>1. t.open = FALSE
      BY <2>11 DEF ToolsType
    <3>2. OperationsInv'
      BY <1>1, <1>2, <2>8, <2>9, <2>11, <3>1 DEF OperationsInv
    <3>3. OpenedShown(detail, place.event)'
      BY <1>1, <1>2, <2>8, <2>9, <2>11 DEF OpenedShown
    <3> QED
      BY <2>9, <3>2, <3>3, ModalStep
  <2> QED
    BY <2>9, <2>10, <2>11
<1>4. CASE AdminEventMissing
  BY <1>1, <1>4, ToolsStep DEF AdminEventMissing
<1> QED
  BY <1>3, <1>4

LEMMA SwitchStep ==
    ASSUME AdminInv, NEW tab \in Tab, SwitchTab(tab)
    PROVE  AdminInv'
<1>1. PICK t \in ToolsType : t = tools
  BY DEF AdminInv, OperationsInv
<1>2. PICK u : u = [t EXCEPT !.tab = tab]
  OBVIOUS
<1>3. u \in ToolsType /\ u.open = t.open /\ u.slug = t.slug
  BY <1>2 DEF ToolsType
<1>4. /\ tools' = u
      /\ UNCHANGED <<pages, place, detail, detailLoads, resolving, operations, opened>>
  BY <1>1, <1>2 DEF SwitchTab, ToolsChange
<1>5. resolving' \in {None} \cup [event : Event, for : {"creation", "bootstrap"}]
  BY <1>4 DEF AdminInv
<1> QED
  BY <1>1, <1>3, <1>4, <1>5, ToolsStep

LEMMA CloseStep ==
    ASSUME AdminInv, CloseOperations
    PROVE  AdminInv'
<1>1. PICK t \in ToolsType : t = tools
  BY DEF AdminInv, OperationsInv
<1>2. PICK u : u = [t EXCEPT !.open = FALSE, !.tab = NoTools.tab, !.slug = None]
  OBVIOUS
<1>3. NoTools.tab \in Tab
  BY DEF NoTools, Tab
<1>4. u \in ToolsType /\ u.open = FALSE /\ u.slug = None
  BY <1>2, <1>3 DEF ToolsType
<1>5. /\ tools' = u /\ operations' = Unmounted /\ opened' = None
      /\ UNCHANGED <<pages, place, detail, detailLoads, resolving>>
  BY <1>1, <1>2 DEF CloseOperations
<1>6. OperationsInv'
  BY <1>4, <1>5, UnmountedOf DEF AdminInv, OperationsInv
<1>7. OpenedShown(detail, place.event)'
  BY <1>4, <1>5 DEF OpenedShown
<1>8. resolving' \in {None} \cup [event : Event, for : {"creation", "bootstrap"}]
  BY <1>5 DEF AdminInv
<1> QED
  BY <1>5, <1>6, <1>7, <1>8, ModalStep

\* With the modal opened on a market, that market is the one it is given.
LEMMA ActiveIsOpened ==
    ASSUME AdminInv, OperationsShown
    PROVE  /\ ActiveMarket \in Market
           /\ opened # None => ActiveMarket = opened
<1>1. detail.data \in PageViewType
  BY DEF OperationsShown, AdminInv, DetailOk
<1>2. detail.data.list \subseteq Market /\ detail.data.market \in Market
  BY <1>1 DEF PageViewType
<1>3. opened # None => tools.slug = opened /\ opened \in detail.data.list
  BY DEF AdminInv, OperationsInv, OpenedShown
<1> QED
  BY <1>2, <1>3 DEF ActiveMarket

LEMMA SubmitStep ==
    ASSUME AdminInv, NEW form, SubmitOperation(form)
    PROVE  AdminInv'
<1>1. PICK p \in OperationsType : p = operations
  BY DEF AdminInv, OperationsInv
<1>2. PICK task \in Tab : task = tools.tab
  BY DEF AdminInv, OperationsInv, ToolsType
<1>3. PICK m : m = ActiveMarket
  OBVIOUS
<1>4. OperationsShown
  BY DEF SubmitOperation
<1>5. m \in Market /\ (opened # None => m = opened)
  BY <1>3, <1>4, ActiveIsOpened
<1>6. PICK o \in [task : Tab, market : Market, mounted : BOOLEAN] :
          o = [task |-> task, market |-> m, mounted |-> TRUE]
  BY <1>5
<1>7. PICK sent : sent = p.sent \cup {o}
  OBVIOUS
<1>8. /\ operations' = [p EXCEPT !.sent = sent]
      /\ UNCHANGED <<pages, place, detail, detailLoads, tools, resolving, opened>>
  BY <1>1, <1>2, <1>3, <1>6, <1>7 DEF SubmitOperation
<1>9. /\ operations' \in OperationsType /\ operations'.results = p.results
      /\ operations'.sent = p.sent \cup {o}
  <2>1. sent \in SUBSET [task : Tab, market : Market, mounted : BOOLEAN]
    BY <1>7 DEF OperationsType
  <2> QED
    BY <1>7, <1>8, <2>1 DEF OperationsType
<1>10. tools.open # FALSE
  BY <1>4 DEF OperationsShown
<1>a. OperationsInv /\ o.market = m
  BY <1>6 DEF AdminInv
<1>b. opened # None => \A x \in operations'.sent : x.mounted = TRUE => x.market = opened
  BY <1>1, <1>5, <1>9, <1>a DEF OperationsInv
<1>11. OperationsInv'
  BY <1>1, <1>8, <1>9, <1>10, <1>a, <1>b DEF OperationsInv
<1>12. OpenedShown(detail, place.event)'
  BY <1>8 DEF AdminInv, OpenedShown
<1>13. resolving' \in {None} \cup [event : Event, for : {"creation", "bootstrap"}]
  BY <1>8 DEF AdminInv
<1> QED
  BY <1>8, <1>11, <1>12, <1>13, ModalStep

LEMMA AppliedStep ==
    ASSUME AdminInv, NEW o \in operations.sent, OperationApplied(o)
    PROVE  AdminInv'
<1>1. PICK p \in OperationsType : p = operations
  BY DEF AdminInv, OperationsInv
<1>2. PICK sent : sent = p.sent \ {o}
  OBVIOUS
<1>3. PICK results : results = IF o.mounted THEN Shown(o) ELSE p.results
  OBVIOUS
<1>4. /\ operations' = [p EXCEPT !.sent = sent, !.results = results]
      /\ LoadAdminDetail(place.event, place.selected)
      /\ UNCHANGED <<place, tools, resolving, opened>>
  BY <1>1, <1>2, <1>3, Zenon DEF OperationApplied
<1>5. o \in [task : Tab, market : Market, mounted : BOOLEAN] /\ o \in p.sent
  BY <1>1 DEF OperationsType
<1>6. /\ results \in SUBSET [task : Tab, market : Market]
      /\ \A r \in results : r \in p.results \/ (o.mounted = TRUE /\ r.market = o.market)
  <2>1. CASE o.mounted
    <3>1. results = {r \in p.results : r.task # o.task}
                        \cup {[task |-> o.task, market |-> o.market]}
      BY <1>1, <1>3, <2>1 DEF Shown
    <3> QED
      BY <1>5, <2>1, <3>1 DEF OperationsType
  <2>2. CASE ~o.mounted
    BY <1>3, <2>2 DEF OperationsType
  <2> QED
    BY <2>1, <2>2
<1>7. sent \in SUBSET [task : Tab, market : Market, mounted : BOOLEAN]
  BY <1>2 DEF OperationsType
<1>8. /\ operations' \in OperationsType /\ operations'.sent = p.sent \ {o}
      /\ operations'.results = results
  BY <1>2, <1>4, <1>6, <1>7 DEF OperationsType
<1>9. OperationsInv
  BY DEF AdminInv
<1>10. tools.open = FALSE => operations'.results = {}
  <2>1. tools.open = FALSE => p.results = {} /\ o.mounted = FALSE
    BY <1>1, <1>5, <1>9 DEF OperationsInv
  <2> QED
    BY <1>6, <1>8, <2>1
<1>11. opened # None => \A r \in operations'.results : r.market = opened
  BY <1>1, <1>5, <1>6, <1>8, <1>9 DEF OperationsInv
<1>12. OperationsInv'
  BY <1>1, <1>4, <1>8, <1>9, <1>10, <1>11 DEF OperationsInv
<1>13. PlaceInv(pages, place') /\ place.selected \in Listed(pages, place.event) \cup {None}
  BY <1>4 DEF AdminInv, PlaceInv
<1> QED
  BY <1>4, <1>12, <1>13, LoadOfPlace

LEMMA OperationFailsStep ==
    ASSUME AdminInv, NEW o \in operations.sent, OperationFails(o)
    PROVE  AdminInv'
<1>1. PICK p \in OperationsType : p = operations
  BY DEF AdminInv, OperationsInv
<1>2. PICK sent : sent = p.sent \ {o}
  OBVIOUS
<1>3. /\ operations' = [p EXCEPT !.sent = sent]
      /\ UNCHANGED <<pages, place, detail, detailLoads, tools, resolving, opened>>
  BY <1>1, <1>2 DEF OperationFails
<1>4. /\ operations' \in OperationsType /\ operations'.sent = p.sent \ {o}
      /\ operations'.results = p.results
  BY <1>2, <1>3 DEF OperationsType
<1>5. OperationsInv'
  BY <1>1, <1>3, <1>4 DEF AdminInv, OperationsInv
<1>6. OpenedShown(detail, place.event)'
  BY <1>3 DEF AdminInv, OpenedShown
<1>7. resolving' \in {None} \cup [event : Event, for : {"creation", "bootstrap"}]
  BY <1>3 DEF AdminInv
<1> QED
  BY <1>3, <1>5, <1>6, <1>7, ModalStep

\* The page starts with nothing asked and the modal closed.
LEMMA AdminStart == AdminDetailInit => AdminInv
<1> SUFFICES ASSUME AdminDetailInit PROVE AdminInv
  OBVIOUS
<1>1. PICK store \in AdminStores : pages = FreshPages(store)
  BY DEF AdminDetailInit
<1>2. PICK e \in Event : place = [event |-> e, selected |-> None]
  BY DEF AdminDetailInit
<1>3. /\ detail = [status |-> "loading", data |-> None] /\ detailLoads = <<>>
      /\ tools = NoTools /\ resolving = None /\ operations = NoOperations /\ opened = None
  BY DEF AdminDetailInit
<1>4. /\ store \in PageStore
      /\ \A x \in Event : store.snapshots[x].markets \subseteq MarketsOf(x)
  BY AdminDetailAssumption
<1>5. EmptyPage \in AdminPageType /\ EmptyPage.markets = {} /\ EmptyPage.listing = FALSE
  BY DEF EmptyPage, AdminPageType
<1>6. /\ pages \in PagesType /\ pages.store = store
      /\ \A x \in Event : pages.views[x] = EmptyPage
      /\ \A m \in Market : pages.resolutions[m] = "absent"
      /\ \A x \in Event, a \in Market \cup {None} : pages.contexts[<<x, a>>] = None
  BY <1>1, <1>4, <1>5 DEF FreshPages, PagesType
<1>7. PagesInv(pages)
  BY <1>4, <1>5, <1>6 DEF PagesInv, Listed
<1>8. PlaceInv(pages, place)
  BY <1>2 DEF PlaceInv
<1>9. AdminLoadsInv(pages, detailLoads, place.event)
  BY <1>3 DEF AdminLoadsInv
<1>10. NothingAsked(pages)
  BY <1>5, <1>6, AdminDetailAssumption DEF NothingAsked
<1>11. DetailOk(pages, detail, place.event) /\ OpenedShown(detail, place.event)
  BY <1>3 DEF DetailOk, DetailType, OpenedShown, NoTools
<1>12. OperationsInv
  <2>1. tools \in ToolsType /\ tools.open = FALSE
    BY <1>3 DEF NoTools, ToolsType, Tab
  <2>2. operations \in OperationsType /\ operations.sent = {} /\ operations.results = {}
    BY <1>3 DEF NoOperations, OperationsType
  <2> QED
    BY <1>3, <2>1, <2>2 DEF OperationsInv
<1> QED
  BY <1>3, <1>7, <1>8, <1>9, <1>10, <1>11, <1>12 DEF AdminInv

LEMMA AdminStays ==
    ASSUME AdminInv, UNCHANGED detailVars PROVE AdminInv'
<1>1. UNCHANGED <<pages, place, detail, detailLoads, tools, resolving, operations, opened>>
  BY DEF detailVars
<1>2. OperationsInv'
  BY <1>1, OperationsKept DEF AdminInv
<1>3. OpenedShown(detail, place.event)'
  BY <1>1 DEF AdminInv, OpenedShown
<1>4. resolving' \in {None} \cup [event : Event, for : {"creation", "bootstrap"}]
  BY <1>1 DEF AdminInv
<1> QED
  BY <1>1, <1>2, <1>3, <1>4, ModalStep

\* Every action keeps the invariant.
LEMMA AdminSteps == AdminInv /\ [AdminDetailNext]_detailVars => AdminInv'
<1> SUFFICES ASSUME AdminInv, [AdminDetailNext]_detailVars PROVE AdminInv'
  OBVIOUS
<1>1. CASE UNCHANGED detailVars
  BY <1>1, AdminStays
<1>2. CASE MountDetail \/ RetryDetail
  BY <1>2, ReloadsStep
<1>3. CASE \E e \in Event : VisitAdminEvent(e)
  BY <1>3, VisitAdminStep
<1>4. CASE \E m \in Market : SelectAdminMarket(m) \/ EditMarket(m)
  BY <1>4, SelectAdminStep, EditStep
<1>5. CASE \E e \in Event : \E m \in MarketsOf(e), asked \in MarketsOf(e) \cup {None} :
              AdminDetailRead(e, asked, m)
  BY <1>5, AdminReadStep
<1>6. CASE \E e \in Event : \E asked \in Market \cup {None} : AdminLoadFails(e, asked)
  BY <1>6, AdminFailsStep
<1>7. CASE \E m \in Market, ok \in BOOLEAN : PageResolutionRead(m, ok)
  BY <1>7, PageResolutionStep
<1>8. CASE \E e \in Event, ok \in BOOLEAN, priced \in BOOLEAN : PageMarketsRead(e, ok, priced)
  BY <1>8, PageMarketsStep
<1>9. CASE \E v \in DOMAIN detailLoads, liquidity \in BOOLEAN : PageRestRead(v, liquidity)
  BY <1>9, PageRestStep
<1>10. CASE AddMarketToEvent \/ CloseCreation
  BY <1>10, CreationSteps
<1>11. CASE BootstrapEventClicked
  BY <1>11, BootstrapStep
<1>12. CASE AdminEventFound \/ AdminEventMissing
  BY <1>12, AdminEventSteps
<1>13. CASE \E tab \in Tab : SwitchTab(tab)
  BY <1>13, SwitchStep
<1>14. CASE CloseOperations
  BY <1>14, CloseStep
<1>15. CASE \E form \in PriceForm \cup LiquidityForm : SubmitOperation(form)
  BY <1>15, SubmitStep
<1>16. CASE \E o \in operations.sent : OperationApplied(o) \/ OperationFails(o)
  BY <1>16, AppliedStep, OperationFailsStep
<1>17. AdminDetailNext \/ UNCHANGED detailVars
  OBVIOUS
<1> QED
  BY <1>1, <1>2, <1>3, <1>4, <1>5, <1>6, <1>7, <1>8, <1>9, <1>10, <1>11, <1>12, <1>13,
     <1>14, <1>15, <1>16, <1>17, Zenon DEF AdminDetailNext

\* For any events, loads and answers: as long as the operations modal is open on
\* a market it was asked for on, whether at once or by a look-up, the page shows
\* that market's event, the modal is given that market, and the answers under it
\* are about it; and a modal open on no such market was opened by a look-up that
\* outlived the market it was asked on.
THEOREM OperationsGoWhereOpened == AdminDetailSpec => []OperatesOnWhatWasOpened
<1>1. AdminInv => OperatesOnWhatWasOpened
  <2>0. AdminInv => (tools.open /\ opened = None => tools.slug = None)
    BY DEF AdminInv, OperationsInv, ToolsType
  <2> SUFFICES ASSUME AdminInv, opened # None
               PROVE  /\ OperationsShown /\ ActiveMarket = opened
                      /\ detail.data.event = place.event
                      /\ \A r \in operations.results : r.market = opened
    BY <2>0 DEF OperatesOnWhatWasOpened
  <2>1. tools.open /\ \A r \in operations.results : r.market = opened
    BY DEF AdminInv, OperationsInv
  <2>2. detail.data # None /\ detail.data.event = place.event
    BY DEF AdminInv, OperationsInv, OpenedShown
  <2>3. OperationsShown
    BY <2>1, <2>2 DEF OperationsShown
  <2>4. ActiveMarket = opened
    BY <2>3, ActiveIsOpened
  <2> QED
    BY <2>1, <2>2, <2>3, <2>4
<1> QED
  BY <1>1, AdminStart, AdminSteps, PTL DEF AdminDetailSpec
=============================================================================
