-------------------------------- MODULE Browse --------------------------------
(***************************************************************************)
(* The browsing screens of the web front ends: search, filtered feeds, the *)
(* market resource, the portfolio, the screens that read once when they    *)
(* are opened, and the search field of the navigation bar with its tabs.   *)
(* One screen is open at a time.  Each asks the backend whenever what it   *)
(* is addressed by changes, and numbers its requests so that only the      *)
(* answer to the latest one counts.  An address that asks for nothing      *)
(* takes no number: the answer to what was asked before it counts still.   *)
(***************************************************************************)
EXTENDS Site

CONSTANTS Kind,            \* the screens that may be opened
          Query,           \* search terms of at least MIN_SEARCH_LENGTH
          Params,          \* what a link to a filtered feed may carry
          StoredEvents,    \* the home feed of session storage: each event's labels
          Found,           \* the lists of markets a search may answer
          SortOrder,       \* external: how compareMarkets orders the markets
          Active,          \* external: the markets with trading_status "active"
          Topic,           \* MARKET_TOPIC_TAB_DEFINITIONS
          Slugs,           \* the categories and tags the directories may list
          MaxAsks          \* bound: requests of a screen

\* An answer lists markets, and no category or tag is the missing one.
ASSUME BrowseAssumption ==
    /\ Found \subseteq Seq(Market) /\ None \notin Slugs
    /\ SortOrder \in [Market -> Int]

VARIABLES kind,            \* the screen
          addressed,       \* its query, its link, its resource or its session
          screen,          \* its signals
          asked,           \* its requests that are not answered
          dropdown,        \* the results panel below the search field
          tabs             \* cachedBrowseTabMetadata and inflightBrowseTabMetadata

browseVars == <<kind, addressed, screen, asked, dropdown, tabs>>

(***************************************************************************)
(* Links to feeds.  The navigation bar builds them from its tabs.          *)
(***************************************************************************)
\* resolveFeedRequest.
FeedRequest(params) ==
    IF params.feed \in {"breaking", "new"} THEN [kind |-> params.feed, slug |-> None]
    ELSE IF params.feed = "category" /\ params.category # None
    THEN [kind |-> "category", slug |-> params.category]
    ELSE IF params.feed = "tag" /\ params.tag # None
    THEN [kind |-> "tag", slug |-> params.tag]
    ELSE [kind |-> "featured", slug |-> None]

\* resolveMarketTopicTabTarget: a category, a tag, or a search for the label.
TopicTarget(topic, known) ==
    IF \E s \in known.categories : s \in topic.categories
    THEN [kind |-> "category", slug |-> CHOOSE s \in known.categories : s \in topic.categories]
    ELSE IF \E s \in known.tags : s \in topic.tags
    THEN [kind |-> "tag", slug |-> CHOOSE s \in known.tags : s \in topic.tags]
    ELSE [kind |-> "search", slug |-> topic.label]

\* buildMarketFeedHref.
FeedHref(target) ==
    IF target.kind = "search" THEN [path |-> "/search", q |-> target.slug]
    ELSE [path |-> "/markets",
          params |-> [feed     |-> target.kind,
                      category |-> IF target.kind = "category" THEN target.slug ELSE None,
                      tag      |-> IF target.kind = "tag" THEN target.slug ELSE None]]

\* isMarketFeedTargetActive.
IsTabActive(target, at) ==
    IF target.kind = "search" THEN at.path = "/search" /\ at.q = target.slug
    ELSE /\ at.path = "/markets"
         /\ at.params.feed = target.kind
         /\ (target.kind = "category" => at.params.category = target.slug)
         /\ (target.kind = "tag" => at.params.tag = target.slug)

\* The featured tabs and the topic tabs, from the directories known by now.
TabTargets ==
    {[kind |-> k, slug |-> None] : k \in {"featured", "breaking", "new"}} \cup
    {TopicTarget(t, tabs.known) : t \in Topic}

(***************************************************************************)
(* Cards: markets grouped by their events.                                 *)
(***************************************************************************)
\* Where the markets of e are.
PlacesOf(e, markets) == {i \in DOMAIN markets : EventOf[markets[i]] = e}

\* groupMarketsByEvent: the events, in the order they first come.
EventsIn(markets) ==
    LET firsts == {i \in DOMAIN markets :
                      \A j \in PlacesOf(EventOf[markets[i]], markets) : i <= j}
    IN  Picked([i \in DOMAIN markets |-> EventOf[markets[i]]], firsts)

\* The markets of a card in compareMarkets' order, and how many they are.
CardOf(e, markets) ==
    LET all == Picked(markets, PlacesOf(e, markets))
        own == Sorted(all, [i \in DOMAIN all |-> SortOrder[all[i]]])
    IN  [event |-> e, markets |-> own, marketCount |-> Len(own),
         active |-> Cardinality(ToSet(own) \cap Active)]

MarketCards(markets) ==
    LET events == EventsIn(markets)
    IN  [i \in DOMAIN events |-> CardOf(events[i], markets)]

\* groupEventCardsWithMarkets: the backend has grouped the markets, and counts
\* them itself, in a query before the one that reads them: a market of a late
\* event was published between the two.
EventCards(markets, late) ==
    LET events == EventsIn(markets)
    IN  [i \in DOMAIN events |->
            [CardOf(events[i], markets) EXCEPT !.marketCount = IF events[i] \in late
                                                               THEN @ - 1 ELSE @]]

\* An answer lists events: a feed's, but for the newest markets.
ListsEvents(request) == kind = "feed" /\ request.kind # "new"

Cards(answer) ==
    IF ListsEvents(answer.of) THEN EventCards(answer.markets, answer.late)
    ELSE MarketCards(answer.markets)

(***************************************************************************)
(* Opening a screen.                                                       *)
(***************************************************************************)
\* A query as it is typed: nothing, one letter, or long enough.
LongEnough(q) == q \in Query
Queries == Query \cup {"", "o"}

\* buildTargetKey.
Resources == [by : {"market", "condition"}, market : Market]

Addresses ==
    CASE kind \in {"search", "navbar"} -> Queries
      [] kind = "feed"                 -> {FeedRequest(p) : p \in Params}
      [] kind = "market"               -> Resources
      [] kind = "portfolio"            -> User \cup {None}
      [] OTHER                         -> {None}

\* Whether the screen asks at all when it is addressed like this.
Answerable(a) ==
    /\ kind \in {"search", "navbar"} => LongEnough(a)
    /\ kind = "portfolio" => a # None

\* latest is history: what the request of this version asks for.
Blank == [status |-> "loading", version |-> 0, data |-> None, failed |-> FALSE, latest |-> None]

Request(a, stage, background) ==
    [version |-> screen.version + 1, of |-> a, stage |-> stage, background |-> background]

\* A new version; whether what is shown goes is the screen's choice.
Asking(a, data) ==
    [status |-> "loading", version |-> screen.version + 1, data |-> data, failed |-> FALSE,
     latest |-> a]

\* What a screen shows when there is nothing to ask; its version stays.
Resting(status) == [screen EXCEPT !.status = status, !.failed = FALSE, !.data = None]

\* loadSearch.
LoadSearch(a) ==
    IF LongEnough(a)
    THEN screen' = Asking(a, screen.data) /\ asked' = asked \cup {Request(a, "read", FALSE)}
    ELSE screen' = Resting("idle") /\ UNCHANGED asked

\* matchesCachedEvent.
MatchesCached(labels, a) ==
    CASE a.kind \in {"featured", "breaking"} -> a.kind \in labels
      [] a.kind \in {"category", "tag"}      -> a.slug \in labels
      [] OTHER                               -> FALSE

\* The effect of a filtered feed: seedFromCachedHomeFeed, then loadFeed.
LoadFeed(a, effect) ==
    LET seeded == effect /\ \E e \in StoredEvents : MatchesCached(e, a)
        seed   == [of |-> a, markets |-> <<>>, late |-> {}, parts |-> {}]
    IN  /\ screen' = IF seeded THEN [Asking(a, seed) EXCEPT !.status = "ready"]
                   ELSE Asking(a, IF effect THEN None ELSE screen.data)
        /\ asked' = asked \cup {Request(a, "read", seeded)}

\* loadResource and the reads of the screens that read once.
LoadResource(a) ==
    screen' = Asking(a, None) /\ asked' = asked \cup {Request(a, "read", FALSE)}

\* The effect of the portfolio screen.
LoadPortfolio(a) ==
    IF a # None
    THEN screen' = Asking(a, screen.data) /\ asked' = asked \cup {Request(a, "read", FALSE)}
    ELSE screen' = Resting("unauthenticated") /\ UNCHANGED asked

\* The effect of the search field: a timer, the former one is cleared.
StartSearch(a) ==
    IF LongEnough(a)
    THEN /\ screen' = Asking(a, None)
         /\ asked' = {r \in asked : r.stage # "timer"} \cup {Request(a, "timer", FALSE)}
    ELSE /\ screen' = Resting("idle")
         /\ asked' = {r \in asked : r.stage # "timer"}

\* The screen addressed as a, by its effect or by its retry button.
Load(a, effect) ==
    \/ kind = "search"    /\ LoadSearch(a)
    \/ kind = "feed"      /\ LoadFeed(a, effect)
    \/ kind = "portfolio" /\ LoadPortfolio(a)
    \/ kind = "navbar"    /\ StartSearch(a)
    \/ kind \notin {"search", "feed", "portfolio", "navbar"} /\ LoadResource(a)

BrowseInit ==
    /\ kind \in Kind
    /\ addressed = None
    /\ screen = Blank
    /\ asked = {}
    /\ dropdown = [focused |-> FALSE, active |-> -1]
    /\ tabs = [known |-> [categories |-> {}, tags |-> {}], cached |-> FALSE, inflight |-> FALSE]

\* The screen is opened, or its address changes: its effect runs.  A screen
\* that reads once reads when it is mounted and never again.
OpenAddress(a) ==
    /\ a \in Addresses
    /\ screen.version < MaxAsks
    /\ screen = Blank \/ (kind # "once" /\ (a # addressed \/ kind = "portfolio"))
    /\ addressed' = a
    /\ Load(a, TRUE)
    /\ dropdown' = [dropdown EXCEPT !.active = -1]
    /\ UNCHANGED <<kind, tabs>>

\* The button next to an error; the search field has none.
RetryAsk ==
    /\ screen.status = "error" /\ kind # "navbar" /\ screen.version < MaxAsks
    /\ Load(addressed, FALSE)
    /\ UNCHANGED <<kind, addressed, dropdown, tabs>>

(***************************************************************************)
(* Answers.                                                                *)
(***************************************************************************)
\* Mutant of IsLatestAsk: every answer counts.
IsAny(r) == r \in asked

IsLatestAsk(r) == r.version = screen.version

MarketParts == {"liquidity", "resolution", "outcomes", "quote"}

\* The timer of the search field ends: the search is sent.
TimerEnds(r) ==
    /\ r \in asked /\ r.stage = "timer"
    /\ asked' = (asked \ {r}) \cup {[r EXCEPT !.stage = "read"]}
    /\ UNCHANGED <<kind, addressed, screen, dropdown, tabs>>

\* An answer: the market resource goes on to what belongs to it.
AskAnswered(r, markets, late) ==
    LET data == [of |-> r.of, markets |-> markets, late |-> late, parts |-> {}] IN
    /\ r \in asked /\ r.stage = "read"
    /\ late # {} => ListsEvents(r.of)
    /\ screen' = IF ~IsLatestAsk(r) THEN screen
               ELSE IF kind = "market" THEN [screen EXCEPT !.data = data]
               ELSE [screen EXCEPT !.data = data, !.status = "ready"]
    /\ asked' = (asked \ {r}) \cup
                IF kind = "market" /\ IsLatestAsk(r) THEN {[r EXCEPT !.stage = "parts"]} ELSE {}
    /\ UNCHANGED <<kind, addressed, dropdown, tabs>>

\* readOptional: of a market's parts, those that could be read.
PartsRead(r, parts) ==
    /\ r \in asked /\ r.stage = "parts"
    /\ screen' = IF IsLatestAsk(r) THEN [screen EXCEPT !.data.parts = parts, !.status = "ready"] ELSE screen
    /\ asked' = asked \ {r}
    /\ UNCHANGED <<kind, addressed, dropdown, tabs>>

\* A failure; a feed that has something to show keeps it.
AnswerFails(r) ==
    /\ r \in asked /\ r.stage = "read"
    /\ screen' = IF ~IsLatestAsk(r) THEN screen
               ELSE IF r.background /\ screen.data # None THEN [screen EXCEPT !.failed = TRUE]
               ELSE [screen EXCEPT !.data = None, !.failed = TRUE, !.status = "error"]
    /\ asked' = asked \ {r}
    /\ UNCHANGED <<kind, addressed, dropdown, tabs>>

(***************************************************************************)
(* The search field of the navigation bar.                                 *)
(***************************************************************************)
Results == IF screen.data = None THEN <<>> ELSE screen.data.markets

IsDropdownOpen == dropdown.focused /\ LongEnough(addressed)

FocusSearch ==
    /\ kind = "navbar" /\ ~dropdown.focused
    /\ dropdown' = [dropdown EXCEPT !.focused = TRUE]
    /\ UNCHANGED <<kind, addressed, screen, asked, tabs>>

\* Escape, a click elsewhere, and sending the form.
LeaveSearch ==
    /\ kind = "navbar" /\ dropdown.focused
    /\ dropdown' = [focused |-> FALSE, active |-> -1]
    /\ UNCHANGED <<kind, addressed, screen, asked, tabs>>

\* handleSearchKeyDown: the arrows; the mouse may point at any result.
PointAt(i) ==
    /\ kind = "navbar" /\ IsDropdownOpen /\ Results # <<>>
    /\ i \in 0 .. Len(Results) - 1
    /\ dropdown' = [dropdown EXCEPT !.active = i]
    /\ UNCHANGED <<kind, addressed, screen, asked, tabs>>

\* Enter or a click: navigateToSearchResult leaves for the event, where the
\* search field is empty.
OpenResult(i) ==
    /\ kind = "navbar" /\ IsDropdownOpen
    /\ i + 1 \in DOMAIN Results
    /\ dropdown' = [focused |-> FALSE, active |-> -1]
    /\ addressed' = ""
    /\ Load("", TRUE)
    /\ UNCHANGED <<kind, tabs>>

\* loadBrowseTabMetadata: once read, it is kept, even if a read failed.
AskTabs ==
    /\ kind = "navbar" /\ ~tabs.cached /\ ~tabs.inflight
    /\ tabs' = [tabs EXCEPT !.inflight = TRUE]
    /\ UNCHANGED <<kind, addressed, screen, asked, dropdown>>

TabsRead(categories, tags) ==
    /\ tabs.inflight
    /\ tabs' = [known |-> [categories |-> categories, tags |-> tags],
                cached |-> TRUE, inflight |-> FALSE]
    /\ UNCHANGED <<kind, addressed, screen, asked, dropdown>>

BrowseNext ==
    \/ \E a \in Addresses : OpenAddress(a)
    \/ RetryAsk
    \/ \E r \in asked :
          \/ TimerEnds(r)
          \/ \E markets \in Found, late \in SUBSET Event : AskAnswered(r, markets, late)
          \/ \E parts \in SUBSET MarketParts : PartsRead(r, parts)
          \/ AnswerFails(r)
    \/ FocusSearch
    \/ LeaveSearch
    \/ \E i \in 0 .. 1 : PointAt(i) \/ OpenResult(i)
    \/ AskTabs
    \/ \E categories, tags \in SUBSET Slugs : TabsRead(categories, tags)

BrowseSpec == BrowseInit /\ [][BrowseNext]_browseVars

(***************************************************************************)
(* Properties.                                                             *)
(***************************************************************************)
\* What the visitor sees below the heading, if it is an answer at all.
ShownData ==
    IF kind = "navbar" THEN (IF IsDropdownOpen THEN screen.data ELSE None)
    ELSE IF screen.status = "ready" THEN screen.data ELSE None

\* However answers overtake each other, what a screen shows answers its latest
\* request, which is for what the screen is addressed by now if that asks for
\* anything; and the highlighted result is one it lists.  Addressed by a query too
\* short to search for, or by no session, a screen may still show the late answer
\* to what was asked before: loadSearch and the portfolio's effect clear what is
\* shown, and leave the request number as it is.
AnswersWhatIsAsked ==
    /\ ShownData # None =>
          /\ ShownData.of = screen.latest
          /\ Answerable(addressed) => screen.latest = addressed
    /\ dropdown.active < Len(Results)

\* Every market of an answer is on one card, that of its event, which counts
\* no other; the backend's own count may be behind.
OnOneCard(markets, cards, counted) ==
    /\ \A i, j \in DOMAIN cards : cards[i].event = cards[j].event => i = j
    /\ \A m \in ToSet(markets) :
          \E i \in DOMAIN cards : cards[i].event = EventOf[m] /\ m \in ToSet(cards[i].markets)
    /\ \A i \in DOMAIN cards :
          /\ \A m \in ToSet(cards[i].markets) : EventOf[m] = cards[i].event
          /\ cards[i].marketCount <= Cardinality(PlacesOf(cards[i].event, markets))
          /\ counted => cards[i].marketCount = Cardinality(PlacesOf(cards[i].event, markets))

OneCardPerEvent ==
    ShownData # None =>
        OnOneCard(ShownData.markets, Cards(ShownData), ~ListsEvents(ShownData.of))

\* A tab of the navigation bar leads to a screen that asks for what the tab
\* says, and on which that tab is the active one.
TabsLeadWhereTheySay ==
    \A t \in TabTargets :
        /\ IsTabActive(t, FeedHref(t))
        /\ t.kind # "search" => FeedRequest(FeedHref(t).params) = t

\* A visitor gets what was asked for: by the tab that was followed, and in the
\* answer that is shown, all of it and nothing twice.
ShowsWhatIsAsked == AnswersWhatIsAsked /\ OneCardPerEvent /\ TabsLeadWhereTheySay
=============================================================================
