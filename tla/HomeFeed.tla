------------------------------- MODULE HomeFeed -------------------------------
(***************************************************************************)
(* The home page of the public site and the feed of events it shows: a     *)
(* first page that is read again in the background when an older feed is   *)
(* at hand, the remaining pages drained one after the other, and a page    *)
(* more when the visitor scrolls to the end.  The feed outlives the page:  *)
(* it is cached by the module and in session storage, and so do the reads  *)
(* of a page the visitor has left.  The admin site has the same page; when *)
(* the first page of events fails there, it makes a feed of the markets of *)
(* the home sections.                                                      *)
(***************************************************************************)
EXTENDS Site

CONSTANTS Published,       \* the events published at first, in the order of the feed
          Upcoming,        \* those that may be published while the feed is read
          PageSize,        \* EVENT_CARD_PAGE_SIZE
          FallsBack,       \* on the admin site
          MaxVisits,       \* bound: how often the home page is opened
          MaxRequests      \* bound: first pages ever asked for

\* No event is published twice, and a page holds at least one.
ASSUME FeedAssumption ==
    /\ Published \in Seq(ToSet(Published)) /\ IsInjective(Published)
    /\ PageSize \in Nat \ {0}

VARIABLES published,       \* external: the feed as the backend has it
          homes,           \* the pages opened so far: their signals and their reads
          cachedFeed,      \* the module's cache
          storedFeed,      \* session storage
          firstPages,      \* the first pages asked for: who waits, in what way
          inflightFirst,   \* the one inflightFeedRequest holds
          drain            \* inflightFeedDrain: its own feed, who follows, who waits

feedVars == <<published, homes, cachedFeed, storedFeed, firstPages, inflightFirst, drain>>

(***************************************************************************)
(* Feeds: events, the offset of the next page and whether there is one.    *)
(***************************************************************************)
EventsOfFeed(feed) == ToSet(feed.events)

\* The events of a list that known does not hold.
NotIn(events, known) == Picked(events, {i \in DOMAIN events : events[i] \notin ToSet(known)})

\* fetchEventPage, answered from what is published by then.
EventPage(offset) ==
    LET last == Min({offset + PageSize, Len(published)})
        page == IF offset >= last THEN <<>> ELSE SubSeq(published, offset + 1, last)
    IN  [events |-> page, next |-> offset + Len(page), more |-> Len(page) = PageSize,
         fallback |-> FALSE]

\* fetchHomeFallbackFeed: some of what is published, and nothing after it.
FallbackPages ==
    {[events |-> s, next |-> Len(s), more |-> FALSE, fallback |-> TRUE] :
        s \in {t \in SeqOf(ToSet(published), PageSize) : IsInjective(t)}}

\* Mutant of MergeFeedPage: what is known already is appended again.
MergeAll(feed, page) == [page EXCEPT !.events = feed.events \o page.events]

\* mergeFeedPage.
MergeFeedPage(feed, page) ==
    [page EXCEPT !.events = feed.events \o NotIn(page.events, feed.events)]

\* reconcileInitialFeed.
Reconcile(feed, first) ==
    IF feed.next <= first.next THEN first
    ELSE [feed EXCEPT !.events = first.events \o NotIn(feed.events, first.events)]

(***************************************************************************)
(* The page.                                                               *)
(***************************************************************************)
EmptyFeed == [events |-> <<>>, next |-> 0, more |-> TRUE, fallback |-> FALSE]

NewHome == [open |-> TRUE, status |-> "loading", feed |-> EmptyFeed,
            loadingMore |-> None, moreFailed |-> FALSE]

FeedInit ==
    /\ published = Published
    /\ homes = <<>>
    /\ cachedFeed = None
    /\ storedFeed = None
    /\ firstPages = <<>>
    /\ inflightFirst = None
    /\ drain = None

Open == {i \in DOMAIN homes : homes[i].open}

\* loadSections up to its await: an unanswered first page is shared.
LoadSections(i, background, pages, inflight) ==
    LET waiter == [home |-> i, background |-> background] IN
    IF inflight # None
    THEN /\ firstPages' = [pages EXCEPT ![inflight] = Append(@, waiter)]
         /\ inflightFirst' = inflight
    ELSE /\ Len(pages) < MaxRequests
         /\ firstPages' = Append(pages, <<waiter>>)
         /\ inflightFirst' = Len(pages) + 1

\* onMount: with a feed at hand it is shown and the first page read anew.
VisitHome ==
    LET warm == IF cachedFeed # None THEN cachedFeed ELSE storedFeed
        i    == Len(homes) + 1
    IN  /\ Open = {} /\ Len(homes) < MaxVisits
        /\ IF warm = None
           THEN /\ homes' = Append(homes, NewHome)
                /\ LoadSections(i, FALSE, firstPages, inflightFirst)
                /\ UNCHANGED <<cachedFeed, storedFeed>>
           ELSE /\ homes' = Append(homes, [NewHome EXCEPT !.status = "ready", !.feed = warm])
                /\ storedFeed' = warm
                /\ cachedFeed' = None
                /\ LoadSections(i, TRUE, firstPages, None)
        /\ UNCHANGED <<published, drain>>

LeaveHome(i) ==
    /\ i \in Open
    /\ homes' = [homes EXCEPT ![i].open = FALSE]
    /\ UNCHANGED <<published, cachedFeed, storedFeed, firstPages, inflightFirst, drain>>

\* onRetry: resetFeedCache, then loadSections.
RetryHome(i) ==
    /\ i \in Open /\ homes[i].status = "error"
    /\ homes' = [homes EXCEPT ![i].status = "loading", ![i].moreFailed = FALSE]
    /\ cachedFeed' = None
    /\ storedFeed' = None
    /\ LoadSections(i, FALSE, firstPages, None)
    /\ UNCHANGED <<published, drain>>

\* loadMoreSections up to its await; the trigger is observed while the page
\* can load more, and an error leaves a button.
LoadMore(i) ==
    /\ i \in Open
    /\ homes[i].status = "ready" /\ homes[i].loadingMore = None /\ homes[i].feed.more
    /\ drain = None
    /\ homes' = [homes EXCEPT ![i].loadingMore = homes[i].feed, ![i].moreFailed = FALSE]
    /\ UNCHANGED <<published, cachedFeed, storedFeed, firstPages, inflightFirst, drain>>

(***************************************************************************)
(* Answers.  applyFeed shows a feed and caches it in both places.          *)
(***************************************************************************)
Unanswered == {r \in DOMAIN firstPages : firstPages[r] # <<>>}

\* What a waiter makes of the first page.
AfterFirst(waiter, first) ==
    LET home == homes[waiter.home]
    IN  IF waiter.background /\ home.feed.events # <<>>
        THEN Reconcile(home.feed, first) ELSE first

\* The waiters of a first page run in turn, none of them for a page that another
\* is for, and then each drains the rest: the first to come starts the drain, the
\* others wait for it.  A drain with nothing to read ends at once, and all apply
\* the cache again.
FirstPageAnswered(r, first) ==
    LET waiters == firstPages[r]
        waiting == {w.home : w \in ToSet(waiters)}
        start   == AfterFirst(waiters[1], first)
        cached  == AfterFirst(Last(waiters), first)
        ends    == drain = None /\ ~start.more
        shown(i) == IF ends THEN cached
                    ELSE AfterFirst(CHOOSE w \in ToSet(waiters) : w.home = i, first)
    IN  /\ r \in Unanswered
        /\ homes' = [i \in DOMAIN homes |->
                        IF i \in waiting
                        THEN [homes[i] EXCEPT !.feed = shown(i), !.status = "ready"]
                        ELSE homes[i]]
        /\ cachedFeed' = cached
        /\ storedFeed' = cached
        /\ firstPages' = [firstPages EXCEPT ![r] = <<>>]
        /\ inflightFirst' = None
        /\ drain' = IF ends THEN None
                    ELSE IF drain # None THEN [drain EXCEPT !.waiting = @ \cup waiting]
                    ELSE [feed |-> start, follower |-> waiters[1].home, waiting |-> waiting]
        /\ UNCHANGED published

FirstPageRead(r) == FirstPageAnswered(r, EventPage(0))

\* The first page failed and the admin site falls back.
FirstPageFallsBack(r) ==
    FallsBack /\ \E first \in FallbackPages : FirstPageAnswered(r, first)

\* A page that has something to show says nothing of a background failure.
FirstPageFails(r) ==
    LET told == {w.home : w \in {v \in ToSet(firstPages[r]) :
                     ~(v.background /\ homes[v.home].feed.events # <<>>)}}
    IN  /\ r \in Unanswered
        /\ homes' = [i \in DOMAIN homes |->
                        IF i \in told THEN [homes[i] EXCEPT !.status = "error"] ELSE homes[i]]
        /\ firstPages' = [firstPages EXCEPT ![r] = <<>>]
        /\ inflightFirst' = None
        /\ UNCHANGED <<published, cachedFeed, storedFeed, drain>>

\* drainRemainingFeedPages goes on from its own feed, whatever the cache holds
\* by now; at the end everyone who waited applies the cache.
DrainPageRead ==
    LET feed == MergeFeedPage(drain.feed, EventPage(drain.feed.next))
        seen == {drain.follower} \cup IF feed.more THEN {} ELSE drain.waiting
    IN  /\ drain # None
        /\ cachedFeed' = feed
        /\ storedFeed' = feed
        /\ homes' = [i \in DOMAIN homes |->
                        IF i \in seen THEN [homes[i] EXCEPT !.feed = feed] ELSE homes[i]]
        /\ drain' = IF feed.more THEN [drain EXCEPT !.feed = feed] ELSE None
        /\ UNCHANGED <<published, firstPages, inflightFirst>>

DrainFails ==
    /\ drain # None
    /\ drain' = None
    /\ UNCHANGED <<published, homes, cachedFeed, storedFeed, firstPages, inflightFirst>>

\* The rest of loadMoreSections.
MoreRead(i) ==
    LET feed == MergeFeedPage(homes[i].loadingMore, EventPage(homes[i].loadingMore.next)) IN
    /\ homes[i].loadingMore # None
    /\ homes' = [homes EXCEPT ![i].feed = feed, ![i].loadingMore = None]
    /\ cachedFeed' = feed
    /\ storedFeed' = feed
    /\ UNCHANGED <<published, firstPages, inflightFirst, drain>>

MoreFails(i) ==
    /\ homes[i].loadingMore # None
    /\ homes' = [homes EXCEPT ![i].loadingMore = None, ![i].moreFailed = TRUE]
    /\ UNCHANGED <<published, cachedFeed, storedFeed, firstPages, inflightFirst, drain>>

\* The tab is reloaded: only session storage stays, and the page opens anew.
ReloadHome ==
    /\ Open # {} /\ Len(homes) < MaxVisits
    /\ homes' = [i \in DOMAIN homes |-> [homes[i] EXCEPT !.open = FALSE, !.loadingMore = None]]
    /\ cachedFeed' = None
    /\ firstPages' = [r \in DOMAIN firstPages |-> <<>>]
    /\ inflightFirst' = None
    /\ drain' = None
    /\ UNCHANGED <<published, storedFeed>>

\* External: another event is published and takes its place in the feed.
EventPublished(e, at) ==
    /\ e \notin ToSet(published)
    /\ published' = InsertAt(published, at + 1, e)
    /\ UNCHANGED <<homes, cachedFeed, storedFeed, firstPages, inflightFirst, drain>>

FeedNext ==
    \/ VisitHome
    \/ \E r \in Unanswered : FirstPageRead(r) \/ FirstPageFallsBack(r) \/ FirstPageFails(r)
    \/ DrainPageRead
    \/ DrainFails
    \/ ReloadHome
    \/ \E i \in DOMAIN homes :
          LeaveHome(i) \/ RetryHome(i) \/ LoadMore(i) \/ MoreRead(i) \/ MoreFails(i)
    \/ \E e \in Upcoming, at \in 0 .. Len(published) : EventPublished(e, at)

FeedSpec == FeedInit /\ [][FeedNext]_feedVars

\* The feeds there are: shown, cached and stored.
Feeds == ({homes[i].feed : i \in DOMAIN homes} \cup {cachedFeed, storedFeed}) \ {None}

\* No event has two cards, though pages shift while they are read.
OneCardEach == \A f \in Feeds : IsInjective(f.events)

\* Events that are published while pages are read never push an older one out
\* of the feed: of those published at first, a feed that has come so far holds
\* all that can have been before its next page, unless it is a fallback.
NothingIsSkipped ==
    LET added == Len(published) - Len(Published) IN
    \A f \in {g \in Feeds : ~g.fallback} : \A j \in DOMAIN Published :
        j + added <= f.next => Published[j] \in EventsOfFeed(f)

\* Whatever is published while the feed is read, and whichever reads overlap, the
\* feed has every event once.
FeedIsWhole == OneCardEach /\ NothingIsSkipped
=============================================================================
