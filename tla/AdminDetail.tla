------------------------------ MODULE AdminDetail ------------------------------
(***************************************************************************)
(* The admin site's event page: the loads of MarketDetailScreen over the   *)
(* markets its cache knows of each event, and the modals that add a market *)
(* to the event, set prices and bootstrap liquidity.  The admin is signed  *)
(* in; the drawer and what a creation modal does are AdminCreation's.      *)
(***************************************************************************)
EXTENDS AdminViews

CONSTANTS AdminStores,      \* what the session storage of a new tab may hold
          MaxAdminLoads,    \* bound: calls of loadDetail
          MaxOperations,    \* bound: prices set and markets bootstrapped
          FullPrice         \* the 10000 bps that the prices of a market add up to

\* Storage holds markets, an event's own where it is about one; a page that shows
\* nothing is told from one that does, and no answer from one that is awaited.
ASSUME AdminDetailAssumption ==
    /\ AdminStores \subseteq PageStore
    /\ \A store \in AdminStores, e \in Event : store.snapshots[e].markets \subseteq MarketsOf(e)
    /\ None \notin PageViewType
    /\ None # "asked"

VARIABLES pages,      \* what the tab remembers of every event (AdminViews)
          place,      \* props.eventSlug and selectedMarketSlug
          detail,     \* status and data
          detailLoads, \* the calls of loadDetail
          tools,      \* the modals, and the admin event they need
          resolving,  \* the admin event being looked up, and what for, or None
          operations, \* the operations modal's forms and what they have sent
          opened      \* the market the operations modal was asked for on, or None

detailVars == <<pages, place, detail, detailLoads, tools, resolving, operations, opened>>

\* The tabs of the operations modal that send something.
Tab == {"set_prices", "bootstrap_market", "bootstrap_event"}

NoTools == [creation |-> FALSE, event |-> None, open |-> FALSE, initial |-> "set_prices",
            tab |-> "set_prices", slug |-> None]

\* What is out, and the answers shown.
NoOperations == [sent |-> {}, results |-> {}]

AdminDetailInit ==
    /\ \E store \in AdminStores : pages = FreshPages(store)
    /\ \E e \in Event : place = [event |-> e, selected |-> None]
    /\ detail = [status |-> "loading", data |-> None]
    /\ detailLoads = <<>>
    /\ tools = NoTools
    /\ resolving = None
    /\ operations = NoOperations
    /\ opened = None

ShowDetail(c, e, m) == [status |-> "ready", data |-> PageView(c, e, m)]

(***************************************************************************)
(* Loading                                                                 *)
(***************************************************************************)
\* A call that has returned.
Over == [event |-> None, asked |-> None, market |-> None, keep |-> FALSE,
         stage |-> "over", awaits |-> {}]

\* A load that has its market waits for the rest of its view, and is over when
\* there is nothing to wait for.
Settle(load, awaits) == IF awaits = {} THEN Over ELSE [load EXCEPT !.awaits = awaits]

\* From here on a load needs neither what it was asked nor what it found shown.
Hydrate(load, c, m) ==
    Settle([Over EXCEPT !.event = load.event, !.market = SelectedOf(c, load.event, m),
                        !.stage = "hydrating"],
           Awaits(c, load.event, m))

\* loadDetail up to the first await that waits for an answer.
LoadAdminDetail(e, asked) ==
    LET preserve  == detail.data # None /\ detail.data.event = e
        projected == ProjectPage(pages, e, asked)
        resolved  == ResolvePage(projected.cache, e, asked)
        m         == resolved.contexts[<<e, asked>>]
        load      == [event |-> e, asked |-> asked, market |-> None,
                      keep |-> preserve \/ projected.market # None,
                      stage |-> "resolving", awaits |-> {}]
    IN  /\ Len(detailLoads) < MaxAdminLoads
        /\ IF m = "asked"
           THEN /\ pages' = resolved
                /\ detailLoads' = Append(detailLoads, load)
                /\ detail' = IF projected.market # None
                             THEN ShowDetail(resolved, e, projected.market)
                             ELSE IF preserve THEN detail ELSE [detail EXCEPT !.status = "loading"]
           ELSE /\ pages' = HydratePage(resolved, e, m)
                /\ detailLoads' = Append(detailLoads, Hydrate(load, pages', m))
                /\ detail' = ShowDetail(resolved, e, m)

MountDetail ==
    /\ detailLoads = <<>>
    /\ LoadAdminDetail(place.event, None)
    /\ UNCHANGED <<place, tools, resolving, operations, opened>>

\* Mutant of LeaveTools: the operations modal stays open.
LeaveToolsOpen == [NoTools EXCEPT !.open = tools.open, !.initial = tools.initial,
                                  !.tab = tools.tab, !.slug = tools.slug]

\* The modal is gone: its calls go on, and their answers are shown nowhere.
Unmounted == [NoOperations EXCEPT !.sent = {[o EXCEPT !.mounted = FALSE] : o \in operations.sent}]

\* Another event closes every modal.
LeaveTools == [NoTools EXCEPT !.initial = tools.initial]

\* The router gives the mounted page another event.
VisitAdminEvent(e) ==
    /\ detailLoads # <<>>
    /\ e # place.event
    /\ place' = [event |-> e, selected |-> None]
    /\ tools' = LeaveTools
    /\ opened' = IF LeaveTools.open THEN opened ELSE None
    /\ operations' = IF LeaveTools.open THEN operations ELSE Unmounted
    /\ LoadAdminDetail(e, None)
    /\ UNCHANGED resolving

\* The page can be clicked: it is shown and nothing covers it.
Uncovered ==
    /\ detail.status = "ready"
    /\ ~tools.creation /\ ~tools.open

SelectAdminMarket(m) ==
    /\ Uncovered
    /\ m \in detail.data.list \ {detail.data.market, place.selected}
    /\ place' = [place EXCEPT !.selected = m]
    /\ LoadAdminDetail(place.event, m)
    /\ UNCHANGED <<tools, resolving, operations, opened>>

RetryDetail ==
    /\ detail.status = "error"
    /\ LoadAdminDetail(place.event, place.selected)
    /\ UNCHANGED <<place, tools, resolving, operations, opened>>

\* The loads that wait for the address <<e, asked>>.
Waits(v, e, asked) ==
    LET load == detailLoads[v] IN
    load.stage = "resolving" /\ load.event = e /\ load.asked = asked

\* An address is resolved, for every load that waits for it.
AdminDetailRead(e, asked, m) ==
    LET c == HydratePage(PageResolved(pages, e, asked, m), e, m)
        last == Len(detailLoads)
    IN  /\ pages.contexts[<<e, asked>>] = "asked"
        /\ asked # None => m = asked
        /\ pages' = c
        /\ detailLoads' = [v \in DOMAIN detailLoads |->
              IF Waits(v, e, asked) THEN Hydrate(detailLoads[v], c, m) ELSE detailLoads[v]]
        /\ detail' = IF Waits(last, e, asked) THEN ShowDetail(c, e, m) ELSE detail
        /\ UNCHANGED <<place, tools, resolving, operations, opened>>

AdminLoadFails(e, asked) ==
    LET last == Len(detailLoads) IN
    /\ pages.contexts[<<e, asked>>] = "asked"
    /\ pages' = WithContext(pages, e, asked, None)
    /\ detailLoads' = [v \in DOMAIN detailLoads |->
          IF Waits(v, e, asked) THEN Over ELSE detailLoads[v]]
    /\ detail' = IF Waits(last, e, asked) /\ ~detailLoads[last].keep
                 THEN [detail EXCEPT !.status = "error"] ELSE detail
    /\ UNCHANGED <<place, tools, resolving, operations, opened>>

\* The loads once those that wait for kind, about e and m, wait for it no more.
Answered(kind, e, ms) ==
    [v \in DOMAIN detailLoads |->
        LET load == detailLoads[v] IN
        IF kind \in load.awaits /\ load.event = e /\ load.market \in ms
        THEN Settle(load, load.awaits \ {kind}) ELSE load]

\* The latest load shows what it has by now when nothing is left to wait for,
\* and at a preview: when prices or liquidity arrive.
Publication(c, loads, preview) ==
    LET last == Len(loads)
        load == detailLoads[last]
    IN  IF load.stage = "hydrating" /\ (loads[last] = Over \/ preview)
        THEN ShowDetail(c, load.event, load.market) ELSE detail

\* The markets of the event are read, for every load that waits for them.  If
\* they are not, the ones at hand may still have prices to preview.
PageMarketsRead(e, ok, priced) ==
    LET read == [pages EXCEPT !.views[e].listing = FALSE]
        c    == IF ok THEN ApplyPageMarkets(read, e, MarketsOf(e), {}) ELSE read
        last == detailLoads[Len(detailLoads)]
    IN  /\ pages.views[e].listing
        /\ ok => priced
        /\ pages' = c
        /\ detailLoads' = Answered("markets", e, MarketsOf(e))
        /\ detail' = Publication(c, detailLoads',
                                 priced /\ last.event = e /\ "markets" \in last.awaits)
        /\ UNCHANGED <<place, tools, resolving, operations, opened>>

\* The detail of a market is read for its resolution.
PageResolutionRead(m, ok) ==
    LET c == IF ok THEN ApplyMarketDetail(pages, EventOf[m], m)
             ELSE [pages EXCEPT !.resolutions[m] = "absent"]
    IN  /\ pages.resolutions[m] = "asked"
        /\ pages' = c
        /\ detailLoads' = Answered("resolution", EventOf[m], {m})
        /\ detail' = Publication(c, detailLoads', FALSE)
        /\ UNCHANGED <<place, tools, resolving, operations, opened>>

\* The rest of what the load waits for is read; its liquidity may be missing.
PageRestRead(v, liquidity) ==
    /\ "rest" \in detailLoads[v].awaits
    /\ detailLoads' = [detailLoads EXCEPT ![v] = Settle(@, @.awaits \ {"rest"})]
    /\ detail' = Publication(pages, detailLoads', liquidity /\ v = Len(detailLoads))
    /\ UNCHANGED <<pages, place, tools, resolving, operations, opened>>

ToolsChange(new) ==
    /\ tools' = new
    /\ UNCHANGED <<pages, place, detail, detailLoads, resolving, operations>>

(***************************************************************************)
(* Adding a market and operating on one.  The admin event is looked up     *)
(* once per page, and meanwhile the buttons that need it are disabled.     *)
(***************************************************************************)
AdminEventKnown == tools.event = detail.data.event

AddMarketToEvent ==
    /\ Uncovered
    /\ resolving = None
    /\ IF AdminEventKnown
       THEN tools' = [tools EXCEPT !.creation = TRUE] /\ UNCHANGED resolving
       ELSE resolving' = [event |-> detail.data.event, for |-> "creation"] /\ UNCHANGED tools
    /\ UNCHANGED <<pages, place, detail, detailLoads, operations, opened>>

CloseCreation ==
    /\ tools.creation
    /\ ToolsChange([tools EXCEPT !.creation = FALSE])
    /\ UNCHANGED opened

\* Edit market, on a market of the list or on the one selected.
EditMarket(m) ==
    /\ Uncovered
    /\ m \in detail.data.list
    /\ ToolsChange([tools EXCEPT !.open = TRUE, !.initial = "set_prices",
                                 !.tab = "set_prices", !.slug = m])
    /\ opened' = m

BootstrapEventClicked ==
    LET asked == [tools EXCEPT !.initial = "bootstrap_event", !.slug = detail.data.market]
    IN  /\ Uncovered
        /\ resolving = None
        /\ IF AdminEventKnown
           THEN /\ tools' = [asked EXCEPT !.open = TRUE, !.tab = asked.initial]
                /\ opened' = detail.data.market
                /\ UNCHANGED resolving
           ELSE /\ tools' = asked
                /\ resolving' = [event |-> detail.data.event, for |-> "bootstrap"]
                /\ UNCHANGED opened
        /\ UNCHANGED <<pages, place, detail, detailLoads, operations>>

\* The admin event is found: what it was looked up for opens, on whichever page
\* is shown by then.  The market asked for last is forgotten when its event is
\* left and when a modal opened meanwhile is closed: then it opens on none.
AdminEventFound ==
    LET found == [tools EXCEPT !.event = resolving.event]
        opens == resolving.for = "bootstrap" /\ ~tools.open
    IN  /\ resolving # None
        /\ tools' = IF opens THEN [found EXCEPT !.open = TRUE, !.tab = tools.initial]
                    ELSE [found EXCEPT !.creation = @ \/ resolving.for = "creation"]
        /\ opened' = IF opens THEN tools.slug ELSE opened
        /\ resolving' = None
        /\ UNCHANGED <<pages, place, detail, detailLoads, operations>>

AdminEventMissing ==
    /\ resolving # None
    /\ resolving' = None
    /\ UNCHANGED <<pages, place, detail, detailLoads, tools, operations, opened>>

(***************************************************************************)
(* The operations modal                                                    *)
(***************************************************************************)
OperationsShown == tools.open /\ detail.data # None

\* activeAdminMarket: the market the modal is given.
ActiveMarket ==
    IF tools.slug # None /\ tools.slug \in detail.data.list THEN tools.slug
    ELSE detail.data.market

\* The modal's event and its markets are read off what <Show> hands its child,
\* and that is the last operand of its condition: a market of the list, which
\* names no event and lists no markets.
EventSlug(market) == Absent
EventMarkets(market) == {}

CanBootstrapEvent ==
    /\ tools.event # None /\ tools.event = EventSlug(ActiveMarket)
    /\ EventMarkets(ActiveMarket) # {}

SwitchTab(tab) ==
    /\ OperationsShown
    /\ tab # tools.tab
    /\ tab = "bootstrap_event" => CanBootstrapEvent
    /\ ToolsChange([tools EXCEPT !.tab = tab])
    /\ UNCHANGED opened

CloseOperations ==
    /\ OperationsShown
    /\ tools' = [tools EXCEPT !.open = FALSE, !.tab = NoTools.tab, !.slug = None]
    /\ operations' = Unmounted
    /\ opened' = None
    /\ UNCHANGED <<pages, place, detail, detailLoads, resolving>>

(***************************************************************************)
(* The forms of the operations modal.  The browser lets no price through   *)
(* that is not between 1 and 9999; a dollar amount is a text, None when it *)
(* is no amount with up to six decimals.                                   *)
(***************************************************************************)
PriceForm == [yes : 1..(FullPrice - 1), no : 1..(FullPrice - 1)]

LiquidityForm == [yes : 1..(FullPrice - 1), no : 1..(FullPrice - 1),
                  inventory : {None, 0, 1}, exit : {None, 0, 1}]

FormsOf(task) == IF task = "set_prices" THEN PriceForm ELSE LiquidityForm

\* validateBinaryPricePair.
IsPricePair(form) == form.yes + form.no = FullPrice

\* parseUsdcDollarsToBaseUnits: only an exit collateral may be zero.
IsDollars(text, allowZero) == text # None /\ (allowZero \/ text # 0)

IsPriceSubmission(form) == IsPricePair(form)

IsLiquiditySubmission(form) ==
    IsDollars(form.inventory, FALSE) /\ IsDollars(form.exit, TRUE) /\ IsPricePair(form)

IsSubmission(task, form) ==
    IF task = "set_prices" THEN IsPriceSubmission(form) ELSE IsLiquiditySubmission(form)

\* A form is checked and sent for the market the modal is given, once at a time.
SubmitOperation(form) ==
    LET task == tools.tab
        sent == [task |-> task, market |-> ActiveMarket, mounted |-> TRUE]
    IN  /\ OperationsShown
        /\ form \in FormsOf(task)
        /\ task = "bootstrap_event" => CanBootstrapEvent
        /\ \A o \in operations.sent : o.mounted => o.task # task
        /\ IsSubmission(task, form)
        /\ Cardinality(operations.sent) + Cardinality(operations.results) < MaxOperations
        /\ operations' = [operations EXCEPT !.sent = @ \cup {sent}]
        /\ UNCHANGED <<pages, place, detail, detailLoads, tools, resolving, opened>>

\* The call is over: useAsyncTask keeps its answer, in the modal that sent it.
Shown(o) == {r \in operations.results : r.task # o.task}
                \cup {[task |-> o.task, market |-> o.market]}

\* What was applied is shown by loading the page again; the modal may be gone.
OperationApplied(o) ==
    /\ operations' = [operations EXCEPT !.sent = @ \ {o},
                                        !.results = IF o.mounted THEN Shown(o) ELSE @]
    /\ LoadAdminDetail(place.event, place.selected)
    /\ UNCHANGED <<place, tools, resolving, opened>>

OperationFails(o) ==
    /\ operations' = [operations EXCEPT !.sent = @ \ {o}]
    /\ UNCHANGED <<pages, place, detail, detailLoads, tools, resolving, opened>>

AdminDetailNext ==
    \/ MountDetail
    \/ \E e \in Event : VisitAdminEvent(e)
    \/ \E m \in Market : SelectAdminMarket(m) \/ EditMarket(m)
    \/ RetryDetail
    \/ \E e \in Event :
          \/ \E m \in MarketsOf(e), asked \in MarketsOf(e) \cup {None} : AdminDetailRead(e, asked, m)
          \/ \E asked \in Market \cup {None} : AdminLoadFails(e, asked)
    \/ \E m \in Market, ok \in BOOLEAN : PageResolutionRead(m, ok)
    \/ \E e \in Event, ok \in BOOLEAN, priced \in BOOLEAN : PageMarketsRead(e, ok, priced)
    \/ \E v \in DOMAIN detailLoads, liquidity \in BOOLEAN : PageRestRead(v, liquidity)
    \/ AddMarketToEvent
    \/ CloseCreation
    \/ BootstrapEventClicked
    \/ AdminEventFound
    \/ AdminEventMissing
    \/ \E tab \in Tab : SwitchTab(tab)
    \/ CloseOperations
    \/ \E form \in PriceForm \cup LiquidityForm : SubmitOperation(form)
    \/ \E o \in operations.sent : OperationApplied(o) \/ OperationFails(o)

AdminDetailSpec == AdminDetailInit /\ [][AdminDetailNext]_detailVars

\* Prices and liquidity go to the market the admin asked for the modal on, by a
\* button of that market or by Bootstrap event while it was selected, at once or
\* when the admin event is found: as long as the modal is open the page keeps
\* showing that market's event, neither a late view nor a reload changes the
\* market under the form, and an answer shown under it is about that market.  A
\* look-up that outlives the market it was asked on (its event was left, or a
\* modal opened meanwhile was closed) is the one exception: it opens the modal
\* with no market asked for, over the one the page shows by then, and nothing
\* keeps that one from changing under the form.
OperatesOnWhatWasOpened ==
    /\ opened # None =>
          /\ OperationsShown
          /\ ActiveMarket = opened
          /\ detail.data.event = place.event
          /\ \A r \in operations.results : r.market = opened
    /\ tools.open /\ opened = None => tools.slug = None
=============================================================================
