------------------------------ MODULE ChartPanel ------------------------------
(***************************************************************************)
(* MarketPricePanel of the public site: the price chart and order book of  *)
(* the market the page shows.  The panel keeps the histories it has read   *)
(* by market and range and the trades by market.  The page hands it a      *)
(* market each time it is published again, not only when it changes.       *)
(***************************************************************************)
EXTENDS Site

CONSTANTS ChartMarket,     \* the markets the page hands the panel
          ChartRange,      \* the ranges a visitor may choose: chartRanges
          Window,          \* the length of each, None for ALL
          Whole,           \* the price of a full share
          Instant,         \* the times of points and of the pointer
          HistoryAnswers,  \* the histories that may be read
          PageHistories,   \* those the page itself may hand the panel
          TradeAnswers,    \* the trades a market may have
          MaxChartSteps    \* bound: publications and choices of the visitor

\* A history holds midpoints of YES, or points of either outcome; a trade has
\* the price of both.  Neither comes in time order or within bounds.
Mid == [t : Int, price : Int]

Point == [outcome : Outcome, t : Int, price : Int]

History == [mids : Seq(Mid), points : Seq(Point)]

Trade == [t : Int, yes : Int, no : Int]

\* The panel starts with the range of a day, and an answer is not "not asked yet".
ASSUME ChartAssumption ==
    /\ "1D" \in ChartRange /\ Window \in [ChartRange -> Nat \cup {None}]
    /\ Whole \in Nat
    /\ HistoryAnswers \subseteq History /\ PageHistories \subseteq History \cup {None}
    /\ TradeAnswers \subseteq Seq(Trade)
    /\ Absent \notin HistoryAnswers \cup {None}

VARIABLES chart,           \* what the panel shows and the choices made in it
          historyCache,    \* by market and range
          tradesCache,     \* by market
          historyAsked,    \* the history requests in flight
          tradesAsked,     \* the trade requests in flight
          chartSteps

chartVars == <<chart, historyCache, tradesCache, historyAsked, tradesAsked, chartSteps>>

ChartKey == ChartMarket \X ChartRange

\* buildHistoryCacheKey for what is shown.
KeyOf(c) == <<c.market, c.range>>

(***************************************************************************)
(* Points.                                                                 *)
(***************************************************************************)
\* clampProbability.
Clamp(price) == IF price < 0 THEN 0 ELSE IF price > Whole THEN Whole ELSE price

\* Points in time order; turned over, those of one outcome are the other's.
Line(points, turned) ==
    LET drawn == [i \in DOMAIN points |->
                    [t |-> points[i].t,
                     price |-> Clamp(IF turned THEN Whole - points[i].price
                                     ELSE points[i].price)]]
    IN  Sorted(drawn, [i \in DOMAIN points |-> points[i].t])

\* buildOutcomeChartPoints: midpoints first, then the outcome's own points,
\* then those of the other outcome turned over.
OutcomePoints(h, outcome) ==
    LET of(o) == Picked(h.points, {i \in DOMAIN h.points : h.points[i].outcome = o})
    IN  IF h = None THEN <<>>
        ELSE IF h.mids # <<>> THEN Line(h.mids, outcome = 1)
        ELSE IF of(outcome) # <<>> THEN Line(of(outcome), FALSE)
        ELSE Line(of(1 - outcome), TRUE)

\* buildOutcomeTradePoints: the range counts back from the last trade.
TradePoints(trades, outcome, range) ==
    LET own == [i \in DOMAIN trades |->
                  [t |-> trades[i].t,
                   price |-> IF outcome = 0 THEN trades[i].yes ELSE trades[i].no]]
        line == Line(own, FALSE)
    IN  IF trades = None THEN <<>>
        ELSE Picked(line, {i \in DOMAIN line :
                              Window[range] # None => line[i].t >= Last(line).t - Window[range]})

\* selectPreferredChartPoints: two points make a line, one does not.
PreferredPoints(history, trades) ==
    IF Len(history) >= 2 \/ (Len(trades) < 2 /\ history # <<>>) THEN history ELSE trades

\* The history cached for what is shown; the page's own for the default range.
ActiveHistory(c, histories) ==
    LET cached == histories[KeyOf(c)] IN
    IF cached \notin {Absent, None} THEN cached
    ELSE IF c.range = "1D" THEN c.seed ELSE None

ActiveTrades(c, trades) ==
    IF trades[c.market] = Absent THEN None ELSE trades[c.market]

\* The line of an outcome.
PointsOf(c, histories, trades, outcome) ==
    PreferredPoints(OutcomePoints(ActiveHistory(c, histories), outcome),
                    TradePoints(ActiveTrades(c, trades), outcome, c.range))

PrimaryPoints == PointsOf(chart, historyCache, tradesCache, chart.outcome)

SecondaryPoints ==
    IF chart.both THEN PointsOf(chart, historyCache, tradesCache, 1 - chart.outcome) ELSE <<>>

\* findNearestPointByTimestamp: the first of the nearest.
Nearest(points, t) ==
    LET far(i) == IF points[i].t < t THEN t - points[i].t ELSE points[i].t - t
        near == {i \in DOMAIN points : \A j \in DOMAIN points : far(i) <= far(j)}
    IN  points[Min(near)]

\* chartMetrics is null without a first line.
HasChart == PrimaryPoints # <<>>

\* chartMetrics: the lines drawn.  The span of time drawn runs from the first
\* point of the first line to the last point of the last one.
ChartMetrics ==
    LET visible == PrimaryPoints \o SecondaryPoints IN
    [lines |-> {PrimaryPoints, SecondaryPoints},
     from  |-> visible[1].t, to |-> Last(visible).t]

(***************************************************************************)
(* Effects.                                                                *)
(***************************************************************************)
\* The history effect after a change of c: what is cached is shown; else a new
\* request supersedes the earlier ones.
FetchHistory(c, histories) ==
    IF histories[KeyOf(c)] # Absent THEN [c EXCEPT !.loading = FALSE]
    ELSE [c EXCEPT !.loading = TRUE, !.error = FALSE, !.version = @ + 1]

\* The requests in flight then; an answer no one waits for is left out.
HistoryRequests(c, asked) ==
    IF c.version = chart.version THEN asked
    ELSE asked \cup {[version |-> c.version, key |-> KeyOf(c)]}

\* The trades effect, which knows no loading state.
FetchTrades(c) == IF tradesCache[c.market] = Absent THEN [c EXCEPT !.trades = @ + 1] ELSE c

TradeRequests(c) ==
    IF c.trades = chart.trades THEN tradesAsked
    ELSE tradesAsked \cup {[version |-> c.trades, market |-> c.market]}

ChartStep == chartSteps < MaxChartSteps /\ chartSteps' = chartSteps + 1

ChartInit ==
    \E m \in ChartMarket, h \in PageHistories :
        /\ chart = [market |-> m, seed |-> h, outcome |-> 0, tab |-> "graph", range |-> "1D",
                    both |-> FALSE, settings |-> FALSE, loading |-> TRUE, error |-> FALSE,
                    hovered |-> None, version |-> 1, trades |-> 1]
        /\ historyCache = [k \in ChartKey |-> Absent]
        /\ tradesCache = [n \in ChartMarket |-> Absent]
        /\ historyAsked = {[version |-> 1, key |-> <<m, "1D">>]}
        /\ tradesAsked = {[version |-> 1, market |-> m]}
        /\ chartSteps = 0

\* The page publishes its view: the panel's effects run again for the market of
\* the view, be it the same market or another.
MarketPublished(m, h, outcome) ==
    LET reset == [chart EXCEPT !.market = m, !.seed = h, !.outcome = outcome, !.tab = "graph",
                               !.range = "1D", !.settings = FALSE, !.error = FALSE,
                               !.loading = FALSE, !.hovered = None]
        asked == FetchTrades(FetchHistory(reset, historyCache))
    IN  /\ ChartStep
        /\ m = chart.market => outcome = chart.outcome
        /\ chart' = asked
        /\ historyAsked' = HistoryRequests(asked, historyAsked)
        /\ tradesAsked' = TradeRequests(asked)
        /\ UNCHANGED <<historyCache, tradesCache>>

SelectRange(range) ==
    LET asked == FetchHistory([chart EXCEPT !.range = range, !.hovered = None], historyCache)
    IN  /\ ChartStep
        /\ chart.tab = "graph" /\ range # chart.range
        /\ chart' = asked
        /\ historyAsked' = HistoryRequests(asked, historyAsked)
        /\ UNCHANGED <<historyCache, tradesCache, tradesAsked>>

SelectOutcome(outcome) ==
    /\ ChartStep
    /\ outcome # chart.outcome
    /\ chart' = [chart EXCEPT !.outcome = outcome, !.hovered = None]
    /\ UNCHANGED <<historyCache, tradesCache, historyAsked, tradesAsked>>

\* The tabs and the settings menu.
SelectTab(tab) ==
    /\ ChartStep
    /\ tab # chart.tab
    /\ chart' = [chart EXCEPT !.tab = tab]
    /\ UNCHANGED <<historyCache, tradesCache, historyAsked, tradesAsked>>

ToggleSettings ==
    /\ ChartStep
    /\ chart.tab = "graph"
    /\ \/ chart' = [chart EXCEPT !.settings = ~@]
       \/ chart.settings /\ chart' = [chart EXCEPT !.both = ~@]
    /\ UNCHANGED <<historyCache, tradesCache, historyAsked, tradesAsked>>

\* handleChartPointerMove.
HoverAt(t) ==
    /\ ChartStep
    /\ chart.tab = "graph" /\ HasChart
    /\ chart' = [chart EXCEPT !.hovered = Nearest(PrimaryPoints, t).t]
    /\ UNCHANGED <<historyCache, tradesCache, historyAsked, tradesAsked>>

\* Mutant of IsLatestRequest: an answer counts whatever was asked for since.
IsAnyRequest(request) == TRUE

\* version === historyRequestVersion.
IsLatestRequest(request) == request.version = chart.version

\* A failure is kept as an empty history and never asked for again.
HistoryAnswered(request, history) ==
    /\ historyAsked' = historyAsked \ {request}
    /\ IF IsLatestRequest(request)
       THEN /\ historyCache' = [historyCache EXCEPT ![request.key] = history]
            /\ chart' = [chart EXCEPT !.loading = FALSE, !.error = (history = None) \/ @]
       ELSE UNCHANGED <<chart, historyCache>>
    /\ UNCHANGED <<tradesCache, tradesAsked, chartSteps>>

TradesAnswered(request, trades) ==
    /\ tradesAsked' = tradesAsked \ {request}
    /\ tradesCache' = IF request.version = chart.trades
                      THEN [tradesCache EXCEPT ![request.market] = trades] ELSE tradesCache
    /\ UNCHANGED <<chart, historyCache, historyAsked, chartSteps>>

ChartVisitor ==
    \/ \E m \in ChartMarket, h \in PageHistories, outcome \in Outcome :
          MarketPublished(m, h, outcome)
    \/ \E range \in ChartRange : SelectRange(range)
    \/ \E outcome \in Outcome : SelectOutcome(outcome)
    \/ \E tab \in {"graph", "orderbook"} : SelectTab(tab)
    \/ ToggleSettings
    \/ \E t \in Instant : HoverAt(t)

ChartAnswer ==
    \/ \E request \in historyAsked, h \in HistoryAnswers \cup {None} : HistoryAnswered(request, h)
    \/ \E request \in tradesAsked, ts \in TradeAnswers \cup {None} : TradesAnswered(request, ts)

ChartNext == ChartVisitor \/ ChartAnswer

ChartSpec == ChartInit /\ [][ChartNext]_chartVars

\* The panel says it is loading exactly while the history of the market and
\* range shown has not come, and then its latest request is the one for it:
\* no answer for another range or market ends the loading or is awaited.
LoadingIsForWhatIsShown ==
    /\ chart.loading <=> historyCache[KeyOf(chart)] = Absent
    /\ chart.loading => [version |-> chart.version, key |-> KeyOf(chart)] \in historyAsked

\* The lines drawn are in time order and within prices, a single line fills the
\* span of time drawn, and the panel says there is no data only if neither
\* history nor trades of the market hold a point.
ChartDrawsWhatIsKnown ==
    LET h == ActiveHistory(chart, historyCache)
        t == ActiveTrades(chart, tradesCache)
    IN  IF ~HasChart
        THEN (h = None \/ (h.mids = <<>> /\ h.points = <<>>)) /\ t \in {None, <<>>}
        ELSE /\ \A p \in ChartMetrics.lines :
                   /\ \A i \in DOMAIN p : p[i].price \in 0 .. Whole
                   /\ \A i \in 1 .. Len(p) - 1 : p[i].t <= p[i + 1].t
             /\ SecondaryPoints = <<>> =>
                   \A i \in DOMAIN PrimaryPoints :
                      PrimaryPoints[i].t \in ChartMetrics.from .. ChartMetrics.to

\* However the visitor and the page switch markets and ranges while answers come,
\* the panel waits for and draws what belongs to the one it shows.
ChartIsOfItsMarket == LoadingIsForWhatIsShown /\ ChartDrawsWhatIsKnown
=============================================================================
