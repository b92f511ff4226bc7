------------------------------- MODULE PageProofs -------------------------------
(***************************************************************************)
(* The pages of the two sites, for any markets, accounts and answers: what *)
(* they show is what they are asked for by now, whatever overtakes what.   *)
(***************************************************************************)
EXTENDS Browse, Comments, ChartPanel, AdminCreation, HomeFeed, FiniteSetTheorems,
        SequenceTheorems, TLAPS

-----------------------------------------------------------------------------
(* Sorting and filtering *)

\* S are positions of an array, and each has a key.
SortKey(S, key) ==
    /\ IsFiniteSet(S) /\ S \subseteq Int
    /\ \A x \in S : key[x] \in Int

Before(key, y, x) == key[y] < key[x] \/ (key[y] = key[x] /\ y < x)

Below(S, key, x) == {y \in S : Before(key, y, x)}

LEMMA BelowCount ==
    ASSUME NEW S, NEW key, NEW x \in S, SortKey(S, key)
    PROVE  /\ IsFiniteSet(Below(S, key, x))
           /\ Cardinality(Below(S, key, x)) \in 0 .. Cardinality(S) - 1
<1>1. Below(S, key, x) \in SUBSET S /\ x \notin Below(S, key, x)
  BY DEF Below, Before, SortKey
<1>2. IsFiniteSet(Below(S, key, x)) /\ Cardinality(Below(S, key, x)) <= Cardinality(S)
      /\ Cardinality(Below(S, key, x)) # Cardinality(S)
  BY <1>1, FS_Subset DEF SortKey
<1>3. Cardinality(S) \in Nat /\ Cardinality(Below(S, key, x)) \in Nat
  BY <1>2, FS_CardinalityType DEF SortKey
<1> QED
  BY <1>2, <1>3

\* What comes before has a smaller rank.
LEMMA BelowGrows ==
    ASSUME NEW S, NEW key, NEW x \in S, NEW y \in S, SortKey(S, key), Before(key, x, y)
    PROVE  Cardinality(Below(S, key, x)) < Cardinality(Below(S, key, y))
<1>1. ASSUME NEW z \in Below(S, key, x) PROVE z \in Below(S, key, y)
  <2>1. z \in S /\ Before(key, z, x)
    BY DEF Below
  <2>2. key[x] \in Int /\ key[y] \in Int /\ key[z] \in Int /\ x \in Int /\ y \in Int /\ z \in Int
    BY <2>1 DEF SortKey
  <2>3. Before(key, z, y)
    BY <2>1, <2>2 DEF Before
  <2> QED
    BY <2>1, <2>3 DEF Below
<1>2. x \in Below(S, key, y) /\ x \notin Below(S, key, x)
  BY DEF Below, Before, SortKey
<1>3. IsFiniteSet(Below(S, key, x)) /\ IsFiniteSet(Below(S, key, y))
  BY BelowCount
<1>4. /\ Cardinality(Below(S, key, x)) <= Cardinality(Below(S, key, y))
      /\ Cardinality(Below(S, key, x)) # Cardinality(Below(S, key, y))
  BY <1>1, <1>2, <1>3, FS_Subset
<1> QED
  BY <1>3, <1>4, FS_CardinalityType

\* InOrder lists each position of S once, the k-th with k - 1 positions before it.
LEMMA OrderIsOfAll ==
    ASSUME NEW S, NEW key, SortKey(S, key)
    PROVE  /\ Cardinality(S) \in Nat
           /\ InOrder(S, key) \in Bijection(1 .. Cardinality(S), S)
           /\ \A k \in 1 .. Cardinality(S) :
                 Cardinality(Below(S, key, InOrder(S, key)[k])) = k - 1
<1> DEFINE n == Cardinality(S)
           rank == [x \in S |-> Cardinality(Below(S, key, x))]
           order == InOrder(S, key)
<1>0. n \in Nat
  BY FS_CardinalityType DEF SortKey
<1>1. rank \in Injection(S, 0 .. n - 1)
  <2>1. rank \in [S -> 0 .. n - 1]
    BY BelowCount
  <2>2. ASSUME NEW x \in S, NEW y \in S, rank[x] = rank[y] PROVE x = y
    <3>1. Cardinality(Below(S, key, x)) \in Nat
      BY <1>0, BelowCount
    <3>2. ~Before(key, x, y) /\ ~Before(key, y, x)
      BY <2>2, <3>1, BelowGrows
    <3> QED
      BY <3>2 DEF SortKey, Before
  <2> QED
    BY <2>1, <2>2 DEF Injection, IsInjective
<1>2. IsFiniteSet(0 .. n - 1) /\ Cardinality(0 .. n - 1) = n
  BY <1>0, FS_Interval
<1>3. rank \in Surjection(S, 0 .. n - 1)
  BY <1>1, <1>2, FS_Injection
<1>4. ASSUME NEW k \in 1 .. n
      PROVE  order[k] \in S /\ rank[order[k]] = k - 1
  <2>1. k - 1 \in 0 .. n - 1
    BY <1>0
  <2>2. PICK x \in S : rank[x] = k - 1
    BY <1>3, <2>1 DEF Surjection
  <2>3. order[k] = CHOOSE z \in S : Cardinality(Below(S, key, z)) = k - 1
    BY DEF InOrder, Below, Before
  <2> QED
    BY <2>2, <2>3
<1>5. order = [k \in 1 .. n |-> order[k]]
  BY DEF InOrder
<1>6. order \in [1 .. n -> S]
  BY <1>4, <1>5
<1>7. ASSUME NEW j \in 1 .. n, NEW k \in 1 .. n, order[j] = order[k] PROVE j = k
  <2>1. rank[order[j]] = j - 1 /\ rank[order[k]] = k - 1
    BY <1>4
  <2>2. j - 1 = k - 1
    BY <1>7, <2>1
  <2> QED
    BY <1>0, <2>2
<1>8. ASSUME NEW x \in S PROVE \E k \in 1 .. n : order[k] = x
  <2>1. rank[x] + 1 \in 1 .. n /\ rank[x] \in Int
    BY <1>0, <1>1 DEF Injection
  <2>2. rank[order[rank[x] + 1]] = rank[x] /\ order[rank[x] + 1] \in S
    BY <1>4, <2>1
  <2> QED
    BY <1>1, <2>1, <2>2 DEF Injection, IsInjective
<1>9. \A k \in 1 .. n : Cardinality(Below(S, key, order[k])) = k - 1
  BY <1>4
<1> HIDE DEF order
<1>10. order \in Injection(1 .. n, S)
  BY <1>6, <1>7 DEF Injection, IsInjective
<1>11. order \in Surjection(1 .. n, S)
  BY <1>6, <1>8 DEF Surjection
<1> QED
  BY <1>0, <1>9, <1>10, <1>11 DEF Bijection, order

\* Of two positions, the one that comes first is listed first.
LEMMA OrderIncreases ==
    ASSUME NEW S, NEW key, SortKey(S, key),
           NEW j \in 1 .. Cardinality(S), NEW k \in 1 .. Cardinality(S), j < k
    PROVE  Before(key, InOrder(S, key)[j], InOrder(S, key)[k])
<1> DEFINE x == InOrder(S, key)[j]
           y == InOrder(S, key)[k]
<1>1. x \in S /\ y \in S
  BY OrderIsOfAll DEF Bijection, Injection
<1>2. Cardinality(Below(S, key, x)) = j - 1 /\ Cardinality(Below(S, key, y)) = k - 1
  BY OrderIsOfAll
<1>3. x # y /\ ~Before(key, y, x)
  <2>1. j \in Nat /\ k \in Nat
    BY OrderIsOfAll
  <2>2. ASSUME Before(key, y, x) PROVE FALSE
    <3>1. Cardinality(Below(S, key, y)) < Cardinality(Below(S, key, x))
      BY <1>1, <2>2, BelowGrows
    <3> QED
      BY <1>2, <2>1, <3>1
  <2> QED
    BY <1>2, <2>1, <2>2
<1>4. key[x] \in Int /\ key[y] \in Int /\ x \in Int /\ y \in Int
  BY <1>1 DEF SortKey
<1> HIDE DEF x, y
<1>5. Before(key, x, y)
  BY <1>3, <1>4 DEF Before
<1> QED
  BY <1>5 DEF x, y

\* The elements of s at order[1], .. order[n].
Along(s, order, n) == [k \in 1 .. n |-> s[order[k]]]

\* Picked takes what is at the positions S, each once, one after the other.
LEMMA PickedIsOrdered ==
    ASSUME NEW s, NEW n \in Nat, NEW S \in SUBSET (1 .. n)
    PROVE  \E order \in Bijection(1 .. Cardinality(S), S) :
              /\ Cardinality(S) \in Nat
              /\ Picked(s, S) = Along(s, order, Cardinality(S))
              /\ \A j, k \in 1 .. Cardinality(S) : j < k => order[j] < order[k]
<1> DEFINE key == [i \in S |-> i]
           order == InOrder(S, key)
<1>1. IsFiniteSet(S)
  <2>1. IsFiniteSet(1 .. n)
    BY FS_Interval
  <2> QED
    BY <2>1, FS_Subset
<1>2. SortKey(S, key)
  BY <1>1 DEF SortKey
<1>3. order \in Bijection(1 .. Cardinality(S), S)
  BY <1>2, OrderIsOfAll
<1>4. DOMAIN order = 1 .. Cardinality(S)
  BY DEF InOrder
<1>5. Picked(s, S) = [k \in DOMAIN order |-> s[order[k]]]
  BY DEF Picked
<1>6. ASSUME NEW j \in 1 .. Cardinality(S), NEW k \in 1 .. Cardinality(S), j < k
      PROVE  order[j] < order[k]
  <2>1. Before(key, order[j], order[k])
    BY <1>2, <1>6, OrderIncreases
  <2>2. order[j] \in S /\ order[k] \in S
    BY <1>3 DEF Bijection, Injection
  <2> HIDE DEF order
  <2> QED
    BY <2>1, <2>2 DEF Before
<1> HIDE DEF order
<1> QED
  BY <1>1, <1>3, <1>4, <1>5, <1>6, FS_CardinalityType DEF Along

\* A set of positions has a first.
LEMMA FirstPlace ==
    ASSUME NEW n \in Nat, NEW S \in SUBSET (1 .. n), S # {}
    PROVE  \E x \in S : \A y \in S : x <= y
<1> DEFINE key == [i \in S |-> i]
           x == InOrder(S, key)[1]
<1>1. IsFiniteSet(S)
  <2>1. IsFiniteSet(1 .. n)
    BY FS_Interval
  <2> QED
    BY <2>1, FS_Subset
<1>2. SortKey(S, key)
  BY <1>1 DEF SortKey
<1>3. Cardinality(S) \in Nat /\ Cardinality(S) # 0
  BY <1>1, FS_EmptySet, FS_CardinalityType
<1>4. 1 \in 1 .. Cardinality(S)
  BY <1>3
<1>5. Cardinality(Below(S, key, x)) = 1 - 1
  BY <1>2, <1>4, OrderIsOfAll
<1>6. x \in S
  BY <1>2, <1>4, OrderIsOfAll DEF Bijection, Injection
<1> HIDE DEF x
<1>7. IsFiniteSet(Below(S, key, x))
  BY <1>2, <1>6, BelowCount
<1>8. Below(S, key, x) = {}
  <2>1. 1 - 1 = 0
    OBVIOUS
  <2> QED
    BY <1>5, <1>7, <2>1, FS_EmptySet
<1>9. ASSUME NEW y \in S PROVE x <= y
  <2>1. ~Before(key, y, x)
    BY <1>8 DEF Below
  <2> QED
    BY <1>6, <2>1 DEF Before
<1> QED
  BY <1>6, <1>9

\* Sorted takes every element once, by increasing key.
LEMMA SortedIsOrdered ==
    ASSUME NEW s, NEW n \in Nat, DOMAIN s = 1 .. n, NEW key, \A i \in 1 .. n : key[i] \in Int
    PROVE  \E order \in Bijection(1 .. n, 1 .. n) :
              /\ Sorted(s, key) = Along(s, order, n)
              /\ \A j, k \in 1 .. n : j < k => key[order[j]] <= key[order[k]]
<1> DEFINE order == InOrder(1 .. n, key)
<1>1. IsFiniteSet(1 .. n) /\ Cardinality(1 .. n) = n
  BY FS_Interval
<1>2. SortKey(1 .. n, key)
  BY <1>1 DEF SortKey
<1>3. order \in Bijection(1 .. n, 1 .. n)
  BY <1>1, <1>2, OrderIsOfAll
<1>4. Sorted(s, key) = [k \in 1 .. n |-> s[order[k]]]
  BY DEF Sorted
<1>5. ASSUME NEW j \in 1 .. n, NEW k \in 1 .. n, j < k PROVE key[order[j]] <= key[order[k]]
  <2>1. Before(key, order[j], order[k])
    BY <1>1, <1>2, <1>5, OrderIncreases
  <2>2. order[j] \in 1 .. n /\ order[k] \in 1 .. n
    BY <1>3 DEF Bijection, Injection
  <2> HIDE DEF order
  <2> QED
    BY <2>1, <2>2 DEF Before
<1> HIDE DEF order
<1> QED
  BY <1>3, <1>4, <1>5 DEF Along

-----------------------------------------------------------------------------
(* Browsing *)

AnswerType ==
    [of : Addresses \cup {None}, markets : Seq(Market), late : SUBSET Event,
     parts : SUBSET MarketParts]

ScreenType ==
    [status : {"loading", "ready", "idle", "error", "unauthenticated"}, version : Nat,
     data : AnswerType \cup {None}, failed : BOOLEAN, latest : Addresses \cup {None}]

RequestType ==
    [version : Nat, of : Addresses \cup {None}, stage : {"timer", "read", "parts"},
     background : BOOLEAN]

BrowseTyped ==
    /\ addressed \in Addresses \cup {None}
    /\ screen \in ScreenType
    /\ asked \subseteq RequestType
    /\ dropdown \in [focused : BOOLEAN, active : Int]
    /\ tabs \in [known : [categories : SUBSET Slugs, tags : SUBSET Slugs],
                 cached : BOOLEAN, inflight : BOOLEAN]

\* A version is of one request, and none is of a version to come.
AskedInTurn ==
    /\ \A r \in asked : r.version <= screen.version
    /\ \A r, s \in asked : r.version = s.version => r = s

\* The latest request is for what the screen is addressed by, or that asks for
\* nothing.
LatestIsOfAddress ==
    /\ \A r \in asked : IsLatestAsk(r) => r.of = screen.latest
    /\ Answerable(addressed) => screen.latest = addressed

\* A market whose parts are read is the one on screen.
PartsAreOfData ==
    \A r \in asked : IsLatestAsk(r) /\ r.stage = "parts" =>
        kind = "market" /\ screen.data \in AnswerType /\ screen.data.of = r.of

\* What is shown as ready, and what the search field lists at all, answers the
\* latest request.
DataIsOfLatest ==
    /\ screen.status = "ready" \/ kind = "navbar"
    /\ screen.data # None
    => screen.data.of = screen.latest

\* A result is highlighted only while the list stays as it is.
HighlightStays ==
    /\ kind # "navbar" => dropdown.active < 0
    /\ kind = "navbar" => \A r \in asked : IsLatestAsk(r) => screen.data = None
    /\ dropdown.active < Len(Results)

BrowseInv ==
    /\ BrowseTyped /\ AskedInTurn /\ LatestIsOfAddress /\ PartsAreOfData
    /\ DataIsOfLatest /\ HighlightStays

LEMMA BrowseStarts == BrowseInit => BrowseInv
<1> SUFFICES ASSUME BrowseInit PROVE BrowseInv
  OBVIOUS
<1>1. BrowseTyped
  BY DEF BrowseInit, BrowseTyped, Blank, ScreenType
<1> QED
  BY <1>1 DEF BrowseInit, BrowseInv, AskedInTurn, LatestIsOfAddress, PartsAreOfData,
              DataIsOfLatest, HighlightStays, Blank, Results

\* A request of a new version, for what the screen is addressed by from now on.
LEMMA BrowseAsks ==
    ASSUME BrowseInv, NEW r \in RequestType, NEW kept \in SUBSET asked,
           asked' = kept \cup {r}, screen' \in ScreenType,
           screen'.version = screen.version + 1,
           screen'.latest = addressed',
           r.version = screen'.version, r.of = addressed', r.stage # "parts",
           addressed' \in Addresses \cup {None}, UNCHANGED <<kind, tabs>>,
           dropdown' \in [focused : BOOLEAN, active : Int], dropdown'.active < 0,
           kind = "navbar" => screen'.data = None,
           screen'.status = "ready" => screen'.data.of = addressed'
    PROVE  BrowseInv'
<1>1. BrowseTyped /\ screen.version \in Nat /\ Addresses' = Addresses
  BY DEF BrowseInv, BrowseTyped, ScreenType, Addresses
<1>2. \A s \in kept : s \in asked /\ s.version \in Nat /\ s.version <= screen.version
  BY DEF BrowseInv, BrowseTyped, AskedInTurn, RequestType
<1>3. BrowseTyped' /\ AskedInTurn'
  BY <1>1, <1>2 DEF BrowseTyped, AskedInTurn, BrowseInv, ScreenType, AnswerType, RequestType
<1>4. \A s \in asked' : IsLatestAsk(s)' => s = r
  BY <1>1, <1>2 DEF IsLatestAsk
<1>5. LatestIsOfAddress' /\ PartsAreOfData'
  BY <1>4 DEF LatestIsOfAddress, PartsAreOfData
<1>6. DataIsOfLatest'
  BY DEF DataIsOfLatest
<1>7. Len(Results') \in Nat
  BY DEF Results, ScreenType, AnswerType
<1>8. HighlightStays'
  BY <1>4, <1>7 DEF HighlightStays, Results
<1> QED
  BY <1>3, <1>5, <1>6, <1>8 DEF BrowseInv

\* There is nothing to ask: what is asked still comes, for nobody.
LEMMA BrowseRests ==
    ASSUME BrowseInv, asked' \subseteq asked, screen' \in ScreenType,
           screen'.version = screen.version, screen'.latest = screen.latest,
           screen'.data = None,
           addressed' \in Addresses \cup {None}, UNCHANGED <<kind, tabs>>,
           ~Answerable(addressed)', kind # "market",
           dropdown' \in [focused : BOOLEAN, active : Int], dropdown'.active < 0
    PROVE  BrowseInv'
<1>1. BrowseTyped /\ screen.version \in Nat /\ Addresses' = Addresses
  BY DEF BrowseInv, BrowseTyped, ScreenType, Addresses
<1>2. Len(Results') \in Nat
  BY DEF Results
<1>3. BrowseTyped' /\ AskedInTurn'
  BY <1>1 DEF BrowseTyped, AskedInTurn, BrowseInv, ScreenType, AnswerType, RequestType
<1>4. LatestIsOfAddress' /\ PartsAreOfData' /\ DataIsOfLatest'
  BY DEF LatestIsOfAddress, PartsAreOfData, DataIsOfLatest, BrowseInv, IsLatestAsk
<1>5. HighlightStays'
  BY <1>2 DEF HighlightStays, Results
<1> QED
  BY <1>3, <1>4, <1>5 DEF BrowseInv

LEMMA ScreenAsking ==
    ASSUME screen \in ScreenType, NEW a \in Addresses \cup {None},
           NEW data \in AnswerType \cup {None}
    PROVE  /\ Asking(a, data) \in ScreenType
           /\ Asking(a, data).version = screen.version + 1
           /\ Asking(a, data).data = data
           /\ Asking(a, data).latest = a
           /\ Asking(a, data).status = "loading"
BY DEF Asking, ScreenType

LEMMA ScreenResting ==
    ASSUME screen \in ScreenType, NEW status \in {"idle", "unauthenticated"}
    PROVE  /\ Resting(status) \in ScreenType
           /\ Resting(status).version = screen.version
           /\ Resting(status).latest = screen.latest
           /\ Resting(status).data = None
BY DEF Resting, ScreenType

LEMMA RequestOf ==
    ASSUME screen \in ScreenType, NEW a \in Addresses \cup {None},
           NEW stage \in {"timer", "read"}, NEW background \in BOOLEAN
    PROVE  /\ Request(a, stage, background) \in RequestType
           /\ Request(a, stage, background).version = screen.version + 1
           /\ Request(a, stage, background).of = a
           /\ Request(a, stage, background).stage = stage
BY DEF Request, RequestType, ScreenType

LEMMA BrowseAsksFor ==
    ASSUME BrowseInv, NEW a \in Addresses \cup {None}, addressed' = a,
           NEW stage \in {"timer", "read"}, NEW background \in BOOLEAN,
           NEW data \in AnswerType \cup {None}, NEW kept \in SUBSET asked,
           screen' = Asking(a, data), asked' = kept \cup {Request(a, stage, background)},
           kind = "navbar" => data = None, UNCHANGED <<kind, tabs>>,
           dropdown' \in [focused : BOOLEAN, active : Int], dropdown'.active < 0
    PROVE  BrowseInv'
<1>1. screen \in ScreenType
  BY DEF BrowseInv, BrowseTyped
<1>2. PICK r : r = Request(a, stage, background)
  OBVIOUS
<1>3. r \in RequestType /\ r.version = screen.version + 1 /\ r.of = a /\ r.stage # "parts"
  BY <1>1, <1>2, RequestOf
<1>4. /\ screen' \in ScreenType /\ screen'.version = screen.version + 1
      /\ screen'.data = data /\ screen'.status # "ready" /\ screen'.latest = a
  BY <1>1, ScreenAsking
<1> QED
  BY <1>2, <1>3, <1>4, BrowseAsks

LEMMA BrowseLoads ==
    ASSUME BrowseInv, NEW a \in Addresses \cup {None}, NEW effect \in BOOLEAN,
           addressed' = a, Load(a, effect), UNCHANGED <<kind, tabs>>,
           dropdown' \in [focused : BOOLEAN, active : Int], dropdown'.active < 0
    PROVE  BrowseInv'
<1>1. screen \in ScreenType /\ screen.data \in AnswerType \cup {None}
  BY DEF BrowseInv, BrowseTyped, ScreenType
<1>2. addressed' \in Addresses \cup {None} /\ None \in AnswerType \cup {None}
  OBVIOUS
<1>3. (Answerable(addressed)' => Answerable(a)) /\ (Answerable(a) => Answerable(addressed)')
  BY DEF Answerable
<1>4. CASE kind = "search" /\ LoadSearch(a)
  <2>1. CASE LongEnough(a)
    <3>1. screen' = Asking(a, screen.data) /\ asked' = asked \cup {Request(a, "read", FALSE)}
      BY <1>4, <2>1 DEF LoadSearch
    <3> QED
      BY <1>1, <1>2, <1>4, <3>1, BrowseAsksFor
  <2>2. CASE ~LongEnough(a)
    <3>1. screen' = Resting("idle") /\ asked' = asked
      BY <1>4, <2>2 DEF LoadSearch
    <3>2. ~Answerable(addressed)'
      BY <1>3, <1>4, <2>2 DEF Answerable
    <3> QED
      BY <1>1, <1>2, <1>4, <3>1, <3>2, ScreenResting, BrowseRests
  <2> QED
    BY <2>1, <2>2
<1>5. CASE kind = "feed" /\ LoadFeed(a, effect)
  <2> DEFINE seeded == effect /\ \E e \in StoredEvents : MatchesCached(e, a)
             seed == [of |-> a, markets |-> <<>>, late |-> {}, parts |-> {}]
  <2>1. /\ screen' = IF seeded THEN [Asking(a, seed) EXCEPT !.status = "ready"]
                     ELSE Asking(a, IF effect THEN None ELSE screen.data)
        /\ asked' = asked \cup {Request(a, "read", seeded)}
    BY <1>5 DEF LoadFeed
  <2>2. seed \in AnswerType /\ seed.of = a /\ seeded \in BOOLEAN
    BY DEF AnswerType
  <2> HIDE DEF seeded, seed
  <2>3. PICK asking : asking = Asking(a, seed)
    OBVIOUS
  <2>4. /\ asking \in ScreenType /\ asking.version = screen.version + 1 /\ asking.data = seed
        /\ asking.latest = a
    BY <1>1, <2>2, <2>3, ScreenAsking
  <2>5. CASE seeded
    <3>1. screen' = [asking EXCEPT !.status = "ready"]
      BY <2>1, <2>3, <2>5
    <3>2. /\ screen' \in ScreenType
          /\ screen'.version = screen.version + 1 /\ screen'.data = seed
          /\ screen'.latest = a
      BY <2>4, <3>1 DEF ScreenType
    <3>3. PICK r : r = Request(a, "read", seeded)
      OBVIOUS
    <3>4. /\ r \in RequestType /\ r.version = screen.version + 1
          /\ r.of = a /\ r.stage # "parts"
      BY <1>1, <2>2, <3>3, RequestOf
    <3> QED
      BY <1>5, <2>1, <2>2, <3>2, <3>3, <3>4, BrowseAsks
  <2>6. CASE ~seeded
    <3>1. PICK data \in AnswerType \cup {None} : screen' = Asking(a, data)
      BY <1>1, <2>1, <2>6
    <3> QED
      BY <1>1, <1>2, <1>5, <2>1, <2>2, <3>1, BrowseAsksFor
  <2> QED
    BY <2>5, <2>6
<1>6. CASE kind = "portfolio" /\ LoadPortfolio(a)
  <2>1. CASE a # None
    <3>1. screen' = Asking(a, screen.data) /\ asked' = asked \cup {Request(a, "read", FALSE)}
      BY <1>6, <2>1 DEF LoadPortfolio
    <3> QED
      BY <1>1, <1>2, <1>6, <3>1, BrowseAsksFor
  <2>2. CASE a = None
    <3>1. screen' = Resting("unauthenticated") /\ asked' = asked
      BY <1>6, <2>2 DEF LoadPortfolio
    <3>2. ~Answerable(addressed)'
      BY <1>3, <1>6, <2>2 DEF Answerable
    <3> QED
      BY <1>1, <1>2, <1>6, <3>1, <3>2, ScreenResting, BrowseRests
  <2> QED
    BY <2>1, <2>2
<1>7. CASE kind = "navbar" /\ StartSearch(a)
  <2> DEFINE kept == {r \in asked : r.stage # "timer"}
  <2>1. CASE LongEnough(a)
    <3>1. screen' = Asking(a, None) /\ asked' = kept \cup {Request(a, "timer", FALSE)}
      BY <1>7, <2>1 DEF StartSearch
    <3>2. kept \in SUBSET asked
      OBVIOUS
    <3> HIDE DEF kept
    <3> QED
      BY <1>2, <1>7, <3>1, <3>2, BrowseAsksFor
  <2>2. CASE ~LongEnough(a)
    <3>1. screen' = Resting("idle") /\ asked' \subseteq asked
      BY <1>7, <2>2 DEF StartSearch
    <3>2. ~Answerable(addressed)'
      BY <1>3, <1>7, <2>2 DEF Answerable
    <3> QED
      BY <1>1, <1>2, <1>7, <3>1, <3>2, ScreenResting, BrowseRests
  <2> QED
    BY <2>1, <2>2
<1>8. CASE kind \notin {"search", "feed", "portfolio", "navbar"} /\ LoadResource(a)
  <2>1. screen' = Asking(a, None) /\ asked' = asked \cup {Request(a, "read", FALSE)}
    BY <1>8 DEF LoadResource
  <2> QED
    BY <1>1, <1>2, <1>8, <2>1, BrowseAsksFor
<1> QED
  BY <1>4, <1>5, <1>6, <1>7, <1>8 DEF Load

\* An answer changes what is asked and, if it is the latest one, the screen.
LEMMA BrowseAnswers ==
    ASSUME BrowseInv, NEW r \in asked, asked' \subseteq asked, r \notin asked',
           UNCHANGED <<kind, addressed, dropdown, tabs>>,
           screen' \in ScreenType, screen'.version = screen.version,
           screen'.latest = screen.latest,
           screen' = screen \/ IsLatestAsk(r),
           screen' # screen => \/ screen'.data \in {None, screen.data}
                               \/ screen'.data \in AnswerType /\ screen'.data.of = r.of,
           screen'.status = "ready" => \/ screen.status = "ready"
                                       \/ screen'.data # None => screen'.data.of = r.of
    PROVE  BrowseInv'
<1>1. BrowseTyped /\ Addresses' = Addresses /\ AnswerType' = AnswerType
  BY DEF BrowseInv, BrowseTyped, Addresses, AnswerType
<1>2. BrowseTyped' /\ AskedInTurn'
  BY <1>1 DEF BrowseTyped, AskedInTurn, BrowseInv, ScreenType, AnswerType, RequestType
<1>3. (Answerable(addressed)' => Answerable(addressed)) /\ \A s : IsLatestAsk(s)' => IsLatestAsk(s)
  BY DEF Answerable, IsLatestAsk
<1>4. LatestIsOfAddress'
  BY <1>3 DEF LatestIsOfAddress, BrowseInv
<1>5. CASE screen' = screen
  <2>0. Results' = Results
    BY <1>5 DEF Results
  <2>1. PartsAreOfData'
    BY <1>1, <1>3, <1>5 DEF PartsAreOfData, BrowseInv
  <2>2. DataIsOfLatest'
    BY <1>3, <1>5 DEF DataIsOfLatest, BrowseInv
  <2>3. HighlightStays'
    BY <1>3, <1>5, <2>0 DEF HighlightStays, BrowseInv
  <2> QED
    BY <1>2, <1>4, <2>1, <2>2, <2>3 DEF BrowseInv
<1>6. CASE screen' # screen
  <2>1. \A s \in asked' : ~IsLatestAsk(s)'
    BY <1>3, <1>6 DEF BrowseInv, AskedInTurn, IsLatestAsk
  <2>2. PartsAreOfData'
    BY <2>1 DEF PartsAreOfData
  <2>3. r.of = screen.latest
    BY <1>6 DEF BrowseInv, LatestIsOfAddress
  <2>4. DataIsOfLatest'
    BY <1>3, <1>6, <2>3 DEF BrowseInv, DataIsOfLatest
  <2>5. Len(Results') \in Nat /\ dropdown.active \in Int
    BY <1>1, <1>6 DEF Results, BrowseTyped, ScreenType, AnswerType
  <2>6. dropdown.active < 0
    <3>1. kind = "navbar" => Results = <<>>
      BY <1>6 DEF BrowseInv, HighlightStays, Results
    <3> QED
      BY <3>1 DEF BrowseInv, HighlightStays
  <2>7. HighlightStays'
    BY <2>1, <2>5, <2>6 DEF HighlightStays
  <2> QED
    BY <1>2, <1>4, <2>2, <2>4, <2>7 DEF BrowseInv
<1> QED
  BY <1>5, <1>6

LEMMA BrowseMoves == BrowseInv /\ [BrowseNext]_browseVars => BrowseInv'
<1> SUFFICES ASSUME BrowseInv, [BrowseNext]_browseVars PROVE BrowseInv'
  OBVIOUS
<1>1. /\ addressed \in Addresses \cup {None} /\ screen \in ScreenType
      /\ asked \subseteq RequestType /\ screen.version \in Nat
      /\ dropdown \in [focused : BOOLEAN, active : Int]
      /\ screen.data \in AnswerType \cup {None}
  BY DEF BrowseInv, BrowseTyped, ScreenType
<1>2. ASSUME NEW a \in Addresses, OpenAddress(a) PROVE BrowseInv'
  <2>1. addressed' = a /\ Load(a, TRUE) /\ UNCHANGED <<kind, tabs>>
    BY <1>2 DEF OpenAddress
  <2>2. dropdown' \in [focused : BOOLEAN, active : Int] /\ dropdown'.active < 0
    BY <1>1, <1>2 DEF OpenAddress
  <2> QED
    BY <2>1, <2>2, BrowseLoads
<1>3. CASE RetryAsk
  <2>1. dropdown'.active < 0
    BY <1>3 DEF RetryAsk, BrowseInv, HighlightStays
  <2> QED
    BY <1>1, <1>3, <2>1, BrowseLoads DEF RetryAsk
<1>4. ASSUME NEW r \in asked, TimerEnds(r) PROVE BrowseInv'
  <2>1. PICK sent : sent = [r EXCEPT !.stage = "read"]
    OBVIOUS
  <2>2. /\ sent \in RequestType /\ sent.version = r.version
        /\ sent.of = r.of /\ sent.stage = "read"
    BY <1>1, <2>1 DEF RequestType
  <2>3. asked' = (asked \ {r}) \cup {sent} /\ UNCHANGED <<kind, addressed, screen, dropdown, tabs>>
    BY <1>4, <2>1 DEF TimerEnds
  <2>4. \A s \in asked' : \E o \in asked : /\ o.version = s.version /\ o.of = s.of
                                           /\ s = o \/ (o = r /\ s = sent)
    BY <2>2, <2>3
  <2>5. /\ Addresses' = Addresses /\ AnswerType' = AnswerType
        /\ Results' = Results /\ Answerable(addressed)' = Answerable(addressed)
        /\ \A s : IsLatestAsk(s)' = IsLatestAsk(s)
    BY <2>3 DEF Addresses, AnswerType, Results, Answerable, IsLatestAsk
  <2>6. BrowseTyped'
    BY <2>2, <2>3, <2>5 DEF BrowseInv, BrowseTyped, ScreenType, RequestType
  <2>7. AskedInTurn'
    BY <2>2, <2>3 DEF BrowseInv, AskedInTurn
  <2>8. LatestIsOfAddress'
    BY <2>2, <2>3, <2>5 DEF BrowseInv, LatestIsOfAddress, IsLatestAsk
  <2>9. PartsAreOfData'
    BY <2>2, <2>3, <2>5 DEF BrowseInv, PartsAreOfData, IsLatestAsk
  <2>10. DataIsOfLatest'
    BY <2>3, <2>5 DEF BrowseInv, DataIsOfLatest
  <2>11. HighlightStays'
    BY <2>2, <2>3, <2>5 DEF BrowseInv, HighlightStays, IsLatestAsk
  <2> QED
    BY <2>6, <2>7, <2>8, <2>9, <2>10, <2>11 DEF BrowseInv
<1>5. ASSUME NEW r \in asked, NEW markets \in Found, NEW late \in SUBSET Event,
             AskAnswered(r, markets, late)
      PROVE  BrowseInv'
  <2> DEFINE data == [of |-> r.of, markets |-> markets, late |-> late, parts |-> {}]
  <2>1. data \in AnswerType /\ data.of = r.of
    BY <1>1, BrowseAssumption DEF AnswerType, RequestType
  <2>2. /\ screen' = IF ~IsLatestAsk(r) THEN screen
                     ELSE IF kind = "market" THEN [screen EXCEPT !.data = data]
                     ELSE [screen EXCEPT !.data = data, !.status = "ready"]
        /\ asked' = (asked \ {r}) \cup
                IF kind = "market" /\ IsLatestAsk(r) THEN {[r EXCEPT !.stage = "parts"]} ELSE {}
        /\ UNCHANGED <<kind, addressed, dropdown, tabs>>
    BY <1>5 DEF AskAnswered
  <2> HIDE DEF data
  <2>3. /\ screen' \in ScreenType /\ screen'.version = screen.version
        /\ screen'.latest = screen.latest
        /\ IsLatestAsk(r) => screen'.data = data
        /\ screen' = screen \/ IsLatestAsk(r)
    BY <1>1, <2>1, <2>2 DEF ScreenType
  <2>4. CASE ~(kind = "market" /\ IsLatestAsk(r))
    <3>1. asked' \subseteq asked /\ r \notin asked'
      BY <2>2, <2>4
    <3>2. screen' = screen \/ screen'.data = data
      BY <2>3
    <3> QED
      BY <2>1, <2>2, <2>3, <3>1, <3>2, BrowseAnswers
  <2>5. CASE kind = "market" /\ IsLatestAsk(r)
    <3>1. PICK sent : sent = [r EXCEPT !.stage = "parts"]
      OBVIOUS
    <3>2. /\ sent \in RequestType /\ sent.version = r.version
          /\ sent.of = r.of /\ sent.stage = "parts"
      BY <1>1, <3>1 DEF RequestType
    <3>3. /\ asked' = (asked \ {r}) \cup {sent} /\ screen'.data = data
          /\ screen'.status = screen.status
      BY <1>1, <2>2, <2>5, <3>1 DEF ScreenType
    <3>4. /\ Addresses' = Addresses /\ AnswerType' = AnswerType
          /\ Answerable(addressed)' = Answerable(addressed)
          /\ \A s : IsLatestAsk(s)' = IsLatestAsk(s)
      BY <2>2, <2>3 DEF Addresses, AnswerType, Answerable, IsLatestAsk
    <3>5. BrowseTyped'
      BY <2>2, <2>3, <3>2, <3>3, <3>4 DEF BrowseInv, BrowseTyped, ScreenType, RequestType
    <3>6. AskedInTurn'
      BY <2>3, <3>2, <3>3 DEF BrowseInv, AskedInTurn
    <3>7. LatestIsOfAddress'
      BY <2>2, <2>3, <3>2, <3>3, <3>4 DEF BrowseInv, LatestIsOfAddress, IsLatestAsk
    <3>8. \A s \in asked' : IsLatestAsk(s)' => s = sent
      BY <2>5, <3>3, <3>4 DEF BrowseInv, AskedInTurn, IsLatestAsk
    <3>9. PartsAreOfData'
      BY <2>1, <2>2, <2>5, <3>2, <3>3, <3>4, <3>8 DEF PartsAreOfData
    <3>10. r.of = screen.latest
      BY <2>5 DEF BrowseInv, LatestIsOfAddress
    <3>11. DataIsOfLatest'
      BY <2>1, <2>2, <2>3, <3>3, <3>4, <3>10 DEF DataIsOfLatest
    <3>12. Len(Results') \in Nat /\ dropdown.active \in Int /\ dropdown.active < 0
      BY <1>1, <2>1, <2>5, <3>3 DEF Results, AnswerType, BrowseInv, HighlightStays
    <3>13. HighlightStays'
      BY <2>2, <2>5, <3>12 DEF HighlightStays
    <3> QED
      BY <3>5, <3>6, <3>7, <3>9, <3>11, <3>13 DEF BrowseInv
  <2> QED
    BY <2>4, <2>5
<1>6. ASSUME NEW r \in asked, NEW parts \in SUBSET MarketParts, PartsRead(r, parts)
      PROVE  BrowseInv'
  <2>1. /\ screen' = IF IsLatestAsk(r)
                     THEN [screen EXCEPT !.data.parts = parts, !.status = "ready"] ELSE screen
        /\ asked' = asked \ {r} /\ r.stage = "parts"
        /\ UNCHANGED <<kind, addressed, dropdown, tabs>>
    BY <1>6 DEF PartsRead
  <2>2. IsLatestAsk(r) => screen.data \in AnswerType /\ screen.data.of = r.of
    BY <2>1 DEF BrowseInv, PartsAreOfData
  <2>3. CASE IsLatestAsk(r)
    <3>1. PICK data : data = [screen.data EXCEPT !.parts = parts]
      OBVIOUS
    <3>2. data \in AnswerType /\ data.of = r.of
      BY <2>2, <2>3, <3>1 DEF AnswerType
    <3>3. screen' = [screen EXCEPT !.data = data, !.status = "ready"]
      BY <1>1, <2>1, <2>3, <3>1 DEF ScreenType
    <3>4. /\ screen' \in ScreenType /\ screen'.version = screen.version /\ screen'.data = data
          /\ screen'.latest = screen.latest
      BY <1>1, <3>2, <3>3 DEF ScreenType
    <3> QED
      BY <2>1, <2>3, <3>2, <3>4, BrowseAnswers
  <2>4. CASE ~IsLatestAsk(r)
    BY <1>1, <2>1, <2>4, BrowseAnswers
  <2> QED
    BY <2>3, <2>4
<1>7. ASSUME NEW r \in asked, AnswerFails(r) PROVE BrowseInv'
  <2>1. /\ screen' = IF ~IsLatestAsk(r) THEN screen
                     ELSE IF r.background /\ screen.data # None THEN [screen EXCEPT !.failed = TRUE]
                     ELSE [screen EXCEPT !.data = None, !.failed = TRUE, !.status = "error"]
        /\ asked' = asked \ {r}
        /\ UNCHANGED <<kind, addressed, dropdown, tabs>>
    BY <1>7 DEF AnswerFails
  <2>2. /\ screen' \in ScreenType /\ screen'.version = screen.version
        /\ screen' = screen \/ IsLatestAsk(r)
        /\ screen'.latest = screen.latest
        /\ screen'.data \in {None, screen.data}
        /\ screen'.status \in {screen.status, "error"}
    BY <1>1, <2>1 DEF ScreenType
  <2> QED
    BY <2>1, <2>2, BrowseAnswers
<1>8. CASE \/ FocusSearch \/ LeaveSearch
           \/ \E i \in 0 .. 1 : PointAt(i)
           \/ AskTabs
           \/ \E categories, tags \in SUBSET Slugs : TabsRead(categories, tags)
           \/ UNCHANGED browseVars
  <2>1. UNCHANGED <<kind, addressed, screen, asked>>
    BY <1>8 DEF FocusSearch, LeaveSearch, PointAt, AskTabs, TabsRead, browseVars
  <2>2. Len(Results) \in Nat
    BY <1>1 DEF Results, AnswerType
  <2>3. /\ dropdown' \in [focused : BOOLEAN, active : Int]
        /\ \/ dropdown'.active = dropdown.active
           \/ dropdown'.active = -1
           \/ kind = "navbar" /\ dropdown'.active < Len(Results)
    <3>1. CASE FocusSearch
      BY <1>1, <3>1 DEF FocusSearch
    <3>2. CASE LeaveSearch
      <4>1. dropdown' = [focused |-> FALSE, active |-> -1]
        BY <3>2 DEF LeaveSearch
      <4> QED
        BY <4>1
    <3>3. ASSUME NEW i \in 0 .. 1, PointAt(i)
          PROVE  /\ dropdown' \in [focused : BOOLEAN, active : Int]
                 /\ kind = "navbar" /\ dropdown'.active < Len(Results)
      BY <1>1, <2>2, <3>3 DEF PointAt
    <3>4. CASE UNCHANGED dropdown
      BY <1>1, <3>4
    <3> QED
      BY <1>8, <3>1, <3>2, <3>3, <3>4 DEF AskTabs, TabsRead, browseVars
  <2>4. tabs' \in [known : [categories : SUBSET Slugs, tags : SUBSET Slugs],
                   cached : BOOLEAN, inflight : BOOLEAN]
    <3>1. tabs \in [known : [categories : SUBSET Slugs, tags : SUBSET Slugs],
                    cached : BOOLEAN, inflight : BOOLEAN]
      BY DEF BrowseInv, BrowseTyped
    <3>2. CASE AskTabs
      BY <3>1, <3>2 DEF AskTabs
    <3>3. ASSUME NEW categories \in SUBSET Slugs, NEW tags \in SUBSET Slugs,
                 TabsRead(categories, tags)
          PROVE  tabs' \in [known : [categories : SUBSET Slugs, tags : SUBSET Slugs],
                            cached : BOOLEAN, inflight : BOOLEAN]
      BY <3>3 DEF TabsRead
    <3>4. CASE UNCHANGED tabs
      BY <3>1, <3>4
    <3> QED
      BY <1>8, <3>2, <3>3, <3>4 DEF FocusSearch, LeaveSearch, PointAt, browseVars
  <2>5. /\ Addresses' = Addresses /\ AnswerType' = AnswerType /\ ScreenType' = ScreenType
        /\ RequestType' = RequestType
        /\ Results' = Results /\ Answerable(addressed)' = Answerable(addressed)
        /\ \A s : IsLatestAsk(s)' = IsLatestAsk(s)
    BY <2>1 DEF Addresses, AnswerType, ScreenType, RequestType, Results, Answerable, IsLatestAsk
  <2>6. BrowseTyped'
    BY <2>1, <2>3, <2>4, <2>5 DEF BrowseInv, BrowseTyped
  <2>7. AskedInTurn' /\ LatestIsOfAddress' /\ PartsAreOfData' /\ DataIsOfLatest'
    BY <2>1, <2>5 DEF BrowseInv, AskedInTurn, LatestIsOfAddress, PartsAreOfData, DataIsOfLatest
  <2>8. HighlightStays'
    BY <2>1, <2>2, <2>3, <2>5 DEF BrowseInv, HighlightStays
  <2> QED
    BY <2>6, <2>7, <2>8 DEF BrowseInv
<1>9. ASSUME NEW i \in 0 .. 1, OpenResult(i) PROVE BrowseInv'
  <2>1. addressed' = "" /\ Load("", TRUE) /\ UNCHANGED <<kind, tabs>> /\ kind = "navbar"
    BY <1>9 DEF OpenResult
  <2>2. "" \in Addresses
    BY <2>1 DEF Addresses, Queries
  <2>3. dropdown' = [focused |-> FALSE, active |-> -1]
    BY <1>9 DEF OpenResult
  <2>4. dropdown' \in [focused : BOOLEAN, active : Int] /\ dropdown'.active < 0
    BY <2>3
  <2> QED
    BY <2>1, <2>2, <2>4, BrowseLoads
<1> QED
  BY <1>2, <1>3, <1>4, <1>5, <1>6, <1>7, <1>8, <1>9 DEF BrowseNext

LEMMA BrowseAlways == BrowseSpec => []BrowseInv
BY BrowseStarts, BrowseMoves, PTL DEF BrowseSpec

LEMMA BrowseShows == BrowseInv => AnswersWhatIsAsked
BY DEF BrowseInv, LatestIsOfAddress, DataIsOfLatest, HighlightStays, AnswersWhatIsAsked, ShownData

\* A card has the markets of its event, each where it is one of them.
LEMMA CardHolds ==
    ASSUME NEW markets \in Seq(Market), NEW e, NEW P, P = PlacesOf(e, markets),
           NEW own, own = CardOf(e, markets).markets
    PROVE  /\ Len(own) = Cardinality(P)
           /\ \A m \in ToSet(own) : \E i \in P : m = markets[i]
           /\ \A i \in P : markets[i] \in ToSet(own)
<1>1. PICK n \in Nat : n = Len(markets) /\ DOMAIN markets = 1 .. n
  OBVIOUS
<1>2. P \in SUBSET (1 .. n)
  BY <1>1 DEF PlacesOf
<1>3. PICK all : all = Picked(markets, P)
  OBVIOUS
<1>4. PICK c \in Nat : c = Cardinality(P)
  BY <1>2, PickedIsOrdered
<1>5. PICK order \in Bijection(1 .. c, P) : all = Along(markets, order, c)
  BY <1>2, <1>3, <1>4, PickedIsOrdered
<1>6. DOMAIN all = 1 .. c /\ \A k \in 1 .. c : order[k] \in P /\ all[k] = markets[order[k]]
  BY <1>5 DEF Along, Bijection, Injection
<1>7. PICK key : key = [i \in DOMAIN all |-> SortOrder[all[i]]]
  OBVIOUS
<1>8. \A i \in 1 .. c : key[i] \in Int
  BY <1>1, <1>2, <1>6, <1>7, BrowseAssumption
<1>9. PICK sort \in Bijection(1 .. c, 1 .. c) : Sorted(all, key) = Along(all, sort, c)
  BY <1>6, <1>8, SortedIsOrdered
<1>10. own = Along(all, sort, c)
  <2>1. own = Sorted(all, key)
    BY <1>3, <1>7, Zenon DEF CardOf
  <2> QED
    BY <1>9, <2>1
<1>11. DOMAIN own = 1 .. c /\ \A k \in 1 .. c : sort[k] \in 1 .. c /\ own[k] = all[sort[k]]
  BY <1>9, <1>10 DEF Along, Bijection, Injection
<1>12. Len(own) = c
  BY <1>10 DEF Along
<1>13. ASSUME NEW m \in ToSet(own) PROVE \E i \in P : m = markets[i]
  <2>1. PICK k \in 1 .. c : m = own[k]
    BY <1>11 DEF ToSet
  <2>2. PICK j \in 1 .. c : j = sort[k] /\ m = all[j]
    BY <1>11, <2>1
  <2> QED
    BY <1>6, <2>2
<1>14. ASSUME NEW i \in P PROVE markets[i] \in ToSet(own)
  <2>1. PICK j \in 1 .. c : order[j] = i
    BY <1>5 DEF Bijection, Surjection
  <2>2. PICK k \in 1 .. c : sort[k] = j
    BY <1>9 DEF Bijection, Surjection
  <2>3. own[k] = markets[i]
    BY <1>6, <1>11, <2>1, <2>2
  <2> QED
    BY <1>11, <2>3 DEF ToSet
<1> QED
  BY <1>4, <1>12, <1>13, <1>14

\* Each event of an answer comes once.
LEMMA EventsOnce ==
    ASSUME NEW markets \in Seq(Market), NEW events, events = EventsIn(markets)
    PROVE  /\ \A i, j \in DOMAIN events : events[i] = events[j] => i = j
           /\ \A i \in DOMAIN markets : \E k \in DOMAIN events : events[k] = EventOf[markets[i]]
<1>1. PICK n \in Nat : n = Len(markets) /\ DOMAIN markets = 1 .. n
  OBVIOUS
<1>2. PICK of : of = [i \in DOMAIN markets |-> EventOf[markets[i]]]
  OBVIOUS
<1>3. PICK firsts : firsts = {i \in DOMAIN markets :
                                \A j \in PlacesOf(EventOf[markets[i]], markets) : i <= j}
  OBVIOUS
<1>4. events = Picked(of, firsts)
  BY <1>2, <1>3, Zenon DEF EventsIn
<1>5. firsts \in SUBSET (1 .. n)
  BY <1>1, <1>3
<1>6. PICK c \in Nat : c = Cardinality(firsts)
  BY <1>5, PickedIsOrdered
<1>7. PICK order \in Bijection(1 .. c, firsts) : events = Along(of, order, c)
  BY <1>4, <1>5, <1>6, PickedIsOrdered
<1>8. /\ DOMAIN events = 1 .. c
      /\ \A k \in 1 .. c : order[k] \in firsts /\ events[k] = EventOf[markets[order[k]]]
  BY <1>1, <1>2, <1>5, <1>7 DEF Along, Bijection, Injection
<1>9. ASSUME NEW i \in 1 .. c, NEW j \in 1 .. c, events[i] = events[j] PROVE i = j
  <2>1. /\ order[i] \in firsts /\ order[j] \in firsts
        /\ EventOf[markets[order[i]]] = EventOf[markets[order[j]]]
    BY <1>8, <1>9
  <2>2. order[i] <= order[j] /\ order[j] <= order[i] /\ order[i] \in Int /\ order[j] \in Int
    BY <1>1, <1>3, <2>1 DEF PlacesOf
  <2>3. order[i] = order[j]
    BY <2>2
  <2> QED
    BY <1>7, <2>3 DEF Bijection, Injection, IsInjective
<1>10. ASSUME NEW i \in 1 .. n PROVE \E k \in 1 .. c : events[k] = EventOf[markets[i]]
  <2>1. PICK P : P = PlacesOf(EventOf[markets[i]], markets)
    OBVIOUS
  <2>2. P \in SUBSET (1 .. n) /\ i \in P
    BY <1>1, <2>1 DEF PlacesOf
  <2>3. PICK x \in P : \A y \in P : x <= y
    BY <2>2, FirstPlace
  <2>4. EventOf[markets[x]] = EventOf[markets[i]] /\ x \in firsts
    BY <1>1, <1>3, <2>1, <2>3 DEF PlacesOf
  <2>5. PICK k \in 1 .. c : order[k] = x
    BY <1>7, <2>4 DEF Bijection, Surjection
  <2> QED
    BY <1>8, <2>4, <2>5
<1> QED
  BY <1>1, <1>8, <1>9, <1>10

\* The cards of an answer, whichever of the two groupings makes them: one for each
\* event, with all its markets, and a count that is theirs or, by the backend, less.
LEMMA CardsHoldAll ==
    ASSUME NEW markets \in Seq(Market), NEW events, events = EventsIn(markets),
           NEW cards, NEW counted,
           DOMAIN cards = DOMAIN events,
           \A i \in DOMAIN events :
               /\ cards[i].event = events[i]
               /\ cards[i].markets = CardOf(events[i], markets).markets
               /\ cards[i].marketCount <= CardOf(events[i], markets).marketCount
               /\ counted => cards[i].marketCount = CardOf(events[i], markets).marketCount
    PROVE  OnOneCard(markets, cards, counted)
<1>1. ASSUME NEW e
      PROVE  CardOf(e, markets).marketCount = Len(CardOf(e, markets).markets)
  BY Zenon DEF CardOf
<1>2. ASSUME NEW m \in ToSet(markets)
      PROVE  \E i \in DOMAIN cards : cards[i].event = EventOf[m] /\ m \in ToSet(cards[i].markets)
  <2>1. PICK j \in DOMAIN markets : markets[j] = m
    BY DEF ToSet
  <2>2. PICK i \in DOMAIN events : events[i] = EventOf[m]
    BY <2>1, EventsOnce
  <2>3. j \in PlacesOf(events[i], markets)
    BY <2>1, <2>2 DEF PlacesOf
  <2>4. markets[j] \in ToSet(CardOf(events[i], markets).markets)
    BY <2>3, CardHolds
  <2> QED
    BY <2>1, <2>2, <2>4
<1>3. ASSUME NEW i \in DOMAIN cards
      PROVE  /\ \A m \in ToSet(cards[i].markets) : EventOf[m] = cards[i].event
             /\ cards[i].marketCount <= Cardinality(PlacesOf(cards[i].event, markets))
             /\ counted => cards[i].marketCount = Cardinality(PlacesOf(cards[i].event, markets))
  <2>1. PICK e, own, P : e = events[i] /\ own = CardOf(e, markets).markets /\ P = PlacesOf(e, markets)
    OBVIOUS
  <2>2. Len(own) = Cardinality(P) /\ \A m \in ToSet(own) : \E k \in P : m = markets[k]
    BY <2>1, CardHolds
  <2>3. \A k \in P : EventOf[markets[k]] = events[i]
    BY <2>1 DEF PlacesOf
  <2>4. CardOf(events[i], markets).marketCount = Cardinality(P)
    BY <1>1, <2>1, <2>2
  <2>5. cards[i].event = e /\ cards[i].markets = own
    BY <2>1
  <2> QED
    BY <2>1, <2>2, <2>3, <2>4, <2>5
<1>4. \A i, j \in DOMAIN cards : cards[i].event = cards[j].event => i = j
  BY EventsOnce
<1> QED
  BY <1>2, <1>3, <1>4 DEF OnOneCard

LEMMA BrowseCards == BrowseInv => OneCardPerEvent
<1> SUFFICES ASSUME BrowseInv, ShownData # None
             PROVE  OnOneCard(ShownData.markets, Cards(ShownData), ~ListsEvents(ShownData.of))
  BY DEF OneCardPerEvent
<1>1. PICK answer : answer = ShownData
  OBVIOUS
<1>2. answer \in AnswerType
  BY <1>1 DEF ShownData, BrowseInv, BrowseTyped, ScreenType
<1>3. PICK markets \in Seq(Market) : markets = answer.markets
  BY <1>2 DEF AnswerType
<1>4. PICK events : events = EventsIn(markets)
  OBVIOUS
<1>5. PICK card : card = [i \in DOMAIN events |-> CardOf(events[i], markets)]
  OBVIOUS
<1>6. \A i \in DOMAIN events :
          /\ card[i].event = events[i] /\ card[i].marketCount \in Nat
          /\ card[i] = CardOf(events[i], markets)
  <2>1. ASSUME NEW e
        PROVE  /\ CardOf(e, markets).event = e
               /\ CardOf(e, markets).marketCount = Len(CardOf(e, markets).markets)
    BY Zenon DEF CardOf
  <2>2. ASSUME NEW e PROVE CardOf(e, markets).marketCount \in Nat
    <3>1. PICK own, P : own = CardOf(e, markets).markets /\ P = PlacesOf(e, markets)
      OBVIOUS
    <3>2. Len(own) = Cardinality(P)
      BY <3>1, CardHolds
    <3>3. Len(markets) \in Nat /\ P \in SUBSET (1 .. Len(markets))
      BY <1>3, <3>1 DEF PlacesOf
    <3>4. Cardinality(P) \in Nat
      BY <3>3, PickedIsOrdered
    <3> QED
      BY <2>1, <3>1, <3>2, <3>4
  <2> QED
    BY <1>5, <2>1, <2>2
<1>7. CASE ListsEvents(answer.of)
  <2>1. PICK cards : cards = EventCards(markets, answer.late)
    OBVIOUS
  <2>2. /\ DOMAIN cards = DOMAIN events
        /\ \A i \in DOMAIN events :
               cards[i] = [card[i] EXCEPT !.marketCount = IF events[i] \in answer.late
                                                          THEN @ - 1 ELSE @]
    BY <1>4, <1>6, <2>1 DEF EventCards
  <2>3. \A i \in DOMAIN events :
            /\ cards[i].event = events[i]
            /\ cards[i].markets = card[i].markets
            /\ cards[i].marketCount <= card[i].marketCount
    <3> SUFFICES ASSUME NEW i \in DOMAIN events
                 PROVE  /\ cards[i].event = events[i]
                        /\ cards[i].markets = card[i].markets
                        /\ cards[i].marketCount <= card[i].marketCount
      OBVIOUS
    <3>1. /\ card[i].event = events[i] /\ card[i].marketCount \in Nat
          /\ card[i] = [f \in {"event", "markets", "marketCount", "active"} |-> card[i][f]]
      <4>1. card[i] = CardOf(events[i], markets)
        BY <1>6
      <4>2. ASSUME NEW e
            PROVE  CardOf(e, markets) = [f \in {"event", "markets", "marketCount", "active"}
                                             |-> CardOf(e, markets)[f]]
        <5>1. PICK own, all : CardOf(e, markets)
                = [event |-> e, markets |-> own, marketCount |-> Len(own),
                   active |-> Cardinality(ToSet(own) \cap Active)]
          BY Zenon DEF CardOf
        <5>2. PICK n, k : CardOf(e, markets)
                = [event |-> e, markets |-> own, marketCount |-> n, active |-> k]
          BY <5>1
        <5> QED
          BY <5>2
      <4> QED
        BY <1>6, <4>1, <4>2
    <3>2. PICK n : n = IF events[i] \in answer.late THEN card[i].marketCount - 1
                       ELSE card[i].marketCount
      OBVIOUS
    <3>3. cards[i] = [card[i] EXCEPT !.marketCount = n] /\ n <= card[i].marketCount
      BY <2>2, <3>1, <3>2
    <3> QED
      BY <3>1, <3>3
  <2>4. OnOneCard(markets, cards, FALSE)
    <3>1. \A i \in DOMAIN events :
               /\ cards[i].event = events[i]
               /\ cards[i].markets = CardOf(events[i], markets).markets
               /\ cards[i].marketCount <= CardOf(events[i], markets).marketCount
               /\ FALSE => cards[i].marketCount = CardOf(events[i], markets).marketCount
      BY <1>6, <2>3
    <3> QED
      BY <1>4, <2>2, <3>1, CardsHoldAll
  <2>5. OnOneCard(markets, cards, ~ListsEvents(answer.of))
    BY <1>7, <2>4 DEF OnOneCard
  <2> QED
    BY <1>1, <1>3, <1>7, <2>1, <2>5 DEF Cards
<1>8. CASE ~ListsEvents(answer.of)
  <2>1. PICK cards : cards = MarketCards(markets)
    OBVIOUS
  <2>2. cards = card
    BY <1>4, <1>5, <2>1 DEF MarketCards
  <2>3. /\ DOMAIN cards = DOMAIN events
        /\ \A i \in DOMAIN events :
               /\ cards[i].event = events[i]
               /\ cards[i].markets = CardOf(events[i], markets).markets
               /\ cards[i].marketCount <= CardOf(events[i], markets).marketCount
               /\ TRUE => cards[i].marketCount = CardOf(events[i], markets).marketCount
    BY <1>5, <1>6, <2>2
  <2>4. OnOneCard(markets, cards, TRUE)
    BY <1>4, <2>3, CardsHoldAll
  <2>5. OnOneCard(markets, cards, ~ListsEvents(answer.of))
    BY <1>8, <2>4 DEF OnOneCard
  <2> QED
    BY <1>1, <1>3, <1>8, <2>1, <2>5 DEF Cards
<1> QED
  BY <1>7, <1>8

LEMMA BrowseTabs == BrowseInv => TabsLeadWhereTheySay
<1> SUFFICES ASSUME BrowseInv, NEW t \in TabTargets
             PROVE  /\ IsTabActive(t, FeedHref(t))
                    /\ t.kind # "search" => FeedRequest(FeedHref(t).params) = t
  BY DEF TabsLeadWhereTheySay
<1>1. tabs.known.categories \subseteq Slugs /\ tabs.known.tags \subseteq Slugs
  BY DEF BrowseInv, BrowseTyped
<1>2. \/ \E k \in {"featured", "breaking", "new"} : t = [kind |-> k, slug |-> None]
      \/ \E k \in {"category", "tag"}, s \in Slugs : t = [kind |-> k, slug |-> s]
      \/ \E q : t = [kind |-> "search", slug |-> q]
  BY <1>1 DEF TabTargets, TopicTarget
<1> QED
  BY <1>2, BrowseAssumption DEF IsTabActive, FeedHref, FeedRequest

\* A page shows the answer to its latest request, whatever overtakes it
\* (loadSearch, loadFeed, loadResource, the portfolio's effect and the timer of the
\* search field), and that request is for what the page is addressed by unless the
\* address asks for nothing; every market of the answer is on the one card of its
\* event (groupMarketsByEvent, groupEventCardsWithMarkets), and the tabs of the
\* navigation bar lead to the feeds they name.
THEOREM PagesAnswer == BrowseSpec => []ShowsWhatIsAsked
<1>1. BrowseInv => ShowsWhatIsAsked
  BY BrowseShows, BrowseCards, BrowseTabs DEF ShowsWhatIsAsked
<1> QED
  BY <1>1, BrowseAlways, PTL

-----------------------------------------------------------------------------
(* Comments *)

SectionFields ==
    {"market", "comments", "draft", "visible", "submitting", "replyTo", "replyDrafts",
     "replying", "liked", "liking", "message", "signed"}

Posts == {call \in commentCalls : call.kind = "post"}

\* The draft is locked while, and only while, a comment is on its way.
DraftLocked ==
    /\ section = [f \in SectionFields |-> section[f]]
    /\ section.submitting \in BOOLEAN
    /\ section.submitting => \E call : Posts = {call}
    /\ ~section.submitting => Posts = {}

\* The section opens with nothing on its way.
LEMMA SectionStarts == SectionInit => DraftLocked
<1> SUFFICES ASSUME SectionInit PROVE DraftLocked
  OBVIOUS
<1>1. PICK m \in Market, signed \in BOOLEAN :
          section = [market |-> m, comments |-> <<>>, draft |-> FALSE,
                     visible |-> FirstVisible, submitting |-> FALSE, replyTo |-> None,
                     replyDrafts |-> {}, replying |-> None, liked |-> {}, liking |-> {},
                     message |-> None, signed |-> signed]
  BY DEF SectionInit
<1>2. section = [f \in SectionFields |-> section[f]] /\ section.submitting = FALSE
  BY <1>1 DEF SectionFields
<1> QED
  BY <1>2 DEF SectionInit, DraftLocked, Posts

\* Steps that leave the posts alone leave the draft as locked as it was.
LEMMA SectionQuiet ==
    ASSUME DraftLocked, section' = [f \in SectionFields |-> section'[f]],
           section'.submitting = section.submitting,
           \A call : (call \in commentCalls /\ call.kind = "post")
                     <=> (call \in commentCalls' /\ call.kind = "post")
    PROVE  DraftLocked'
<1>1. Posts' = Posts
  BY DEF Posts
<1> QED
  BY <1>1 DEF DraftLocked

LEMMA ResetKeeps ==
    ASSUME NEW s, s = [f \in SectionFields |-> s[f]], NEW m, NEW nodes
    PROVE  /\ Reset(s, m, nodes) = [f \in SectionFields |-> Reset(s, m, nodes)[f]]
           /\ Reset(s, m, nodes).submitting = s.submitting
BY DEF Reset, SectionFields

LEMMA FinishedKeeps ==
    ASSUME NEW s, s = [f \in SectionFields |-> s[f]], NEW call
    PROVE  /\ Finished(s, call) = [f \in SectionFields |-> Finished(s, call)[f]]
           /\ call.kind = "post" => Finished(s, call).submitting = FALSE
           /\ call.kind # "post" => Finished(s, call).submitting = s.submitting
BY DEF Finished, SectionFields

\* A call leaves; if it is a post, the draft is unlocked.
LEMMA SectionLeaves ==
    ASSUME DraftLocked, NEW call \in commentCalls,
           commentCalls' = commentCalls \ {call},
           section' = [f \in SectionFields |-> section'[f]],
           call.kind = "post" => section'.submitting = FALSE,
           call.kind # "post" => section'.submitting = section.submitting
    PROVE  DraftLocked'
<1>1. CASE call.kind = "post"
  <2>1. Posts' = {}
    BY <1>1 DEF DraftLocked, Posts
  <2> QED
    BY <1>1, <2>1 DEF DraftLocked
<1>2. CASE call.kind # "post"
  <2>1. Posts' = Posts
    BY <1>2 DEF Posts
  <2> QED
    BY <1>2, <2>1 DEF DraftLocked
<1> QED
  BY <1>1, <1>2

\* A call that is no post starts, or nothing does.
LEMMA SectionAsksOther ==
    ASSUME DraftLocked, NEW k, NEW id, k # "post",
           commentCalls' = commentCalls \cup {CommentCall(k, id)},
           section' = [f \in SectionFields |-> section'[f]],
           section'.submitting = section.submitting
    PROVE  DraftLocked'
<1>1. CommentCall(k, id).kind # "post"
  BY DEF CommentCall
<1>2. Posts' = Posts
  BY <1>1 DEF Posts
<1> QED
  BY <1>2 DEF DraftLocked

LEMMA SectionMoves == DraftLocked /\ [SectionNext]_sectionVars => DraftLocked'
<1> SUFFICES ASSUME DraftLocked, [SectionNext]_sectionVars PROVE DraftLocked'
  OBVIOUS
<1>0. section = [f \in SectionFields |-> section[f]]
  BY DEF DraftLocked
<1>1. ASSUME NEW m \in Market, SectionPublished(m) PROVE DraftLocked'
  BY <1>0, <1>1, ResetKeeps, SectionQuiet DEF SectionPublished
<1>2. CASE SessionChanged \/ TypeDraft \/ ShowMoreComments
  <2>1. /\ section' = [f \in SectionFields |-> section'[f]]
        /\ section'.submitting = section.submitting
    BY <1>0, <1>2 DEF SessionChanged, TypeDraft, ShowMoreComments, SectionFields
  <2>2. commentCalls' = commentCalls
    BY <1>2 DEF SessionChanged, TypeDraft, ShowMoreComments
  <2> QED
    BY <2>1, <2>2, SectionQuiet
<1>3. CASE AskToSignIn
  <2>1. /\ section' = [f \in SectionFields |-> section'[f]]
        /\ section'.submitting = section.submitting
    BY <1>0, <1>3 DEF AskToSignIn, SectionFields
  <2> QED
    BY <1>3, <2>1, SectionQuiet DEF AskToSignIn
<1>4. CASE SubmitComment /\ ~AskToSignIn
  <2>1. /\ section' = [section EXCEPT !.submitting = TRUE, !.message = None]
        /\ commentCalls' = commentCalls \cup {CommentCall("post", None)}
        /\ ~section.submitting
    BY <1>4 DEF SubmitComment, SectionView
  <2>2. section' = [f \in SectionFields |-> section'[f]] /\ section'.submitting = TRUE
    BY <1>0, <2>1 DEF SectionFields
  <2>3. CommentCall("post", None).kind = "post"
    BY DEF CommentCall
  <2>4. Posts' = {CommentCall("post", None)}
    BY <2>1, <2>3 DEF DraftLocked, Posts
  <2> QED
    BY <2>2, <2>4 DEF DraftLocked
<1>5. ASSUME NEW n, \/ TypeReply(n) \/ ChooseReply(n)
                    \/ SubmitReply(n) /\ ~AskToSignIn
                    \/ ToggleLike(n) /\ ~AskToSignIn
      PROVE DraftLocked'
  <2>1. /\ section' = [f \in SectionFields |-> section'[f]]
        /\ section'.submitting = section.submitting
    BY <1>0, <1>5 DEF TypeReply, ChooseReply, SubmitReply, ToggleLike, SectionFields
  <2>2. CASE TypeReply(n) \/ ChooseReply(n)
    BY <2>1, <2>2, SectionQuiet DEF TypeReply, ChooseReply
  <2>3. CASE SubmitReply(n) /\ ~AskToSignIn
    BY <2>1, <2>3, SectionAsksOther DEF SubmitReply
  <2>4. CASE ToggleLike(n) /\ ~AskToSignIn
    BY <2>1, <2>4, SectionAsksOther DEF ToggleLike
  <2> QED
    BY <1>5, <2>2, <2>3, <2>4
<1>6. ASSUME NEW m \in Market, ReadServed(m) \/ CommentsRead(m) PROVE DraftLocked'
  <2>1. CASE ReadServed(m)
    BY <1>0, <2>1, SectionQuiet DEF ReadServed
  <2>2. CASE CommentsRead(m)
    <3>1. CASE section.market = m
      BY <1>0, <2>2, <3>1, ResetKeeps, SectionQuiet DEF CommentsRead
    <3>2. CASE section.market # m
      BY <1>0, <2>2, <3>2, SectionQuiet DEF CommentsRead
    <3> QED
      BY <3>1, <3>2
  <2> QED
    BY <1>6, <2>1, <2>2
<1>7. ASSUME NEW call \in commentCalls, CallServed(call) PROVE DraftLocked'
  <2>1. PICK new : commentCalls' = (commentCalls \ {call}) \cup {[call EXCEPT !.answer = new]}
    BY <1>7 DEF CallServed, CommentServed, LikeServed, CallsAnswered
  <2>2. section' = section
    BY <1>7 DEF CallServed
  <2>3. PICK served : served = [call EXCEPT !.answer = new]
    OBVIOUS
  <2>4. served.kind = call.kind
    BY <2>3
  <2>5. CASE call.kind = "post"
    <3>1. Posts' = {served}
      BY <2>1, <2>3, <2>4, <2>5 DEF DraftLocked, Posts
    <3> QED
      BY <2>2, <2>5, <3>1 DEF DraftLocked, Posts
  <2>6. CASE call.kind # "post"
    <3>1. Posts' = Posts
      BY <2>1, <2>3, <2>4, <2>6 DEF Posts
    <3> QED
      BY <2>2, <3>1 DEF DraftLocked
  <2> QED
    BY <2>5, <2>6
<1>8. ASSUME NEW call \in commentCalls, CallAnswered(call) PROVE DraftLocked'
  <2>1. PICK nodes : nodes =
          CASE call.kind = "post"  -> <<call.answer>> \o section.comments
            [] call.kind = "reply" -> WithReply(section.comments, call.id, call.answer)
            [] OTHER               -> WithLikes(section.comments, call.id, call.answer)
    OBVIOUS
  <2>2. PICK put : put = Publish(section, nodes)
    OBVIOUS
  <2>3. /\ put = [f \in SectionFields |-> put[f]]
        /\ put.submitting = section.submitting
    BY <1>0, <2>2, ResetKeeps DEF Publish
  <2>4. PICK told : told = IF call.kind \in {"post", "reply"}
                           THEN [put EXCEPT !.message = "status"] ELSE put
    OBVIOUS
  <2>5. /\ told = [f \in SectionFields |-> told[f]]
        /\ told.submitting = section.submitting
    BY <2>3, <2>4 DEF SectionFields
  <2>6. section' = Finished(told, call) /\ commentCalls' = commentCalls \ {call}
    BY <1>8, <2>1, <2>2, <2>4 DEF CallAnswered
  <2> QED
    BY <2>5, <2>6, FinishedKeeps, SectionLeaves, ZenonT(60)
<1>9. ASSUME NEW call \in commentCalls, CallFailed(call) PROVE DraftLocked'
  <2>1. PICK told : told = [section EXCEPT !.message = "error"]
    OBVIOUS
  <2>2. /\ told = [f \in SectionFields |-> told[f]]
        /\ told.submitting = section.submitting
    BY <1>0, <2>1 DEF SectionFields
  <2>3. section' = Finished(told, call) /\ commentCalls' = commentCalls \ {call}
    BY <1>9, <2>1 DEF CallFailed
  <2> QED
    BY <2>2, <2>3, FinishedKeeps, SectionLeaves, ZenonT(60)
<1>10. CASE UNCHANGED sectionVars
  BY <1>0, <1>10, SectionQuiet DEF sectionVars
<1> QED
  BY <1>1, <1>2, <1>3, <1>4, <1>5, <1>6, <1>7, <1>8, <1>9, <1>10
  DEF SectionNext, SectionVisitor, SectionAnswer, SubmitComment, SubmitReply, ToggleLike

\* However answers, likes and replies overtake each other, a section never has two
\* comments of its own on their way (submitComment returns while one is).
THEOREM CommentsOneByOne == SectionSpec => []OneCommentAtATime
<1>1. DraftLocked => OneCommentAtATime
  BY FS_EmptySet, FS_Singleton DEF DraftLocked, OneCommentAtATime, Posts
<1> QED
  BY <1>1, SectionStarts, SectionMoves, PTL DEF SectionSpec

Node == [id : Nat, parent : Nat \cup {None}, likes : Nat, replies : Nat]

\* Each comment is listed once, replies are later than what they reply to, and
\* every comment counts at least the replies that are listed.
IsTree(nodes) ==
    /\ nodes \in Seq(Node)
    /\ \A i, j \in DOMAIN nodes : nodes[i].id = nodes[j].id => i = j
    /\ \A i \in DOMAIN nodes : nodes[i].parent # None =>
          nodes[i].parent \in Ids(nodes) /\ nodes[i].parent < nodes[i].id
    /\ \A i \in DOMAIN nodes : Cardinality(Replies(nodes, nodes[i].id)) <= nodes[i].replies

LEMMA RepliesFinite ==
    ASSUME NEW nodes \in Seq(Node), NEW id
    PROVE  IsFiniteSet(Replies(nodes, id)) /\ Cardinality(Replies(nodes, id)) \in Nat
<1>1. IsFiniteSet(1 .. Len(nodes)) /\ Replies(nodes, id) \in SUBSET (1 .. Len(nodes))
  BY FS_Interval DEF Replies
<1> QED
  BY <1>1, FS_Subset, FS_CardinalityType

\* What is chosen of a tree is a tree, if it has the parents of what it has.
LEMMA ChosenTree ==
    ASSUME NEW nodes, IsTree(nodes), NEW n \in Nat, NEW order \in Injection(1 .. n, DOMAIN nodes),
           NEW chosen, chosen = [k \in 1 .. n |-> nodes[order[k]]],
           \A k \in 1 .. n : nodes[order[k]].parent # None =>
               \E j \in 1 .. n : nodes[order[j]].id = nodes[order[k]].parent
    PROVE  IsTree(chosen)
<1>1. order \in [1 .. n -> DOMAIN nodes] /\ nodes \in [DOMAIN nodes -> Node]
  BY DEF Injection, IsTree
<1>2. chosen \in Seq(Node) /\ DOMAIN chosen = 1 .. n
  BY <1>1
<1>3. ASSUME NEW i \in 1 .. n, NEW j \in 1 .. n, chosen[i].id = chosen[j].id PROVE i = j
  <2>1. order[i] = order[j]
    BY <1>1, <1>3 DEF IsTree
  <2> QED
    BY <2>1 DEF Injection, IsInjective
<1>4. ASSUME NEW i \in 1 .. n, chosen[i].parent # None
      PROVE  chosen[i].parent \in Ids(chosen) /\ chosen[i].parent < chosen[i].id
  <2>1. PICK j \in 1 .. n : nodes[order[j]].id = nodes[order[i]].parent
    BY <1>4
  <2>2. chosen[j].id = chosen[i].parent
    BY <2>1
  <2>3. chosen[i].parent < chosen[i].id
    BY <1>1, <1>4 DEF IsTree
  <2> QED
    BY <1>2, <2>2, <2>3 DEF Ids
<1>5. ASSUME NEW i \in 1 .. n
      PROVE  Cardinality(Replies(chosen, chosen[i].id)) <= chosen[i].replies
  <2> DEFINE id == chosen[i].id
             into == [k \in Replies(chosen, id) |-> order[k]]
  <2>1. Replies(chosen, id) \subseteq 1 .. n
    BY <1>2 DEF Replies
  <2>2. into \in [Replies(chosen, id) -> Replies(nodes, id)]
    BY <1>1, <1>2, <2>1 DEF Replies
  <2>3. into \in Injection(Replies(chosen, id), Replies(nodes, id))
    BY <2>1, <2>2 DEF Injection, IsInjective
  <2>4. IsFiniteSet(Replies(nodes, id)) /\ Cardinality(Replies(nodes, id)) \in Nat
        /\ Cardinality(Replies(chosen, id)) \in Nat
    BY <1>2, RepliesFinite DEF IsTree
  <2>5. Cardinality(Replies(chosen, id)) <= Cardinality(Replies(nodes, id))
    BY <2>3, <2>4, FS_Injection
  <2>6. Cardinality(Replies(nodes, nodes[order[i]].id)) <= nodes[order[i]].replies
    BY <1>1 DEF IsTree
  <2>7. id = nodes[order[i]].id /\ chosen[i].replies = nodes[order[i]].replies
        /\ nodes[order[i]].replies \in Nat
    BY <1>1 DEF Node
  <2> HIDE DEF id
  <2>8. Cardinality(Replies(chosen, id)) <= chosen[i].replies
    BY <2>4, <2>5, <2>6, <2>7
  <2> QED
    BY <2>8 DEF id
<1> QED
  BY <1>2, <1>3, <1>4, <1>5 DEF IsTree

\* normalizeRootComments shows each comment of the list once.
LEMMA NormalizedIsOrdered ==
    ASSUME NEW nodes \in Seq(Node), NEW last,
           last = {i \in DOMAIN nodes : \A j \in DOMAIN nodes : j > i => nodes[j].id # nodes[i].id}
    PROVE  \E order \in Bijection(1 .. Cardinality(last), last) :
              /\ Cardinality(last) \in Nat
              /\ Normalize(nodes) = [k \in 1 .. Cardinality(last) |-> nodes[order[k]]]
<1> DEFINE key == [i \in last |-> 0 - nodes[i].id]
           order == InOrder(last, key)
<1>1. IsFiniteSet(last)
  <2>1. IsFiniteSet(1 .. Len(nodes)) /\ last \in SUBSET (1 .. Len(nodes))
    BY FS_Interval
  <2> QED
    BY <2>1, FS_Subset
<1>2. SortKey(last, key)
  <2>0. \A i \in last : nodes[i] \in Node
    OBVIOUS
  <2>1. \A i \in last : key[i] = 0 - nodes[i].id /\ nodes[i].id \in Nat
    BY <2>0 DEF Node
  <2> HIDE DEF key
  <2> QED
    BY <1>1, <2>1 DEF SortKey
<1>3. order \in Bijection(1 .. Cardinality(last), last)
  BY <1>2, OrderIsOfAll
<1>4. DOMAIN order = 1 .. Cardinality(last)
  BY DEF InOrder
<1>5. Normalize(nodes) = [k \in DOMAIN order |-> nodes[order[k]]]
  BY DEF Normalize
<1> HIDE DEF order
<1> QED
  BY <1>1, <1>3, <1>4, <1>5, FS_CardinalityType

LEMMA NormalizedTree ==
    ASSUME NEW nodes, IsTree(nodes)
    PROVE  IsTree(Normalize(nodes))
<1> DEFINE last == {i \in DOMAIN nodes : \A j \in DOMAIN nodes : j > i => nodes[j].id # nodes[i].id}
<1>1. nodes \in Seq(Node)
  BY DEF IsTree
<1>2. last = DOMAIN nodes
  <2>1. ASSUME NEW i \in DOMAIN nodes, NEW j \in DOMAIN nodes, j > i PROVE nodes[j].id # nodes[i].id
    BY <1>1, <2>1 DEF IsTree
  <2> QED
    BY <2>1
<1> HIDE DEF last
<1>3. PICK order \in Bijection(1 .. Cardinality(last), last) :
          /\ Cardinality(last) \in Nat
          /\ Normalize(nodes) = [k \in 1 .. Cardinality(last) |-> nodes[order[k]]]
  BY <1>1, NormalizedIsOrdered DEF last
<1>4. order \in Injection(1 .. Cardinality(last), DOMAIN nodes)
      /\ order \in Surjection(1 .. Cardinality(last), DOMAIN nodes)
  BY <1>2 DEF Bijection
<1>5. ASSUME NEW k \in 1 .. Cardinality(last), nodes[order[k]].parent # None
      PROVE  \E j \in 1 .. Cardinality(last) : nodes[order[j]].id = nodes[order[k]].parent
  <2>1. order[k] \in DOMAIN nodes
    BY <1>4 DEF Injection
  <2>2. PICK i \in DOMAIN nodes : nodes[i].id = nodes[order[k]].parent
    BY <1>5, <2>1 DEF IsTree, Ids
  <2> QED
    BY <1>4, <2>2 DEF Surjection
<1> QED
  BY <1>3, <1>4, <1>5, ChosenTree

\* Comments that only count more replies stay a tree.
LEMMA RecountedTree ==
    ASSUME NEW nodes, IsTree(nodes), NEW counted \in Seq(Node), Len(counted) = Len(nodes),
           \A i \in 1 .. Len(nodes) : /\ counted[i].id = nodes[i].id
                                      /\ counted[i].parent = nodes[i].parent
                                      /\ counted[i].replies >= nodes[i].replies
    PROVE  /\ IsTree(counted) /\ Ids(counted) = Ids(nodes)
           /\ \A id : Replies(counted, id) = Replies(nodes, id)
<1>1. nodes \in Seq(Node) /\ DOMAIN counted = DOMAIN nodes /\ DOMAIN nodes = 1 .. Len(nodes)
  BY DEF IsTree
<1>2. Ids(counted) = Ids(nodes)
  BY <1>1 DEF Ids
<1>3. ASSUME NEW id PROVE Replies(counted, id) = Replies(nodes, id)
  BY <1>1 DEF Replies
<1>4. ASSUME NEW i \in DOMAIN counted
      PROVE  Cardinality(Replies(counted, counted[i].id)) <= counted[i].replies
  <2>1. Cardinality(Replies(nodes, nodes[i].id)) <= nodes[i].replies
    BY <1>1 DEF IsTree
  <2>2. Replies(counted, counted[i].id) = Replies(nodes, nodes[i].id)
    BY <1>1, <1>3
  <2>0. counted[i] \in Node /\ nodes[i] \in Node
    BY <1>1
  <2>3. counted[i].replies \in Nat /\ nodes[i].replies \in Nat /\ counted[i].replies >= nodes[i].replies
    BY <1>1, <2>0 DEF Node
  <2>4. Cardinality(Replies(nodes, nodes[i].id)) \in Nat
    BY <1>1, RepliesFinite
  <2> QED
    BY <1>1, <2>1, <2>2, <2>3, <2>4
<1>5. \A i, j \in DOMAIN counted : counted[i].id = counted[j].id => i = j
  BY <1>1 DEF IsTree
<1>6. \A i \in DOMAIN counted : counted[i].parent # None =>
          counted[i].parent \in Ids(counted) /\ counted[i].parent < counted[i].id
  BY <1>1, <1>2 DEF IsTree
<1> QED
  BY <1>2, <1>3, <1>4, <1>5, <1>6 DEF IsTree

\* A new comment, or a reply that has been counted, leaves a tree one.
LEMMA AppendedTree ==
    ASSUME NEW nodes, IsTree(nodes), NEW new \in Node, new.id \notin Ids(nodes),
           new.parent # None => new.parent \in Ids(nodes) /\ new.parent < new.id,
           \A i \in DOMAIN nodes : nodes[i].id = new.parent =>
               Cardinality(Replies(nodes, new.parent)) + 1 <= nodes[i].replies
    PROVE  IsTree(Append(nodes, new))
<1> DEFINE more == Append(nodes, new)
           n == Len(nodes)
<1>1. nodes \in Seq(Node) /\ n \in Nat /\ DOMAIN nodes = 1 .. n
  BY DEF IsTree
<1>2. more \in Seq(Node) /\ DOMAIN more = 1 .. n + 1 /\ more[n + 1] = new
      /\ \A i \in 1 .. n : more[i] = nodes[i]
  BY <1>1
<1> HIDE DEF more, n
<1>3. \A i \in 1 .. n + 1 : i \in 1 .. n \/ i = n + 1
  BY <1>1
<1>4. 1 .. n \subseteq 1 .. n + 1 /\ n + 1 \in 1 .. n + 1 /\ n + 1 \notin 1 .. n
  BY <1>1
<1>5. \A i \in 1 .. n : nodes[i].id \in Ids(nodes)
  BY <1>1 DEF Ids
<1>6. ASSUME NEW i \in DOMAIN more, NEW j \in DOMAIN more, more[i].id = more[j].id PROVE i = j
  BY <1>1, <1>2, <1>3, <1>5, <1>6 DEF IsTree
<1>7. Ids(nodes) \subseteq Ids(more)
  BY <1>1, <1>2, <1>4 DEF Ids
<1>8. ASSUME NEW i \in DOMAIN more, more[i].parent # None
      PROVE  more[i].parent \in Ids(more) /\ more[i].parent < more[i].id
  BY <1>1, <1>2, <1>3, <1>7, <1>8 DEF IsTree
<1>9. ASSUME NEW id, id # new.parent PROVE Replies(more, id) = Replies(nodes, id)
  BY <1>1, <1>2, <1>3, <1>4, <1>9 DEF Replies
<1>10. Replies(more, new.parent) = Replies(nodes, new.parent) \cup {n + 1}
  BY <1>1, <1>2, <1>3, <1>4 DEF Replies
<1>11. Replies(nodes, new.id) = {}
  <2>1. new.id \in Nat /\ new.id # None
    BY CommentsAssumption DEF Node
  <2> QED
    BY <2>1 DEF Replies, IsTree
<1>12. ASSUME NEW i \in DOMAIN more
       PROVE  Cardinality(Replies(more, more[i].id)) <= more[i].replies
  <2>1. CASE i = n + 1
    <3>1. new.id # new.parent /\ new.replies \in Nat
      BY CommentsAssumption DEF Node
    <3>2. Replies(more, new.id) = {}
      BY <1>9, <1>11, <3>1
    <3>3. Cardinality(Replies(more, new.id)) = 0
      BY <3>2, FS_EmptySet
    <3> QED
      BY <1>2, <2>1, <3>1, <3>3
  <2>2. CASE i \in 1 .. n /\ nodes[i].id # new.parent
    <3>1. Replies(more, nodes[i].id) = Replies(nodes, nodes[i].id)
      BY <1>9, <2>2
    <3>2. Cardinality(Replies(nodes, nodes[i].id)) <= nodes[i].replies
      BY <1>1, <2>2 DEF IsTree
    <3> QED
      BY <1>2, <2>2, <3>1, <3>2
  <2>3. CASE i \in 1 .. n /\ nodes[i].id = new.parent
    <3>1. IsFiniteSet(Replies(nodes, new.parent)) /\ n + 1 \notin Replies(nodes, new.parent)
      BY <1>1, <1>4, RepliesFinite DEF Replies
    <3>2. Cardinality(Replies(more, new.parent)) = Cardinality(Replies(nodes, new.parent)) + 1
      BY <1>10, <3>1, FS_AddElement
    <3>3. Cardinality(Replies(nodes, new.parent)) + 1 <= nodes[i].replies
      BY <1>1, <2>3
    <3> QED
      BY <1>2, <2>3, <3>2, <3>3
  <2> QED
    BY <1>2, <1>3, <2>1, <2>2, <2>3
<1>13. \A i, j \in DOMAIN more : more[i].id = more[j].id => i = j
  BY <1>6
<1>14. IsTree(more)
  BY <1>2, <1>8, <1>12, <1>13 DEF IsTree
<1> QED
  BY <1>14 DEF more

LEMMA PrependedTree ==
    ASSUME NEW nodes, IsTree(nodes), NEW new \in Node, new.parent = None, new.id \notin Ids(nodes)
    PROVE  IsTree(<<new>> \o nodes)
<1> DEFINE n == Len(nodes)
           order == [i \in 1 .. n + 1 |-> IF i = 1 THEN n + 1 ELSE i - 1]
<1>1. nodes \in Seq(Node) /\ n \in Nat /\ DOMAIN nodes = 1 .. n
  BY DEF IsTree
<1>2. PICK more : more = Append(nodes, new)
  OBVIOUS
<1>3. more \in Seq(Node) /\ DOMAIN more = 1 .. n + 1 /\ more[n + 1] = new
      /\ \A i \in 1 .. n : more[i] = nodes[i]
  BY <1>1, <1>2
<1>4. IsTree(more)
  <2>0. \A i \in DOMAIN nodes : nodes[i] \in Node
    BY <1>1
  <2>1. \A i \in DOMAIN nodes : nodes[i].id # None
    BY <2>0, CommentsAssumption DEF Node
  <2> QED
    BY <1>2, <2>1, AppendedTree
<1>5. order \in Injection(1 .. n + 1, DOMAIN more)
  <2>1. order \in [1 .. n + 1 -> 1 .. n + 1]
    BY <1>1
  <2>2. ASSUME NEW i \in 1 .. n + 1, NEW j \in 1 .. n + 1, order[i] = order[j] PROVE i = j
    BY <1>1, <2>2
  <2> HIDE DEF order, n
  <2> QED
    BY <1>3, <2>1, <2>2 DEF Injection, IsInjective
<1>6. <<new>> \o nodes = [i \in 1 .. n + 1 |-> more[order[i]]]
  BY <1>1, <1>2
<1>7. ASSUME NEW k \in 1 .. n + 1, more[order[k]].parent # None
      PROVE  \E j \in 1 .. n + 1 : more[order[j]].id = more[order[k]].parent
  <2>1. order[k] \in DOMAIN more
    BY <1>5 DEF Injection
  <2>2. PICK i \in 1 .. n + 1 : more[i].id = more[order[k]].parent
    BY <1>3, <1>4, <1>7, <2>1 DEF IsTree, Ids
  <2>3. CASE i = n + 1
    <3>1. 1 \in 1 .. n + 1 /\ order[1] = i
      BY <1>1, <2>3
    <3> QED
      BY <2>2, <3>1
  <2>4. CASE i \in 1 .. n
    <3>1. i + 1 \in 1 .. n + 1 /\ order[i + 1] = i
      BY <1>1, <2>4
    <3> QED
      BY <2>2, <3>1
  <2> QED
    BY <1>1, <2>2, <2>3, <2>4
<1> HIDE DEF order
<1>8. PICK size \in Nat : size = n + 1
  BY <1>1
<1>9. PICK front : front = <<new>> \o nodes
  OBVIOUS
<1> HIDE DEF n
<1>10. /\ order \in Injection(1 .. size, DOMAIN more)
       /\ front = [i \in 1 .. size |-> more[order[i]]]
       /\ \A k \in 1 .. size : more[order[k]].parent # None =>
              \E j \in 1 .. size : more[order[j]].id = more[order[k]].parent
  BY <1>5, <1>6, <1>7, <1>8, <1>9
<1>11. IsTree(front)
  BY <1>4, <1>8, <1>10, ChosenTree
<1> QED
  BY <1>9, <1>11

\* Posting a comment that was read meanwhile shows it once.
LEMMA PostedTree ==
    ASSUME NEW nodes, IsTree(nodes), NEW new \in Node, new.parent = None
    PROVE  IsTree(Normalize(<<new>> \o nodes))
<1>1. CASE new.id \notin Ids(nodes)
  BY <1>1, PrependedTree, NormalizedTree
<1>2. CASE new.id \in Ids(nodes)
  <2> DEFINE n == Len(nodes)
             more == <<new>> \o nodes
             last == {i \in DOMAIN more : \A j \in DOMAIN more : j > i => more[j].id # more[i].id}
             c == Cardinality(last)
  <2>1. nodes \in Seq(Node) /\ n \in Nat /\ DOMAIN nodes = 1 .. n
    BY DEF IsTree
  <2>2. more \in Seq(Node) /\ DOMAIN more = 1 .. n + 1 /\ more[1] = new
        /\ \A i \in 2 .. n + 1 : more[i] = nodes[i - 1]
    BY <2>1
  <2> HIDE DEF n, more
  <2>3. last = 2 .. n + 1
    <3>1. 1 \notin last
      <4>1. PICK j \in 1 .. n : nodes[j].id = new.id
        BY <1>2, <2>1 DEF Ids
      <4>2. j + 1 \in DOMAIN more /\ j + 1 > 1 /\ j + 1 \in 2 .. n + 1 /\ j + 1 - 1 = j
        BY <2>1, <2>2
      <4>3. more[j + 1].id = more[1].id
        BY <2>2, <4>1, <4>2
      <4> QED
        BY <4>2, <4>3
    <3>2. ASSUME NEW i \in 2 .. n + 1 PROVE i \in last
      <4>1. ASSUME NEW j \in DOMAIN more, j > i PROVE more[j].id # more[i].id
        <5>1. i - 1 \in DOMAIN nodes /\ j - 1 \in DOMAIN nodes /\ i - 1 # j - 1 /\ j \in 2 .. n + 1
          BY <2>1, <2>2, <4>1
        <5>2. nodes[i - 1].id # nodes[j - 1].id
          BY <5>1 DEF IsTree
        <5> QED
          BY <2>2, <5>1, <5>2
      <4> QED
        BY <2>1, <2>2, <4>1
    <3> QED
      BY <2>1, <2>2, <3>1, <3>2
  <2> HIDE DEF last
  <2>4. PICK order \in Bijection(1 .. c, last) :
            c \in Nat /\ Normalize(more) = [k \in 1 .. c |-> more[order[k]]]
    BY <2>2, NormalizedIsOrdered DEF last
  <2>5. order \in Injection(1 .. c, 2 .. n + 1) /\ order \in Surjection(1 .. c, 2 .. n + 1)
    BY <2>3, <2>4 DEF Bijection
  <2> DEFINE back == [k \in 1 .. c |-> order[k] - 1]
  <2>6. back \in Injection(1 .. c, DOMAIN nodes)
    <3>1. \A k \in 1 .. c : order[k] \in 2 .. n + 1
      BY <2>5 DEF Injection
    <3>2. back \in [1 .. c -> DOMAIN nodes]
      BY <2>1, <3>1
    <3>3. ASSUME NEW i \in 1 .. c, NEW j \in 1 .. c, back[i] = back[j] PROVE i = j
      <4>1. order[i] = order[j]
        BY <2>1, <3>1, <3>3
      <4> QED
        BY <2>5, <4>1 DEF Injection, IsInjective
    <3> HIDE DEF back
    <3> QED
      BY <3>2, <3>3 DEF Injection, IsInjective
  <2>7. Normalize(more) = [k \in 1 .. c |-> nodes[back[k]]]
    <3>1. \A k \in 1 .. c : order[k] \in 2 .. n + 1
      BY <2>5 DEF Injection
    <3> QED
      BY <2>2, <2>4, <3>1
  <2>8. ASSUME NEW k \in 1 .. c, nodes[back[k]].parent # None
        PROVE  \E j \in 1 .. c : nodes[back[j]].id = nodes[back[k]].parent
    <3>1. back[k] \in DOMAIN nodes
      BY <2>6 DEF Injection
    <3>2. PICK i \in 1 .. n : nodes[i].id = nodes[back[k]].parent
      BY <2>1, <2>8, <3>1 DEF IsTree, Ids
    <3>3. i + 1 \in 2 .. n + 1 /\ i + 1 - 1 = i
      BY <2>1
    <3>4. PICK j \in 1 .. c : order[j] = i + 1
      BY <2>5, <3>3 DEF Surjection
    <3>5. back[j] = i
      BY <3>3, <3>4
    <3> QED
      BY <3>2, <3>5
  <2> HIDE DEF back
  <2>9. IsTree(Normalize(more))
    BY <2>4, <2>6, <2>7, <2>8, ChosenTree
  <2> QED
    BY <2>9 DEF more
<1> QED
  BY <1>1, <1>2

\* A reply is later than what it replies to, and so is all that is under it.
LEMMA SubtreeIsLater ==
    ASSUME NEW nodes, IsTree(nodes), NEW id \in Nat
    PROVE  /\ Subtree(nodes, id) \subseteq Ids(nodes)
           /\ \A x \in Subtree(nodes, id) : x \in Nat /\ x >= id
           /\ id \in Ids(nodes) => id \in Subtree(nodes, id)
           /\ \A i \in DOMAIN nodes : nodes[i].parent \in Subtree(nodes, id)
                                          => nodes[i].id \in Subtree(nodes, id)
<1> DEFINE closed(S) == id \in S /\ (\A i \in DOMAIN nodes : nodes[i].parent \in S => nodes[i].id \in S)
           later == {x \in Ids(nodes) \cup {id} : x >= id}
<1>0. \A i \in DOMAIN nodes : nodes[i].id \in Nat /\ nodes[i].id \in Ids(nodes)
  <2>1. \A i \in DOMAIN nodes : nodes[i] \in Node
    BY DEF IsTree
  <2> QED
    BY <2>1 DEF Node, Ids
<1>1. later \in SUBSET (Ids(nodes) \cup {id}) /\ closed(later)
  <2>1. ASSUME NEW i \in DOMAIN nodes, nodes[i].parent \in later PROVE nodes[i].id \in later
    <3>1. nodes[i].parent \in Nat /\ nodes[i].parent >= id
      BY <1>0, <2>1 DEF Ids
    <3>2. nodes[i].parent < nodes[i].id
      BY <3>1, CommentsAssumption DEF IsTree
    <3> QED
      BY <1>0, <3>1, <3>2
  <2>2. id \in later
    OBVIOUS
  <2> QED
    BY <2>1, <2>2
<1>2. \A x : x \in Subtree(nodes, id)
               <=> x \in Ids(nodes) /\ \A S \in SUBSET (Ids(nodes) \cup {id}) : closed(S) => x \in S
  BY DEF Subtree
<1>3. \A x \in Subtree(nodes, id) : x \in later /\ x \in Ids(nodes)
  BY <1>1, <1>2
<1>4. ASSUME NEW i \in DOMAIN nodes, nodes[i].parent \in Subtree(nodes, id)
      PROVE  nodes[i].id \in Subtree(nodes, id)
  BY <1>0, <1>2, <1>4
<1>5. id \in Ids(nodes) => id \in Subtree(nodes, id)
  BY <1>2
<1>6. \A x \in Ids(nodes) : x \in Nat
  BY <1>0 DEF Ids
<1> QED
  BY <1>3, <1>4, <1>5, <1>6

\* insertReplyIntoTree keeps the list a tree, whether the reply is known or not.
LEMMA RepliedTree ==
    ASSUME NEW nodes, IsTree(nodes), NEW parent \in Nat, NEW reply \in Node,
           reply.parent = parent, parent < reply.id
    PROVE  /\ IsTree(WithReply(nodes, parent, reply))
           /\ Ids(WithReply(nodes, parent, reply)) \subseteq Ids(nodes) \cup {reply.id}
<1>1. CASE parent \notin Ids(nodes)
  BY <1>1 DEF WithReply
<1>2. CASE parent \in Ids(nodes)
  <2> DEFINE under == Subtree(nodes, reply.id)
             kept == {i \in DOMAIN nodes : nodes[i].id \notin under}
             c == Cardinality(kept)
             others == Picked(nodes, kept)
  <2>1. nodes \in Seq(Node) /\ Len(nodes) \in Nat /\ DOMAIN nodes = 1 .. Len(nodes)
        /\ reply.id \in Nat
    BY DEF IsTree, Node
  <2>2. /\ \A x \in under : x >= reply.id
        /\ reply.id \in Ids(nodes) => reply.id \in under
        /\ \A i \in DOMAIN nodes : nodes[i].parent \in under => nodes[i].id \in under
    BY <2>1, SubtreeIsLater
  <2> HIDE DEF under
  <2>3. kept \in SUBSET (1 .. Len(nodes))
    BY <2>1
  <2> HIDE DEF kept, others, c
  <2>4. PICK order \in Bijection(1 .. c, kept) :
            c \in Nat /\ others = [k \in 1 .. c |-> nodes[order[k]]]
    <3>1. PICK n \in Nat : n = Len(nodes) /\ kept \in SUBSET (1 .. n)
      BY <2>1, <2>3
    <3>2. \E order \in Bijection(1 .. Cardinality(kept), kept) :
            /\ Cardinality(kept) \in Nat
            /\ Picked(nodes, kept) = Along(nodes, order, Cardinality(kept))
      BY <3>1, PickedIsOrdered
    <3> QED
      BY <3>2 DEF others, c, Along
  <2>5. order \in [1 .. c -> kept] /\ order \in Surjection(1 .. c, kept)
        /\ order \in Injection(1 .. c, DOMAIN nodes)
    <3>1. order \in Injection(1 .. c, kept) /\ order \in Surjection(1 .. c, kept)
      BY <2>4 DEF Bijection
    <3>2. order \in [1 .. c -> kept] /\ order \in [1 .. c -> DOMAIN nodes]
      BY <2>1, <2>3, <3>1 DEF Injection
    <3> QED
      BY <3>1, <3>2 DEF Injection
  <2>6. ASSUME NEW x \in Ids(nodes), x \notin under PROVE \E j \in 1 .. c : nodes[order[j]].id = x
    <3>1. PICK i \in DOMAIN nodes : nodes[i].id = x
      BY DEF Ids
    <3>2. i \in kept
      BY <2>6, <3>1 DEF kept
    <3> QED
      BY <2>5, <3>1, <3>2 DEF Surjection
  <2>7. ASSUME NEW k \in 1 .. c, nodes[order[k]].parent # None
        PROVE  \E j \in 1 .. c : nodes[order[j]].id = nodes[order[k]].parent
    <3>1. order[k] \in DOMAIN nodes /\ nodes[order[k]].id \notin under
      BY <2>5 DEF kept
    <3>2. nodes[order[k]].parent \in Ids(nodes) /\ nodes[order[k]].parent \notin under
      BY <2>2, <2>7, <3>1 DEF IsTree
    <3> QED
      BY <2>6, <3>2
  <2>8. IsTree(others)
    BY <2>4, <2>5, <2>7, ChosenTree
  <2>9. parent \in Ids(others) /\ reply.id \notin Ids(others)
    <3>0. DOMAIN others = 1 .. c /\ \A k \in 1 .. c : others[k] = nodes[order[k]]
      BY <2>4
    <3>1. parent \notin under
      BY <2>1, <2>2
    <3>2. PICK j \in 1 .. c : nodes[order[j]].id = parent
      BY <1>2, <2>6, <3>1
    <3>3. \A k \in 1 .. c : nodes[order[k]].id \in Ids(nodes) /\ nodes[order[k]].id \notin under
      BY <2>5 DEF Ids, kept
    <3> QED
      BY <2>2, <3>0, <3>2, <3>3 DEF Ids
  <2>10. PICK counted : counted = [i \in DOMAIN others |->
             IF others[i].id = parent
             THEN [others[i] EXCEPT !.replies =
                      IF Cardinality(Replies(others, parent)) + 1
                         > (IF reply.id \in Ids(nodes) THEN others[i].replies ELSE others[i].replies + 1)
                      THEN Cardinality(Replies(others, parent)) + 1
                      ELSE (IF reply.id \in Ids(nodes) THEN others[i].replies ELSE others[i].replies + 1)]
             ELSE others[i]]
    OBVIOUS
  <2>11. WithReply(nodes, parent, reply) = Append(counted, reply)
    BY <1>2, <2>10, Zenon DEF WithReply, others, kept, under
  <2>12. others \in Seq(Node) /\ DOMAIN others = 1 .. Len(others) /\ Len(others) \in Nat
         /\ Cardinality(Replies(others, parent)) \in Nat
    BY <2>8, RepliesFinite DEF IsTree
  <2>13. ASSUME NEW i \in DOMAIN others
         PROVE  /\ counted[i] \in Node /\ counted[i].id = others[i].id
                /\ counted[i].parent = others[i].parent /\ counted[i].replies >= others[i].replies
                /\ others[i].id = parent =>
                      counted[i].replies >= Cardinality(Replies(others, parent)) + 1
    <3>1. PICK count \in Nat : count = Cardinality(Replies(others, parent)) + 1
      BY <2>12
    <3>2. others[i] \in Node
      BY <2>12
    <3> QED
      BY <2>10, <3>1, <3>2 DEF Node
  <2>14. counted \in Seq(Node) /\ Len(counted) = Len(others) /\ DOMAIN counted = DOMAIN others
    <3>1. DOMAIN counted = 1 .. Len(others)
      BY <2>10, <2>12
    <3> QED
      BY <2>10, <2>12, <2>13, <3>1
  <2>15. IsTree(counted) /\ Ids(counted) = Ids(others)
         /\ Replies(counted, parent) = Replies(others, parent)
    BY <2>8, <2>12, <2>13, <2>14, RecountedTree
  <2>16. \A i \in DOMAIN counted : counted[i].id = parent =>
             Cardinality(Replies(counted, parent)) + 1 <= counted[i].replies
    <3>1. ASSUME NEW i \in DOMAIN counted, counted[i].id = parent
          PROVE  Cardinality(Replies(others, parent)) + 1 <= counted[i].replies
      <4>1. counted[i].replies \in Nat
        BY <2>13, <2>14 DEF Node
      <4> QED
        BY <2>12, <2>13, <2>14, <3>1, <4>1
    <3> QED
      BY <2>15, <3>1
  <2>17. IsTree(Append(counted, reply))
    BY <2>9, <2>15, <2>16, AppendedTree
  <2>18. Ids(others) \subseteq Ids(nodes)
    <3>1. DOMAIN others = 1 .. c /\ \A k \in 1 .. c : others[k] = nodes[order[k]]
      BY <2>4, Zenon DEF Along
    <3>2. \A k \in 1 .. c : order[k] \in DOMAIN nodes
      BY <2>5 DEF Injection
    <3> QED
      BY <3>1, <3>2 DEF Ids
  <2>19. Ids(Append(counted, reply)) \subseteq Ids(counted) \cup {reply.id}
    BY <2>14 DEF Ids
  <2> QED
    BY <2>11, <2>15, <2>17, <2>18, <2>19
<1> QED
  BY <1>1, <1>2

\* A like changes no list but the likes it counts.
LEMMA LikedTree ==
    ASSUME NEW nodes, IsTree(nodes), NEW id, NEW likes \in Nat
    PROVE  IsTree(WithLikes(nodes, id, likes)) /\ Ids(WithLikes(nodes, id, likes)) = Ids(nodes)
<1>1. PICK liked : liked = WithLikes(nodes, id, likes)
  OBVIOUS
<1>2. nodes \in Seq(Node) /\ DOMAIN nodes = 1 .. Len(nodes) /\ Len(nodes) \in Nat
  BY DEF IsTree
<1>3. DOMAIN liked = 1 .. Len(nodes)
  BY <1>1, <1>2 DEF WithLikes
<1>4. ASSUME NEW i \in 1 .. Len(nodes)
      PROVE  /\ liked[i] \in Node /\ liked[i].id = nodes[i].id
             /\ liked[i].parent = nodes[i].parent /\ liked[i].replies >= nodes[i].replies
  <2>1. nodes[i] \in Node /\ i \in DOMAIN nodes
    BY <1>2
  <2>2. liked[i] = IF nodes[i].id = id THEN [nodes[i] EXCEPT !.likes = likes] ELSE nodes[i]
    BY <1>1, <2>1 DEF WithLikes
  <2>3. PICK n : n = nodes[i]
    OBVIOUS
  <2>4. PICK m : m = IF n.id = id THEN [n EXCEPT !.likes = likes] ELSE n
    OBVIOUS
  <2>5. m \in Node /\ m.id = n.id /\ m.parent = n.parent /\ m.replies = n.replies /\ n.replies \in Nat
    BY <2>1, <2>3, <2>4 DEF Node
  <2> QED
    BY <2>2, <2>3, <2>4, <2>5
<1>5. liked \in Seq(Node) /\ Len(liked) = Len(nodes)
  <2>1. liked = [i \in 1 .. Len(nodes) |-> liked[i]]
    BY <1>1, <1>2 DEF WithLikes
  <2> QED
    BY <1>2, <1>3, <1>4, <2>1
<1> QED
  BY <1>1, <1>4, <1>5, RecountedTree

CallFields == {"kind", "market", "id", "step", "answer"}

\* The answers of the backend: a new comment, a later reply to what was replied to,
\* or a count of likes.
AnswerFits(call, answer) ==
    /\ call.kind = "post" => answer \in Node /\ answer.parent = None
    /\ call.kind = "reply" => answer \in Node /\ call.id \in Nat /\ answer.parent = call.id
                              /\ call.id < answer.id
    /\ call.kind \in {"like", "unlike"} => answer \in Nat

IsCall(call) ==
    /\ call = [f \in CallFields |-> call[f]]
    /\ call.kind \in {"post", "reply", "like", "unlike"} /\ call.market \in Market
    /\ call.kind = "post" => call.id = None
    /\ call.answer # Absent => AnswerFits(call, call.answer)

\* What is shown, cached, read and kept are trees.
CommentsKnown ==
    /\ section = [f \in SectionFields |-> section[f]]
    /\ section.market \in Market
    /\ IsTree(section.comments)

CommentsStored ==
    /\ commentCache = [m \in Market |-> commentCache[m]]
    /\ commentReads = [m \in Market |-> commentReads[m]]
    /\ \A m \in Market : commentCache[m] # Absent => IsTree(commentCache[m])
    /\ \A m \in Market : commentReads[m] \notin {None, Absent} => IsTree(commentReads[m])

ThreadsKept ==
    /\ thread = [m \in Market |-> thread[m]]
    /\ \A m \in Market : IsTree(thread[m]) /\ Ids(thread[m]) \subseteq 1 .. MaxComments

CallsFit == \A call \in commentCalls : IsCall(call)

CommentsInv == CommentsKnown /\ CommentsStored /\ ThreadsKept /\ CallsFit

LEMMA NoComments == IsTree(<<>>) /\ Ids(<<>>) = {}
<1>1. <<>> \in Seq(Node) /\ DOMAIN <<>> = {}
  OBVIOUS
<1> QED
  BY <1>1 DEF IsTree, Ids

LEMMA ResetTree ==
    ASSUME NEW s, s = [f \in SectionFields |-> s[f]], NEW m \in Market, NEW nodes,
           IsTree(Normalize(nodes))
    PROVE  /\ Reset(s, m, nodes) = [f \in SectionFields |-> Reset(s, m, nodes)[f]]
           /\ Reset(s, m, nodes).market = m /\ IsTree(Reset(s, m, nodes).comments)
<1>1. Reset(s, m, nodes).comments = Normalize(nodes)
  BY DEF Reset, SectionFields
<1> QED
  BY <1>1 DEF Reset, SectionFields

LEMMA FinishedTree ==
    ASSUME NEW s, s = [f \in SectionFields |-> s[f]], NEW call
    PROVE  /\ Finished(s, call) = [f \in SectionFields |-> Finished(s, call)[f]]
           /\ Finished(s, call).market = s.market /\ Finished(s, call).comments = s.comments
BY DEF Finished, SectionFields

LEMMA CommentsStart == SectionInit => CommentsInv
<1> SUFFICES ASSUME SectionInit PROVE CommentsInv
  OBVIOUS
<1>1. PICK m \in Market, signed \in BOOLEAN :
          section = [market |-> m, comments |-> <<>>, draft |-> FALSE,
                     visible |-> FirstVisible, submitting |-> FALSE, replyTo |-> None,
                     replyDrafts |-> {}, replying |-> None, liked |-> {}, liking |-> {},
                     message |-> None, signed |-> signed]
  BY DEF SectionInit
<1>2. CommentsKnown
  BY <1>1, NoComments DEF CommentsKnown, SectionFields
<1>3. CommentsStored
  BY DEF SectionInit, CommentsStored
<1>4. ThreadsKept
  BY NoComments DEF SectionInit, ThreadsKept
<1>5. CallsFit
  BY DEF SectionInit, CallsFit
<1> QED
  BY <1>2, <1>3, <1>4, <1>5 DEF CommentsInv

\* The visitor changes no comment; a call starts without an answer.
LEMMA CommentsVisited ==
    ASSUME CommentsInv, SectionVisitor
    PROVE  CommentsInv'
<1> USE DEF CommentsInv
<1>0. section = [f \in SectionFields |-> section[f]]
  BY DEF CommentsKnown
<1>1. ASSUME NEW m \in Market, SectionPublished(m) PROVE CommentsInv'
  <2>1. IsTree(Normalize(Cached(m)))
    BY NoComments, NormalizedTree DEF CommentsStored, Cached
  <2>2. CommentsKnown'
    BY <1>0, <1>1, <2>1, ResetTree DEF SectionPublished, CommentsKnown
  <2>3. CommentsStored'
    BY <1>1 DEF SectionPublished, CommentsStored
  <2>4. ThreadsKept' /\ CallsFit'
    BY <1>1 DEF SectionPublished, ThreadsKept, CallsFit
  <2> QED
    BY <2>2, <2>3, <2>4
<1>2. ASSUME /\ section' = [f \in SectionFields |-> section'[f]]
             /\ section'.market = section.market /\ section'.comments = section.comments
             /\ \/ commentCalls' = commentCalls
                \/ \E k \in {"post", "reply", "like", "unlike"} : \E id :
                      /\ k = "post" => id = None
                      /\ commentCalls' = commentCalls \cup {CommentCall(k, id)}
             /\ UNCHANGED <<commentCache, commentReads, thread>>
      PROVE  CommentsInv'
  <2>1. CommentsKnown'
    BY <1>2 DEF CommentsKnown
  <2>2. CommentsStored'
    BY <1>2 DEF CommentsStored
  <2>3. ThreadsKept'
    BY <1>2 DEF ThreadsKept
  <2>4. ASSUME NEW k \in {"post", "reply", "like", "unlike"}, NEW id, k = "post" => id = None
        PROVE IsCall(CommentCall(k, id))
    <3>1. PICK call : call = CommentCall(k, id)
      OBVIOUS
    <3>2. /\ call = [f \in CallFields |-> call[f]] /\ call.kind = k /\ call.id = id
          /\ call.market = section.market /\ call.answer = Absent
      BY <3>1 DEF CommentCall, CallFields
    <3> QED
      BY <2>4, <3>1, <3>2 DEF IsCall, CommentsKnown
  <2>5. CallsFit'
    BY <1>2, <2>4 DEF CallsFit
  <2> QED
    BY <2>1, <2>2, <2>3, <2>5
<1>3. CASE SessionChanged
  BY <1>0, <1>2, <1>3 DEF SessionChanged, SectionFields
<1>4. CASE TypeDraft
  BY <1>0, <1>2, <1>4 DEF TypeDraft, SectionFields
<1>5. CASE ShowMoreComments
  BY <1>0, <1>2, <1>5 DEF ShowMoreComments, SectionFields
<1>6. CASE AskToSignIn /\ UNCHANGED <<commentCache, commentReads, thread>>
  BY <1>0, <1>2, <1>6 DEF AskToSignIn, SectionFields
<1>7. CASE SubmitComment /\ ~AskToSignIn
  BY <1>0, <1>2, <1>7 DEF SubmitComment, SectionFields
<1>8. ASSUME NEW n, TypeReply(n) \/ ChooseReply(n) PROVE CommentsInv'
  BY <1>0, <1>2, <1>8 DEF TypeReply, ChooseReply, SectionFields
<1>9. ASSUME NEW n, SubmitReply(n), ~AskToSignIn PROVE CommentsInv'
  BY <1>0, <1>2, <1>9 DEF SubmitReply, SectionFields
<1>10. ASSUME NEW n, ToggleLike(n), ~AskToSignIn PROVE CommentsInv'
  BY <1>0, <1>2, <1>10 DEF ToggleLike, SectionFields
<1>11. ASSUME NEW n, SubmitReply(n) \/ ToggleLike(n), AskToSignIn PROVE CommentsInv'
  BY <1>6, <1>11 DEF SubmitReply, ToggleLike
<1>12. CASE SubmitComment /\ AskToSignIn
  BY <1>6, <1>12 DEF SubmitComment
<1> QED
  BY <1>1, <1>3, <1>4, <1>5, <1>7, <1>8, <1>9, <1>10, <1>11, <1>12 DEF SectionVisitor

\* The backend keeps a tree in each market, and answers what fits the call.
LEMMA CommentsServed ==
    ASSUME CommentsInv, NEW call \in commentCalls, CallServed(call)
    PROVE  CommentsInv'
<1> USE DEF CommentsInv
<1>1. CommentsKnown' /\ CommentsStored'
  BY DEF CallServed, CommentsKnown, CommentsStored
<1>2. call = [f \in CallFields |-> call[f]] /\ call.market \in Market /\ IsCall(call)
  BY DEF CallsFit, IsCall
<1>3. ASSUME NEW answer, AnswerFits(call, answer), commentCalls' = CallsAnswered(call, answer)
      PROVE  CallsFit'
  <2>1. PICK served : served = [call EXCEPT !.answer = answer]
    OBVIOUS
  <2>2. /\ served = [f \in CallFields |-> served[f]] /\ served.kind = call.kind
        /\ served.market = call.market /\ served.id = call.id /\ served.answer = answer
    BY <1>2, <2>1 DEF CallFields
  <2>3. IsCall(served)
    BY <1>2, <1>3, <2>2 DEF IsCall, AnswerFits
  <2> QED
    BY <1>3, <2>1, <2>3 DEF CallsFit, CallsAnswered
<1>4. CASE LikeServed(call)
  <2>1. PICK likes \in Nat : /\ thread' = [m \in Market |-> WithLikes(thread[m], call.id, likes)]
                            /\ commentCalls' = CallsAnswered(call, likes)
                            /\ call.kind \in {"like", "unlike"}
    BY <1>4 DEF LikeServed
  <2>2. ThreadsKept'
    BY <2>1, LikedTree DEF ThreadsKept
  <2>3. AnswerFits(call, likes)
    BY <2>1 DEF AnswerFits
  <2> QED
    BY <1>1, <1>3, <2>1, <2>2, <2>3
<1>5. CASE CommentServed(call)
  <2>0. PICK id \in NextIds : \E new :
          /\ new = [id |-> id, parent |-> call.id, likes |-> 0, replies |-> 0]
          /\ thread' = [thread EXCEPT ![call.market] =
                IF call.kind = "post" THEN Append(@, new) ELSE WithReply(@, call.id, new)]
          /\ commentCalls' = CallsAnswered(call, new)
    BY <1>5 DEF CommentServed
  <2>1. PICK new :
          /\ new = [id |-> id, parent |-> call.id, likes |-> 0, replies |-> 0]
          /\ thread' = [thread EXCEPT ![call.market] =
                IF call.kind = "post" THEN Append(@, new) ELSE WithReply(@, call.id, new)]
          /\ commentCalls' = CallsAnswered(call, new)
    BY <2>0
  <2>2. call.kind \in {"post", "reply"} /\ (call.kind = "reply" => call.id \in Ids(thread[call.market]))
    BY <1>5 DEF CommentServed
  <2>3. id \in 1 .. MaxComments /\ id \notin Kept /\ \A k \in Kept : k \in 1 .. MaxComments => k < id
    BY CommentsAssumption DEF NextIds
  <2>4. \A m \in Market : IsTree(thread[m]) /\ Ids(thread[m]) \subseteq 1 .. MaxComments
                          /\ Ids(thread[m]) \subseteq Kept
    BY DEF ThreadsKept, Kept
  <2>5. call.kind = "reply" => call.id \in Nat /\ call.id < id
    BY <1>2, <2>2, <2>3, <2>4
  <2>6. new \in Node /\ new.id = id /\ new.parent = call.id
    BY <1>2, <2>1, <2>2, <2>3, <2>5 DEF Node, IsCall
  <2>7. AnswerFits(call, new)
    BY <1>2, <2>2, <2>3, <2>5, <2>6 DEF AnswerFits, IsCall
  <2>8. PICK nodes : nodes = thread[call.market]
    OBVIOUS
  <2>9. PICK more : more = IF call.kind = "post" THEN Append(nodes, new)
                           ELSE WithReply(nodes, call.id, new)
    OBVIOUS
  <2>10. thread' = [thread EXCEPT ![call.market] = more]
    BY <2>1, <2>8, <2>9
  <2>11. IsTree(nodes) /\ id \notin Ids(nodes) /\ Ids(nodes) \subseteq 1 .. MaxComments
    BY <1>2, <2>3, <2>4, <2>8
  <2>12. IsTree(more) /\ Ids(more) \subseteq 1 .. MaxComments
    <3>1. CASE call.kind = "post"
      <4>1. new.parent = None
        BY <1>2, <2>6, <3>1 DEF IsCall
      <4>2. \A i \in DOMAIN nodes : nodes[i].id # None
        <5>1. \A i \in DOMAIN nodes : nodes[i] \in Node
          BY <2>11 DEF IsTree
        <5> QED
          BY <5>1, CommentsAssumption DEF Node
      <4>3. IsTree(Append(nodes, new))
        BY <2>6, <2>11, <4>1, <4>2, AppendedTree
      <4>4. Ids(Append(nodes, new)) \subseteq Ids(nodes) \cup {id}
        BY <2>6, <2>11 DEF Ids, IsTree
      <4> QED
        BY <2>3, <2>9, <2>11, <3>1, <4>3, <4>4
    <3>2. CASE call.kind = "reply"
      <4>1. IsTree(more) /\ Ids(more) \subseteq Ids(nodes) \cup {id}
        BY <2>5, <2>6, <2>9, <2>11, <3>2, RepliedTree
      <4> QED
        BY <2>3, <2>11, <4>1
    <3> QED
      BY <2>2, <3>1, <3>2
  <2>13. ThreadsKept'
    BY <1>2, <2>10, <2>12 DEF ThreadsKept
  <2> QED
    BY <1>1, <1>3, <2>1, <2>7, <2>13
<1> QED
  BY <1>4, <1>5 DEF CallServed

\* Whatever answer comes, what it leaves is a tree again, on screen and in the cache.
LEMMA CommentsAnswered ==
    ASSUME CommentsInv, NEW call \in commentCalls, CallAnswered(call)
    PROVE  CommentsInv'
<1> USE DEF CommentsInv
<1>1. IsCall(call) /\ AnswerFits(call, call.answer)
  BY DEF CallsFit, IsCall, CallAnswered
<1>2. PICK nodes : nodes = section.comments
  OBVIOUS
<1>3. IsTree(nodes) /\ section = [f \in SectionFields |-> section[f]] /\ section.market \in Market
  BY <1>2 DEF CommentsKnown
<1>4. PICK shown : shown = CASE call.kind = "post"  -> <<call.answer>> \o nodes
                             [] call.kind = "reply" -> WithReply(nodes, call.id, call.answer)
                             [] OTHER               -> WithLikes(nodes, call.id, call.answer)
  OBVIOUS
<1>5. IsTree(Normalize(shown))
  <2>1. CASE call.kind = "post"
    BY <1>1, <1>3, <1>4, <2>1, PostedTree DEF AnswerFits
  <2>2. CASE call.kind = "reply"
    BY <1>1, <1>3, <1>4, <2>2, RepliedTree, NormalizedTree DEF AnswerFits
  <2>3. CASE call.kind \in {"like", "unlike"}
    BY <1>1, <1>3, <1>4, <2>3, LikedTree, NormalizedTree DEF AnswerFits
  <2> QED
    BY <1>1, <2>1, <2>2, <2>3 DEF IsCall
<1>6. PICK put : put = Publish(section, shown)
  OBVIOUS
<1>7. /\ put = [f \in SectionFields |-> put[f]]
      /\ put.market \in Market /\ IsTree(put.comments)
  BY <1>3, <1>5, <1>6, ResetTree DEF Publish
<1>8. PICK told : told = IF call.kind \in {"post", "reply"}
                         THEN [put EXCEPT !.message = "status"] ELSE put
  OBVIOUS
<1>9. /\ told = [f \in SectionFields |-> told[f]]
      /\ told.market = put.market /\ told.comments = put.comments
  BY <1>7, <1>8 DEF SectionFields
<1>10. /\ commentCalls' = commentCalls \ {call}
       /\ section' = Finished(told, call)
       /\ commentCache' = [commentCache EXCEPT ![section.market] = put.comments]
       /\ UNCHANGED <<commentReads, thread>>
  BY <1>2, <1>4, <1>6, <1>8 DEF CallAnswered
<1>11. CommentsKnown'
  <2>1. /\ Finished(told, call) = [f \in SectionFields |-> Finished(told, call)[f]]
        /\ Finished(told, call).market = told.market
        /\ Finished(told, call).comments = told.comments
    BY <1>9, FinishedTree
  <2> QED
    BY <1>7, <1>9, <1>10, <2>1 DEF CommentsKnown
<1>12. CommentsStored'
  BY <1>7, <1>10 DEF CommentsStored
<1>13. ThreadsKept' /\ CallsFit'
  BY <1>10 DEF ThreadsKept, CallsFit
<1> QED
  BY <1>11, <1>12, <1>13

LEMMA CommentsMove == CommentsInv /\ [SectionNext]_sectionVars => CommentsInv'
<1> SUFFICES ASSUME CommentsInv, [SectionNext]_sectionVars PROVE CommentsInv'
  OBVIOUS
<1>1. ASSUME NEW m \in Market, ReadServed(m) PROVE CommentsInv'
  BY <1>1 DEF ReadServed, CommentsInv, CommentsKnown, CommentsStored, ThreadsKept, CallsFit
<1>2. ASSUME NEW m \in Market, CommentsRead(m) PROVE CommentsInv'
  <2>1. IsTree(commentReads[m])
    BY <1>2 DEF CommentsRead, CommentsInv, CommentsStored
  <2>2. CommentsKnown'
    <3>1. section = [f \in SectionFields |-> section[f]] /\ CommentsKnown
      BY DEF CommentsInv, CommentsKnown
    <3>2. CASE section.market = m
      BY <1>2, <2>1, <3>1, <3>2, NormalizedTree, ResetTree DEF CommentsRead, CommentsKnown
    <3>3. CASE section.market # m
      BY <1>2, <3>1, <3>3 DEF CommentsRead, CommentsKnown
    <3> QED
      BY <3>2, <3>3
  <2>3. CommentsStored'
    BY <1>2, <2>1 DEF CommentsRead, CommentsInv, CommentsStored
  <2>4. ThreadsKept' /\ CallsFit'
    BY <1>2 DEF CommentsRead, CommentsInv, ThreadsKept, CallsFit
  <2> QED
    BY <2>2, <2>3, <2>4 DEF CommentsInv
<1>3. ASSUME NEW call \in commentCalls, CallFailed(call) PROVE CommentsInv'
  <2>1. PICK told : told = [section EXCEPT !.message = "error"]
    OBVIOUS
  <2>2. /\ told = [f \in SectionFields |-> told[f]]
        /\ told.market = section.market /\ told.comments = section.comments
    BY <2>1 DEF SectionFields, CommentsInv, CommentsKnown
  <2>3. section' = Finished(told, call) /\ commentCalls' = commentCalls \ {call}
        /\ UNCHANGED <<commentCache, commentReads, thread>>
    BY <1>3, <2>1 DEF CallFailed
  <2>4. /\ section' = [f \in SectionFields |-> section'[f]]
        /\ section'.market = section.market /\ section'.comments = section.comments
    BY <2>2, <2>3, FinishedTree
  <2> QED
    BY <2>3, <2>4 DEF CommentsInv, CommentsKnown, CommentsStored, ThreadsKept, CallsFit
<1>4. CASE UNCHANGED sectionVars
  BY <1>4 DEF sectionVars, CommentsInv, CommentsKnown, CommentsStored, ThreadsKept, CallsFit
<1> QED
  BY <1>1, <1>2, <1>3, <1>4, CommentsVisited, CommentsServed, CommentsAnswered
  DEF SectionNext, SectionAnswer

\* However reads, posts, replies and likes overtake each other, each comment is
\* listed once and none counts fewer replies than are listed under it
\* (normalizeRootComments, insertReplyIntoTree).
THEOREM CommentsListedOnce == SectionSpec => []EveryCommentOnce
<1>1. CommentsInv => EveryCommentOnce
  <2> SUFFICES ASSUME IsTree(section.comments) PROVE EveryCommentOnce
    BY DEF CommentsInv, CommentsKnown
  <2>1. IsInjective([i \in DOMAIN section.comments |-> section.comments[i].id])
    BY DEF IsInjective, IsTree
  <2>2. ASSUME NEW n \in ToSet(section.comments)
        PROVE  Cardinality(Replies(section.comments, n.id)) <= n.replies
    BY DEF ToSet, IsTree
  <2> QED
    BY <2>1, <2>2 DEF EveryCommentOnce
<1> QED
  BY <1>1, CommentsStart, CommentsMove, PTL DEF SectionSpec

-----------------------------------------------------------------------------
(* The chart *)

ChartFields ==
    {"market", "seed", "outcome", "tab", "range", "both", "settings", "loading", "error",
     "hovered", "version", "trades"}

\* c is something the panel may show.
IsChart(c) ==
    /\ c = [f \in ChartFields |-> c[f]]
    /\ c.market \in ChartMarket /\ c.range \in ChartRange /\ c.version \in Nat

LatestOnly ==
    /\ \A r \in historyAsked : r.version \in Nat /\ r.version <= chart.version
    /\ \A r, s \in historyAsked : IsLatestRequest(r) /\ IsLatestRequest(s) => r = s

\* What is being loaded is not known, and is what the latest request asks for.
LoadsWhatIsShown ==
    \/ /\ chart.loading = TRUE
       /\ historyCache[KeyOf(chart)] = Absent
       /\ [version |-> chart.version, key |-> KeyOf(chart)] \in historyAsked
    \/ /\ chart.loading = FALSE
       /\ historyCache[KeyOf(chart)] # Absent

ChartInv ==
    /\ IsChart(chart)
    /\ historyCache = [k \in ChartKey |-> historyCache[k]]
    /\ LatestOnly
    /\ LoadsWhatIsShown

\* The panel opens with the history of the page, or loading it.
LEMMA ChartStarts == ChartInit => ChartInv
<1> SUFFICES ASSUME ChartInit PROVE ChartInv
  OBVIOUS
<1>1. PICK m \in ChartMarket, h \in PageHistories :
        /\ chart = [market |-> m, seed |-> h, outcome |-> 0, tab |-> "graph", range |-> "1D",
                    both |-> FALSE, settings |-> FALSE, loading |-> TRUE, error |-> FALSE,
                    hovered |-> None, version |-> 1, trades |-> 1]
        /\ historyCache = [k \in ChartKey |-> Absent]
        /\ historyAsked = {[version |-> 1, key |-> <<m, "1D">>]}
  BY DEF ChartInit
<1>2. /\ IsChart(chart) /\ chart.loading = TRUE /\ chart.version = 1
      /\ chart.market = m /\ chart.range = "1D"
  BY <1>1, ChartAssumption DEF IsChart, ChartFields
<1>3. KeyOf(chart) = <<m, "1D">> /\ KeyOf(chart) \in ChartKey
  BY <1>2, ChartAssumption DEF KeyOf, ChartKey
<1>4. LatestOnly
  BY <1>1, <1>2 DEF LatestOnly
<1>5. LoadsWhatIsShown
  BY <1>1, <1>2, <1>3 DEF LoadsWhatIsShown
<1> QED
  BY <1>1, <1>2, <1>4, <1>5 DEF ChartInv

\* What the panel shows changes in nothing a request is about.
LEMMA ChartQuiet ==
    ASSUME ChartInv, UNCHANGED <<historyCache, historyAsked>>,
           chart' = [f \in ChartFields |-> chart'[f]],
           chart'.market = chart.market, chart'.range = chart.range,
           chart'.version = chart.version, chart'.loading = chart.loading
    PROVE  ChartInv'
BY DEF ChartInv, IsChart, LatestOnly, LoadsWhatIsShown, KeyOf, IsLatestRequest

\* The history effect of a panel that shows c.
LEMMA HistoryFetched ==
    ASSUME NEW c, IsChart(c)
    PROVE  LET f == FetchHistory(c, historyCache) IN
           /\ IsChart(f) /\ f.market = c.market /\ f.range = c.range
           /\ \/ /\ historyCache[KeyOf(c)] # Absent
                 /\ f.loading = FALSE /\ f.version = c.version
              \/ /\ historyCache[KeyOf(c)] = Absent
                 /\ f.loading = TRUE /\ f.version = c.version + 1
<1>1. CASE historyCache[KeyOf(c)] # Absent
  <2>1. PICK f : f = [c EXCEPT !.loading = FALSE]
    OBVIOUS
  <2>2. FetchHistory(c, historyCache) = f
    BY <1>1, <2>1 DEF FetchHistory
  <2>3. /\ IsChart(f) /\ f.market = c.market /\ f.range = c.range
        /\ f.loading = FALSE /\ f.version = c.version
    BY <2>1 DEF IsChart, ChartFields
  <2> QED
    BY <1>1, <2>2, <2>3
<1>2. CASE historyCache[KeyOf(c)] = Absent
  <2>1. PICK n \in Nat : n = c.version + 1
    BY DEF IsChart
  <2>2. PICK f : f = [c EXCEPT !.loading = TRUE, !.error = FALSE, !.version = n]
    OBVIOUS
  <2>3. FetchHistory(c, historyCache) = f
    BY <1>2, <2>1, <2>2 DEF FetchHistory
  <2>4. /\ IsChart(f) /\ f.market = c.market /\ f.range = c.range
        /\ f.loading = TRUE /\ f.version = n
    BY <2>1, <2>2 DEF IsChart, ChartFields
  <2> QED
    BY <1>2, <2>1, <2>3, <2>4
<1> QED
  BY <1>1, <1>2

\* Reading trades leaves the histories and what is loading as they were.
LEMMA TradesFetched ==
    ASSUME NEW c, IsChart(c)
    PROVE  LET f == FetchTrades(c) IN
           /\ IsChart(f) /\ f.market = c.market /\ f.range = c.range
           /\ f.loading = c.loading /\ f.version = c.version
<1>1. PICK n : n = c.trades + 1
  OBVIOUS
<1>2. CASE tradesCache[c.market] = Absent
  <2>1. PICK f : f = [c EXCEPT !.trades = n]
    OBVIOUS
  <2>2. FetchTrades(c) = f
    BY <1>1, <1>2, <2>1 DEF FetchTrades
  <2>3. /\ IsChart(f) /\ f.market = c.market /\ f.range = c.range
        /\ f.loading = c.loading /\ f.version = c.version
    BY <2>1 DEF IsChart, ChartFields
  <2> QED
    BY <2>2, <2>3
<1> QED
  BY <1>2 DEF FetchTrades

\* The history effect runs for c, and the request it makes goes out.
LEMMA ChartAsks ==
    ASSUME ChartInv, NEW c, IsChart(c), c.version = chart.version,
           IsChart(chart'), historyCache' = historyCache,
           chart'.market = c.market, chart'.range = c.range,
           LET f == FetchHistory(c, historyCache) IN
           chart'.loading = f.loading /\ chart'.version = f.version,
           historyAsked' = HistoryRequests(chart', historyAsked)
    PROVE  ChartInv'
<1>1. KeyOf(chart)' = KeyOf(c)
  BY DEF KeyOf
<1>2. CASE historyCache[KeyOf(c)] # Absent
  <2>1. chart'.loading = FALSE /\ chart'.version = chart.version
    BY <1>2, HistoryFetched
  <2>2. historyAsked' = historyAsked
    BY <2>1 DEF HistoryRequests
  <2>3. LatestOnly'
    BY <2>1, <2>2 DEF ChartInv, LatestOnly, IsLatestRequest
  <2>4. LoadsWhatIsShown'
    BY <1>1, <1>2, <2>1 DEF LoadsWhatIsShown
  <2> QED
    BY <2>3, <2>4 DEF ChartInv
<1>3. CASE historyCache[KeyOf(c)] = Absent
  <2>1. /\ chart'.loading = TRUE /\ chart'.version = chart.version + 1
        /\ chart.version \in Nat /\ chart'.version \in Nat
    BY <1>3, HistoryFetched, ZenonT(60) DEF ChartInv, IsChart
  <2>2. PICK r : r = [version |-> chart'.version, key |-> KeyOf(chart')]
    OBVIOUS
  <2>3. historyAsked' = historyAsked \cup {r} /\ r.version = chart'.version
    BY <2>1, <2>2 DEF HistoryRequests
  <2>4. \A s \in historyAsked : s.version \in Nat /\ s.version <= chart.version
    BY DEF ChartInv, LatestOnly
  <2>5. LatestOnly'
    BY <2>1, <2>3, <2>4 DEF LatestOnly, IsLatestRequest
  <2>6. LoadsWhatIsShown'
    BY <1>1, <1>3, <2>1, <2>2, <2>3 DEF LoadsWhatIsShown, KeyOf
  <2> QED
    BY <2>5, <2>6 DEF ChartInv
<1> QED
  BY <1>2, <1>3

LEMMA ChartMoves == ChartInv /\ [ChartNext]_chartVars => ChartInv'
<1> SUFFICES ASSUME ChartInv, [ChartNext]_chartVars PROVE ChartInv'
  OBVIOUS
<1>0. IsChart(chart)
  BY DEF ChartInv
<1>1. ASSUME NEW m \in ChartMarket, NEW h \in PageHistories, NEW outcome \in Outcome,
             MarketPublished(m, h, outcome)
      PROVE  ChartInv'
  <2>1. PICK reset : reset =
            [chart EXCEPT !.market = m, !.seed = h, !.outcome = outcome, !.tab = "graph",
                          !.range = "1D", !.settings = FALSE, !.error = FALSE,
                          !.loading = FALSE, !.hovered = None]
    OBVIOUS
  <2>2. IsChart(reset) /\ reset.version = chart.version
    BY <1>0, <2>1, ChartAssumption DEF IsChart, ChartFields
  <2>3. /\ chart' = FetchTrades(FetchHistory(reset, historyCache))
        /\ historyAsked' = HistoryRequests(chart', historyAsked)
        /\ historyCache' = historyCache
    BY <1>1, <2>1 DEF MarketPublished
  <2>4. PICK fetched : fetched = FetchHistory(reset, historyCache)
    OBVIOUS
  <2>5. IsChart(fetched) /\ fetched.market = reset.market /\ fetched.range = reset.range
    BY <2>2, <2>4, HistoryFetched
  <2>6. /\ IsChart(chart') /\ chart'.market = reset.market /\ chart'.range = reset.range
        /\ chart'.loading = fetched.loading /\ chart'.version = fetched.version
    BY <2>3, <2>4, <2>5, TradesFetched
  <2> QED
    BY <2>2, <2>3, <2>4, <2>6, ChartAsks
<1>2. ASSUME NEW range \in ChartRange, SelectRange(range) PROVE ChartInv'
  <2>1. PICK c : c = [chart EXCEPT !.range = range, !.hovered = None]
    OBVIOUS
  <2>2. IsChart(c) /\ c.version = chart.version
    BY <1>0, <2>1 DEF IsChart, ChartFields
  <2>3. /\ chart' = FetchHistory(c, historyCache)
        /\ historyAsked' = HistoryRequests(chart', historyAsked)
        /\ historyCache' = historyCache
    BY <1>2, <2>1 DEF SelectRange
  <2>4. IsChart(chart') /\ chart'.market = c.market /\ chart'.range = c.range
    BY <2>2, <2>3, HistoryFetched
  <2> QED
    BY <2>2, <2>3, <2>4, ChartAsks
<1>3. CASE \/ \E outcome \in Outcome : SelectOutcome(outcome)
           \/ \E tab \in {"graph", "orderbook"} : SelectTab(tab)
           \/ ToggleSettings
           \/ \E t \in Instant : HoverAt(t)
  <2>1. /\ chart' = [f \in ChartFields |-> chart'[f]]
        /\ chart'.market = chart.market /\ chart'.range = chart.range
        /\ chart'.version = chart.version /\ chart'.loading = chart.loading
    <3>1. ASSUME NEW outcome \in Outcome, SelectOutcome(outcome) PROVE <2>1!:
      BY <1>0, <3>1 DEF SelectOutcome, IsChart, ChartFields
    <3>2. ASSUME NEW tab, SelectTab(tab) PROVE <2>1!:
      BY <1>0, <3>2 DEF SelectTab, IsChart, ChartFields
    <3>3. ASSUME ToggleSettings PROVE <2>1!:
      BY <1>0, <3>3 DEF ToggleSettings, IsChart, ChartFields
    <3>4. ASSUME NEW t \in Instant, HoverAt(t) PROVE <2>1!:
      <4>1. PICK near : chart' = [chart EXCEPT !.hovered = near]
        BY <3>4 DEF HoverAt
      <4> QED
        BY <1>0, <4>1 DEF IsChart, ChartFields
    <3> QED
      BY <1>3, <3>1, <3>2, <3>3, <3>4
  <2>2. UNCHANGED <<historyCache, historyAsked>>
    BY <1>3 DEF SelectOutcome, SelectTab, ToggleSettings, HoverAt
  <2> QED
    BY <2>1, <2>2, ChartQuiet
<1>4. ASSUME NEW r \in historyAsked, NEW h \in HistoryAnswers \cup {None},
             HistoryAnswered(r, h)
      PROVE  ChartInv'
  <2>1. historyAsked' = historyAsked \ {r}
    BY <1>4 DEF HistoryAnswered
  <2>2. CASE IsLatestRequest(r)
    <3>1. PICK failed : failed = ((h = None) \/ chart.error)
      OBVIOUS
    <3>2. /\ historyCache' = [historyCache EXCEPT ![r.key] = h]
          /\ chart' = [chart EXCEPT !.loading = FALSE, !.error = failed]
      BY <1>4, <2>2, <3>1 DEF HistoryAnswered
    <3>3. /\ IsChart(chart') /\ chart'.loading = FALSE /\ chart'.version = chart.version
          /\ chart'.market = chart.market /\ chart'.range = chart.range
      BY <1>0, <3>2 DEF IsChart, ChartFields
    <3>4. KeyOf(chart)' = KeyOf(chart) /\ KeyOf(chart) \in ChartKey
      BY <1>0, <3>3 DEF KeyOf, ChartKey, IsChart
    <3>5. chart.loading = TRUE => r.key = KeyOf(chart)
      <4>1. PICK s : s = [version |-> chart.version, key |-> KeyOf(chart)]
        OBVIOUS
      <4>2. s.version = chart.version /\ s.key = KeyOf(chart)
        BY <4>1
      <4> QED
        BY <2>2, <4>1, <4>2 DEF ChartInv, LoadsWhatIsShown, LatestOnly, IsLatestRequest
    <3>6. /\ historyCache' = [k \in ChartKey |-> historyCache'[k]]
          /\ \A k \in ChartKey : historyCache'[k] = IF k = r.key THEN h ELSE historyCache[k]
      BY <3>2 DEF ChartInv
    <3>7. LoadsWhatIsShown'
      BY <3>3, <3>4, <3>5, <3>6, ChartAssumption DEF ChartInv, LoadsWhatIsShown
    <3>8. LatestOnly'
      BY <2>1, <3>3 DEF ChartInv, LatestOnly, IsLatestRequest
    <3> QED
      BY <3>3, <3>6, <3>7, <3>8 DEF ChartInv
  <2>3. CASE ~IsLatestRequest(r)
    <3>1. UNCHANGED <<chart, historyCache>>
      BY <1>4, <2>3 DEF HistoryAnswered
    <3>2. LatestOnly'
      BY <2>1, <3>1 DEF ChartInv, LatestOnly, IsLatestRequest
    <3>3. KeyOf(chart)' = KeyOf(chart)
      BY <3>1 DEF KeyOf
    <3>4. PICK s : s = [version |-> chart.version, key |-> KeyOf(chart)]
      OBVIOUS
    <3>5. s # r
      BY <2>3, <3>4 DEF IsLatestRequest
    <3>6. s' = s
      BY <3>4
    <3>7. LoadsWhatIsShown'
      BY <2>1, <3>1, <3>3, <3>4, <3>5 DEF ChartInv, LoadsWhatIsShown
    <3> QED
      BY <3>1, <3>2, <3>7 DEF ChartInv, IsChart
  <2> QED
    BY <2>2, <2>3
<1>5. ASSUME NEW r \in tradesAsked, NEW ts \in TradeAnswers \cup {None},
             TradesAnswered(r, ts)
      PROVE  ChartInv'
  BY <1>0, <1>5, ChartQuiet DEF TradesAnswered, IsChart
<1>6. CASE UNCHANGED chartVars
  BY <1>0, <1>6, ChartQuiet DEF chartVars, IsChart
<1> QED
  BY <1>1, <1>2, <1>3, <1>4, <1>5, <1>6 DEF ChartNext, ChartVisitor, ChartAnswer

Drawn == [t : Int, price : 0 .. Whole]

\* p is drawn in time order and within prices.
IsLine(p) ==
    /\ p \in Seq(Drawn)
    /\ \A j, k \in DOMAIN p : j < k => p[j].t <= p[k].t

\* A line through every point of s.
LEMMA LineThrough ==
    ASSUME NEW s, NEW n \in Nat, DOMAIN s = 1 .. n, NEW turned \in BOOLEAN,
           \A i \in 1 .. n : s[i].t \in Int /\ s[i].price \in Int
    PROVE  IsLine(Line(s, turned)) /\ DOMAIN Line(s, turned) = 1 .. n
<1>1. PICK drawn : drawn = [i \in DOMAIN s |->
                             [t |-> s[i].t,
                              price |-> Clamp(IF turned THEN Whole - s[i].price ELSE s[i].price)]]
  OBVIOUS
<1>2. PICK key : key = [i \in DOMAIN s |-> s[i].t]
  OBVIOUS
<1>3. ASSUME NEW i \in 1 .. n
      PROVE  drawn[i] \in Drawn /\ drawn[i].t = key[i] /\ key[i] \in Int
  <2>1. PICK price \in Int : price = IF turned THEN Whole - s[i].price ELSE s[i].price
    BY ChartAssumption
  <2>2. drawn[i] = [t |-> s[i].t, price |-> Clamp(price)] /\ key[i] = s[i].t
    BY <1>1, <1>2, <2>1
  <2>3. Clamp(price) \in 0 .. Whole
    BY ChartAssumption DEF Clamp
  <2> QED
    BY <2>2, <2>3 DEF Drawn
<1>4. DOMAIN drawn = 1 .. n /\ \A i \in 1 .. n : key[i] \in Int
  BY <1>1, <1>3
<1>5. PICK order \in Bijection(1 .. n, 1 .. n) :
         /\ Sorted(drawn, key) = Along(drawn, order, n)
         /\ \A j, k \in 1 .. n : j < k => key[order[j]] <= key[order[k]]
  BY <1>4, SortedIsOrdered
<1>6. PICK p : p = Line(s, turned)
  OBVIOUS
<1>7. p = Along(drawn, order, n)
  BY <1>1, <1>2, <1>5, <1>6, Zenon DEF Line
<1>8. \A k \in 1 .. n : order[k] \in 1 .. n
  BY <1>5 DEF Bijection, Injection
<1>9. DOMAIN p = 1 .. n /\ \A k \in 1 .. n : p[k] = drawn[order[k]]
  BY <1>7 DEF Along
<1>10. p \in Seq(Drawn)
  <2>1. \A k \in 1 .. n : p[k] \in Drawn
    BY <1>3, <1>8, <1>9
  <2>2. p = [k \in 1 .. n |-> p[k]]
    BY <1>7, <1>9 DEF Along
  <2> QED
    BY <2>1, <2>2
<1>11. ASSUME NEW j \in 1 .. n, NEW k \in 1 .. n, j < k PROVE p[j].t <= p[k].t
  <2>1. p[j].t = key[order[j]] /\ p[k].t = key[order[k]]
    BY <1>3, <1>8, <1>9
  <2> QED
    BY <1>5, <1>11, <2>1
<1> QED
  BY <1>6, <1>9, <1>10, <1>11 DEF IsLine

\* A part of a line is a line.
LEMMA PartOfLine ==
    ASSUME NEW p, IsLine(p), NEW S \in SUBSET DOMAIN p
    PROVE  IsLine(Picked(p, S)) /\ (Picked(p, S) = <<>> => S = {})
<1>1. PICK n \in Nat : DOMAIN p = 1 .. n /\ n = Len(p)
  BY DEF IsLine
<1>2. PICK c \in Nat : c = Cardinality(S)
  BY <1>1, PickedIsOrdered
<1>3. PICK order \in Bijection(1 .. c, S) :
         Picked(p, S) = Along(p, order, c) /\ \A j, k \in 1 .. c : j < k => order[j] < order[k]
  BY <1>1, <1>2, PickedIsOrdered
<1>4. PICK q : q = Picked(p, S)
  OBVIOUS
<1>5. DOMAIN q = 1 .. c /\ \A k \in 1 .. c : order[k] \in S /\ order[k] \in 1 .. n /\ q[k] = p[order[k]]
  BY <1>1, <1>3, <1>4 DEF Along, Bijection, Injection
<1>6. \A k \in 1 .. n : p[k] \in Drawn
  BY <1>1 DEF IsLine
<1>7. q \in Seq(Drawn)
  BY <1>3, <1>4, <1>5, <1>6 DEF Along
<1>8. ASSUME NEW j \in 1 .. c, NEW k \in 1 .. c, j < k PROVE q[j].t <= q[k].t
  BY <1>1, <1>3, <1>5, <1>8 DEF IsLine
<1>9. ASSUME q = <<>>, NEW x \in S PROVE FALSE
  <2>1. PICK k \in 1 .. c : order[k] = x
    BY <1>3 DEF Bijection, Surjection
  <2> QED
    BY <1>5, <1>9, <2>1
<1> QED
  BY <1>4, <1>5, <1>7, <1>8, <1>9 DEF IsLine

\* The points of an outcome in a history.
LEMMA PickedPoints ==
    ASSUME NEW h \in History, NEW o
    PROVE  LET S == {i \in DOMAIN h.points : h.points[i].outcome = o}
               own == Picked(h.points, S)
           IN  /\ \E c \in Nat : DOMAIN own = 1 .. c
               /\ \A k \in DOMAIN own : own[k].t \in Int /\ own[k].price \in Int
               /\ own = <<>> => S = {}
<1>1. h.points \in Seq(Point)
  BY DEF History
<1>2. PICK n \in Nat : DOMAIN h.points = 1 .. n /\ n = Len(h.points)
  BY <1>1
<1>0. \A i \in 1 .. n : h.points[i] \in Point
  BY <1>1, <1>2
<1>3. PICK S : S = {i \in DOMAIN h.points : h.points[i].outcome = o}
  OBVIOUS
<1>4. S \in SUBSET (1 .. n)
  BY <1>2, <1>3
<1>5. PICK c \in Nat : c = Cardinality(S)
  BY <1>4, PickedIsOrdered
<1>6. PICK order \in Bijection(1 .. c, S) : Picked(h.points, S) = Along(h.points, order, c)
  BY <1>4, <1>5, PickedIsOrdered
<1>7. PICK own : own = Picked(h.points, S)
  OBVIOUS
<1>8. DOMAIN own = 1 .. c /\ \A k \in 1 .. c : order[k] \in 1 .. n /\ own[k] = h.points[order[k]]
  BY <1>4, <1>6, <1>7 DEF Along, Bijection, Injection
<1>9. \A k \in 1 .. c : own[k].t \in Int /\ own[k].price \in Int
  BY <1>0, <1>8 DEF Point
<1>10. ASSUME own = <<>>, NEW x \in S PROVE FALSE
  <2>1. PICK k \in 1 .. c : order[k] = x
    BY <1>6 DEF Bijection, Surjection
  <2> QED
    BY <1>8, <1>10, <2>1
<1> QED
  BY <1>3, <1>7, <1>8, <1>9, <1>10

LEMMA OutcomeLine ==
    ASSUME NEW h \in History \cup {None}, NEW outcome \in Outcome
    PROVE  /\ IsLine(OutcomePoints(h, outcome))
           /\ OutcomePoints(h, outcome) = <<>> => h = None \/ (h.mids = <<>> /\ h.points = <<>>)
<1>1. CASE h = None
  <2>1. OutcomePoints(h, outcome) = <<>>
    BY <1>1 DEF OutcomePoints
  <2> QED
    BY <1>1, <2>1 DEF IsLine
<1>2. CASE h # None /\ h.mids # <<>>
  <2>0. h.mids \in Seq(Mid)
    BY <1>2 DEF History
  <2>1. PICK n \in Nat : DOMAIN h.mids = 1 .. n /\ n = Len(h.mids) /\ n # 0
    BY <1>2, <2>0
  <2>2. \A i \in 1 .. n : h.mids[i].t \in Int /\ h.mids[i].price \in Int
    <3>1. \A i \in 1 .. n : h.mids[i] \in Mid
      BY <2>0, <2>1
    <3> QED
      BY <3>1 DEF Mid
  <2>3. PICK turned \in BOOLEAN : turned = (outcome = 1)
    OBVIOUS
  <2>4. OutcomePoints(h, outcome) = Line(h.mids, turned)
    BY <1>2, <2>3 DEF OutcomePoints
  <2>5. IsLine(Line(h.mids, turned)) /\ DOMAIN Line(h.mids, turned) = 1 .. n
    BY <2>1, <2>2, LineThrough
  <2> QED
    BY <2>1, <2>4, <2>5
<1>3. CASE h # None /\ h.mids = <<>>
  <2>0. \A q : q = <<>> => DOMAIN q = {}
    OBVIOUS
  <2>1. h \in History
    BY <1>3
  <2>2. PICK S, T : /\ S = {i \in DOMAIN h.points : h.points[i].outcome = outcome}
                    /\ T = {i \in DOMAIN h.points : h.points[i].outcome = 1 - outcome}
    OBVIOUS
  <2>3. PICK own, other : own = Picked(h.points, S) /\ other = Picked(h.points, T)
    OBVIOUS
  <2>4. PICK n \in Nat : DOMAIN own = 1 .. n
    BY <2>1, <2>2, <2>3, PickedPoints
  <2>5. PICK m \in Nat : DOMAIN other = 1 .. m
    BY <2>1, <2>2, <2>3, PickedPoints
  <2>6. \A k \in 1 .. n : own[k].t \in Int /\ own[k].price \in Int
    BY <2>1, <2>2, <2>3, <2>4, PickedPoints
  <2>7. \A k \in 1 .. m : other[k].t \in Int /\ other[k].price \in Int
    BY <2>1, <2>2, <2>3, <2>5, PickedPoints
  <2>8. OutcomePoints(h, outcome) = IF own # <<>> THEN Line(own, FALSE) ELSE Line(other, TRUE)
    BY <1>3, <2>2, <2>3, Zenon DEF OutcomePoints
  <2>9. IsLine(Line(own, FALSE)) /\ DOMAIN Line(own, FALSE) = 1 .. n
    BY <2>4, <2>6, LineThrough
  <2>10. IsLine(Line(other, TRUE)) /\ DOMAIN Line(other, TRUE) = 1 .. m
    BY <2>5, <2>7, LineThrough
  <2>11. ASSUME OutcomePoints(h, outcome) = <<>> PROVE own = <<>> /\ other = <<>>
    <3>1. own = <<>>
      <4>1. CASE own # <<>>
        <5>1. DOMAIN Line(own, FALSE) = {}
          BY <2>0, <2>8, <2>11, <4>1
        <5>2. n = 0
          <6>1. n # 0 => 1 \in 1 .. n
            OBVIOUS
          <6> QED
            BY <2>9, <5>1, <6>1
        <5>3. own = [k \in DOMAIN own |-> own[k]]
          BY <2>3 DEF Picked
        <5> QED
          BY <2>4, <5>2, <5>3
      <4> QED
        BY <4>1
    <3>2. DOMAIN Line(other, TRUE) = {}
      BY <2>0, <2>8, <2>11, <3>1
    <3>3. m = 0
      <4>1. m # 0 => 1 \in 1 .. m
        OBVIOUS
      <4> QED
        BY <2>10, <3>2, <4>1
    <3>4. other = [k \in DOMAIN other |-> other[k]]
      BY <2>3 DEF Picked
    <3> QED
      BY <2>5, <3>1, <3>3, <3>4
  <2>12. ASSUME own = <<>>, other = <<>> PROVE h.points = <<>>
    <3>1. S = {} /\ T = {}
      BY <2>1, <2>2, <2>3, <2>12, PickedPoints
    <3>0. h.points \in Seq(Point)
      BY <2>1 DEF History
    <3>2. \A i \in DOMAIN h.points : h.points[i].outcome \in Outcome
      <4>1. \A i \in DOMAIN h.points : h.points[i] \in Point
        BY <3>0
      <4> QED
        BY <4>1 DEF Point
    <3>3. \A i \in DOMAIN h.points : i \in S \/ i \in T
      BY <2>2, <3>2 DEF Outcome
    <3>4. DOMAIN h.points = {}
      BY <3>1, <3>3
    <3>5. DOMAIN h.points = 1 .. Len(h.points) /\ Len(h.points) \in Nat
      BY <3>0
    <3>6. Len(h.points) # 0 => 1 \in 1 .. Len(h.points)
      BY <3>5
    <3>7. Len(h.points) = 0
      BY <3>4, <3>5, <3>6
    <3> QED
      BY <3>0, <3>7, EmptySeq
  <2> QED
    BY <1>3, <2>8, <2>9, <2>10, <2>11, <2>12
<1> QED
  BY <1>1, <1>2, <1>3

LEMMA TradeLine ==
    ASSUME NEW ts \in Seq(Trade) \cup {None}, NEW outcome \in Outcome, NEW range \in ChartRange
    PROVE  /\ IsLine(TradePoints(ts, outcome, range))
           /\ TradePoints(ts, outcome, range) = <<>> => ts = None \/ ts = <<>>
<1>1. CASE ts = None
  <2>1. TradePoints(ts, outcome, range) = <<>>
    BY <1>1 DEF TradePoints
  <2> QED
    BY <1>1, <2>1 DEF IsLine
<1>2. CASE ts # None
  <2>1. PICK n \in Nat : DOMAIN ts = 1 .. n /\ n = Len(ts)
    BY <1>2
  <2>2. \A i \in 1 .. n : ts[i].t \in Int /\ ts[i].yes \in Int /\ ts[i].no \in Int
    <3>1. \A i \in 1 .. n : ts[i] \in Trade
      BY <1>2, <2>1
    <3> QED
      BY <3>1 DEF Trade
  <2>3. PICK own : own = [i \in DOMAIN ts |->
                            [t |-> ts[i].t,
                             price |-> IF outcome = 0 THEN ts[i].yes ELSE ts[i].no]]
    OBVIOUS
  <2>4. DOMAIN own = 1 .. n /\ \A i \in 1 .. n : own[i].t \in Int /\ own[i].price \in Int
    BY <2>1, <2>2, <2>3
  <2>5. PICK p : p = Line(own, FALSE)
    OBVIOUS
  <2>6. IsLine(p) /\ DOMAIN p = 1 .. n
    BY <2>4, <2>5, LineThrough
  <2>7. PICK S : S = {i \in DOMAIN p : Window[range] # None => p[i].t >= Last(p).t - Window[range]}
    OBVIOUS
  <2>8. TradePoints(ts, outcome, range) = Picked(p, S)
    BY <1>2, <2>3, <2>5, <2>7, Zenon DEF TradePoints
  <2>9. S \in SUBSET DOMAIN p
    BY <2>7
  <2>10. IsLine(Picked(p, S)) /\ (Picked(p, S) = <<>> => S = {})
    BY <2>6, <2>9, PartOfLine
  <2>11. ASSUME ts # <<>> PROVE n \in S
    <3>1. n \in 1 .. n /\ Len(p) = n
      BY <1>2, <2>1, <2>6, <2>11 DEF IsLine
    <3>2. Last(p) = p[n] /\ p[n].t \in Int
      <4>1. p[n] \in Drawn
        BY <2>6, <3>1 DEF IsLine
      <4> QED
        BY <3>1, <4>1 DEF Last, Drawn
    <3>3. Window[range] # None => Window[range] \in Nat
      BY ChartAssumption
    <3> QED
      BY <2>6, <2>7, <3>1, <3>2, <3>3
  <2> QED
    BY <2>8, <2>10, <2>11
<1> QED
  BY <1>1, <1>2

\* What the panel goes by is an answer or not known yet.
ChartKnown ==
    /\ chart.seed \in PageHistories /\ chart.outcome \in Outcome
    /\ \A k \in ChartKey : historyCache[k] \in HistoryAnswers \cup {None, Absent}
    /\ tradesCache = [m \in ChartMarket |-> tradesCache[m]]
    /\ \A m \in ChartMarket : tradesCache[m] \in TradeAnswers \cup {None, Absent}

LEMMA ChartStartsKnown == ChartInit => ChartKnown
<1> SUFFICES ASSUME ChartInit PROVE ChartKnown
  OBVIOUS
<1>1. PICK m \in ChartMarket, h \in PageHistories :
        /\ chart = [market |-> m, seed |-> h, outcome |-> 0, tab |-> "graph", range |-> "1D",
                    both |-> FALSE, settings |-> FALSE, loading |-> TRUE, error |-> FALSE,
                    hovered |-> None, version |-> 1, trades |-> 1]
        /\ historyCache = [k \in ChartKey |-> Absent]
        /\ tradesCache = [n \in ChartMarket |-> Absent]
  BY DEF ChartInit
<1>2. chart.seed = h /\ chart.outcome = 0
  BY <1>1
<1> QED
  BY <1>1, <1>2 DEF ChartKnown, Outcome

\* Asking changes neither the choice of the visitor nor what the page handed over.
LEMMA FetchingKeeps ==
    ASSUME NEW c, IsChart(c), NEW f, f = FetchHistory(c, historyCache) \/ f = FetchTrades(c)
    PROVE  f.seed = c.seed /\ f.outcome = c.outcome
<1>1. PICK n : n = c.version + 1
  OBVIOUS
<1>2. PICK k : k = c.trades + 1
  OBVIOUS
<1>3. \/ f = c \/ f = [c EXCEPT !.loading = FALSE] \/ f = [c EXCEPT !.trades = k]
      \/ f = [c EXCEPT !.loading = TRUE, !.error = FALSE, !.version = n]
  BY <1>1, <1>2 DEF FetchHistory, FetchTrades
<1>4. CASE f = [c EXCEPT !.loading = FALSE]
  BY <1>4 DEF IsChart, ChartFields
<1>5. CASE f = [c EXCEPT !.trades = k]
  BY <1>5 DEF IsChart, ChartFields
<1>6. CASE f = [c EXCEPT !.loading = TRUE, !.error = FALSE, !.version = n]
  BY <1>6 DEF IsChart, ChartFields
<1> QED
  BY <1>3, <1>4, <1>5, <1>6

LEMMA ChartMovesKnown == ChartInv /\ ChartKnown /\ [ChartNext]_chartVars => ChartKnown'
<1> SUFFICES ASSUME ChartInv, ChartKnown, [ChartNext]_chartVars PROVE ChartKnown'
  OBVIOUS
<1>0. IsChart(chart)
  BY DEF ChartInv
<1>1. ASSUME NEW m \in ChartMarket, NEW h \in PageHistories, NEW outcome \in Outcome,
             MarketPublished(m, h, outcome)
      PROVE  ChartKnown'
  <2>1. PICK reset : reset =
            [chart EXCEPT !.market = m, !.seed = h, !.outcome = outcome, !.tab = "graph",
                          !.range = "1D", !.settings = FALSE, !.error = FALSE,
                          !.loading = FALSE, !.hovered = None]
    OBVIOUS
  <2>2. IsChart(reset) /\ reset.seed = h /\ reset.outcome = outcome
    BY <1>0, <2>1, ChartAssumption DEF IsChart, ChartFields
  <2>3. PICK fetched : fetched = FetchHistory(reset, historyCache)
    OBVIOUS
  <2>4. chart' = FetchTrades(fetched) /\ UNCHANGED <<historyCache, tradesCache>>
    BY <1>1, <2>1, <2>3 DEF MarketPublished
  <2>5. IsChart(fetched)
    BY <2>2, <2>3, HistoryFetched
  <2>6. fetched.seed = h /\ fetched.outcome = outcome
    BY <2>2, <2>3, FetchingKeeps
  <2>7. chart'.seed = h /\ chart'.outcome = outcome
    BY <2>4, <2>5, <2>6, FetchingKeeps
  <2> QED
    BY <2>4, <2>7 DEF ChartKnown
<1>2. ASSUME NEW range \in ChartRange, SelectRange(range) PROVE ChartKnown'
  <2>1. PICK c : c = [chart EXCEPT !.range = range, !.hovered = None]
    OBVIOUS
  <2>2. IsChart(c) /\ c.seed = chart.seed /\ c.outcome = chart.outcome
    BY <1>0, <2>1 DEF IsChart, ChartFields
  <2>3. chart' = FetchHistory(c, historyCache) /\ UNCHANGED <<historyCache, tradesCache>>
    BY <1>2, <2>1 DEF SelectRange
  <2>4. chart'.seed = chart.seed /\ chart'.outcome = chart.outcome
    BY <2>2, <2>3, FetchingKeeps
  <2> QED
    BY <2>3, <2>4 DEF ChartKnown
<1>3. ASSUME NEW outcome \in Outcome, SelectOutcome(outcome) PROVE ChartKnown'
  <2>1. chart'.seed = chart.seed /\ chart'.outcome = outcome
    BY <1>0, <1>3 DEF SelectOutcome, IsChart, ChartFields
  <2> QED
    BY <1>3, <2>1 DEF SelectOutcome, ChartKnown
<1>4. ASSUME NEW tab, SelectTab(tab) PROVE ChartKnown'
  <2>1. chart'.seed = chart.seed /\ chart'.outcome = chart.outcome
    BY <1>0, <1>4 DEF SelectTab, IsChart, ChartFields
  <2> QED
    BY <1>4, <2>1 DEF SelectTab, ChartKnown
<1>5. CASE ToggleSettings
  <2>1. chart'.seed = chart.seed /\ chart'.outcome = chart.outcome
    BY <1>0, <1>5 DEF ToggleSettings, IsChart, ChartFields
  <2> QED
    BY <1>5, <2>1 DEF ToggleSettings, ChartKnown
<1>6. ASSUME NEW t \in Instant, HoverAt(t) PROVE ChartKnown'
  <2>1. PICK near : chart' = [chart EXCEPT !.hovered = near]
    BY <1>6 DEF HoverAt
  <2>2. chart'.seed = chart.seed /\ chart'.outcome = chart.outcome
    BY <1>0, <2>1 DEF IsChart, ChartFields
  <2> QED
    BY <1>6, <2>2 DEF HoverAt, ChartKnown
<1>7. ASSUME NEW r \in historyAsked, NEW h \in HistoryAnswers \cup {None},
             HistoryAnswered(r, h)
      PROVE  ChartKnown'
  <2>1. PICK failed : failed = ((h = None) \/ chart.error)
    OBVIOUS
  <2>2. \/ UNCHANGED <<chart, historyCache>>
        \/ /\ historyCache' = [historyCache EXCEPT ![r.key] = h]
           /\ chart' = [chart EXCEPT !.loading = FALSE, !.error = failed]
    BY <1>7, <2>1 DEF HistoryAnswered
  <2>3. chart'.seed = chart.seed /\ chart'.outcome = chart.outcome
    BY <1>0, <2>2 DEF IsChart, ChartFields
  <2>4. \A k \in ChartKey : historyCache'[k] = historyCache[k] \/ historyCache'[k] = h
    BY <2>2 DEF ChartInv
  <2>5. tradesCache' = tradesCache
    BY <1>7 DEF HistoryAnswered
  <2> QED
    BY <2>3, <2>4, <2>5 DEF ChartKnown
<1>8. ASSUME NEW r \in tradesAsked, NEW ts \in TradeAnswers \cup {None},
             TradesAnswered(r, ts)
      PROVE  ChartKnown'
  <2>1. UNCHANGED <<chart, historyCache>>
    BY <1>8 DEF TradesAnswered
  <2>2. tradesCache' = tradesCache \/ tradesCache' = [tradesCache EXCEPT ![r.market] = ts]
    BY <1>8 DEF TradesAnswered
  <2>3. /\ tradesCache' = [m \in ChartMarket |-> tradesCache'[m]]
        /\ \A m \in ChartMarket : tradesCache'[m] = tradesCache[m] \/ tradesCache'[m] = ts
    BY <2>2 DEF ChartKnown
  <2> QED
    BY <2>1, <2>3 DEF ChartKnown
<1>9. CASE UNCHANGED chartVars
  BY <1>9 DEF chartVars, ChartKnown
<1> QED
  BY <1>1, <1>2, <1>3, <1>4, <1>5, <1>6, <1>7, <1>8, <1>9
     DEF ChartNext, ChartVisitor, ChartAnswer

\* What is drawn of an outcome, and when nothing is.
LEMMA DrawnOf ==
    ASSUME ChartInv, ChartKnown, NEW outcome \in Outcome, NEW p,
           p = PointsOf(chart, historyCache, tradesCache, outcome)
    PROVE  /\ IsLine(p)
           /\ p = <<>> =>
                 LET h == ActiveHistory(chart, historyCache)
                     t == ActiveTrades(chart, tradesCache)
                 IN  (h = None \/ (h.mids = <<>> /\ h.points = <<>>)) /\ t \in {None, <<>>}
<1>1. chart.market \in ChartMarket /\ chart.range \in ChartRange /\ KeyOf(chart) \in ChartKey
  BY DEF ChartInv, IsChart, KeyOf, ChartKey
<1>2. PICK h, t : h = ActiveHistory(chart, historyCache) /\ t = ActiveTrades(chart, tradesCache)
  OBVIOUS
<1>3. h \in History \cup {None}
  <2>1. historyCache[KeyOf(chart)] \in HistoryAnswers \cup {None, Absent}
    BY <1>1 DEF ChartKnown
  <2>2. chart.seed \in PageHistories
    BY DEF ChartKnown
  <2> QED
    BY <1>2, <2>1, <2>2, ChartAssumption DEF ActiveHistory
<1>4. t \in Seq(Trade) \cup {None}
  BY <1>1, <1>2, ChartAssumption DEF ChartKnown, ActiveTrades
<1>5. PICK a, b : a = OutcomePoints(h, outcome) /\ b = TradePoints(t, outcome, chart.range)
  OBVIOUS
<1>6. p = a \/ p = b
  BY <1>2, <1>5 DEF PointsOf, PreferredPoints
<1>7. IsLine(a) /\ (a = <<>> => h = None \/ (h.mids = <<>> /\ h.points = <<>>))
  BY <1>3, <1>5, OutcomeLine
<1>8. IsLine(b) /\ (b = <<>> => t = None \/ t = <<>>)
  BY <1>1, <1>4, <1>5, TradeLine
<1>9. ASSUME p = <<>> PROVE a = <<>> /\ b = <<>>
  <2>1. p = IF Len(a) >= 2 \/ (Len(b) < 2 /\ a # <<>>) THEN a ELSE b
    BY <1>2, <1>5, Zenon DEF PointsOf, PreferredPoints
  <2>2. Len(<<>>) = 0
    OBVIOUS
  <2>4. ~(Len(a) >= 2 \/ (Len(b) < 2 /\ a # <<>>)) => p = b
    BY <2>1
  <2>5. (Len(a) >= 2 \/ (Len(b) < 2 /\ a # <<>>)) => p = a
    BY <2>1
  <2>6. Len(a) >= 2 => a # <<>>
    BY <2>2
  <2> QED
    BY <1>9, <2>2, <2>4, <2>5, <2>6
<1> QED
  BY <1>2, <1>6, <1>7, <1>8, <1>9

LEMMA ChartDraws == ChartInv /\ ChartKnown => ChartDrawsWhatIsKnown
<1> SUFFICES ASSUME ChartInv, ChartKnown PROVE ChartDrawsWhatIsKnown
  OBVIOUS
<1>1. chart.outcome \in Outcome /\ 1 - chart.outcome \in Outcome
  BY DEF ChartKnown, Outcome
<1>2. PICK p, q : p = PrimaryPoints /\ q = SecondaryPoints
  OBVIOUS
<1>3. PICK h, t : h = ActiveHistory(chart, historyCache) /\ t = ActiveTrades(chart, tradesCache)
  OBVIOUS
<1>4. IsLine(p) /\ (p = <<>> =>
         (h = None \/ (h.mids = <<>> /\ h.points = <<>>)) /\ t \in {None, <<>>})
  BY <1>1, <1>2, <1>3, DrawnOf DEF PrimaryPoints
<1>5. IsLine(q)
  <2>1. PICK o \in Outcome : o = 1 - chart.outcome
    BY <1>1
  <2>2. q = <<>> \/ q = PointsOf(chart, historyCache, tradesCache, o)
    BY <1>2, <2>1 DEF SecondaryPoints
  <2>3. IsLine(<<>>)
    BY DEF IsLine
  <2> QED
    BY <2>2, <2>3, DrawnOf
<1>6. PICK metrics : metrics = ChartMetrics
  OBVIOUS
<1>7. CASE p = <<>>
  BY <1>2, <1>3, <1>4, <1>7 DEF ChartDrawsWhatIsKnown, HasChart
<1>8. CASE p # <<>>
  <2>1. PICK visible : visible = p \o q
    OBVIOUS
  <2>2. metrics = [lines |-> {p, q}, from |-> visible[1].t, to |-> Last(visible).t]
    BY <1>2, <1>6, <1>8, <2>1 DEF ChartMetrics
  <2>3. metrics.lines = {p, q} /\ metrics.from = visible[1].t /\ metrics.to = Last(visible).t
    BY <2>2
  <2>4. ASSUME NEW l, IsLine(l)
        PROVE  /\ \A i \in DOMAIN l : l[i].price \in 0 .. Whole
               /\ \A i \in 1 .. Len(l) - 1 : l[i].t <= l[i + 1].t
    <3>1. PICK n \in Nat : n = Len(l) /\ DOMAIN l = 1 .. n
      BY <2>4 DEF IsLine
    <3>2. \A i \in 1 .. n : l[i] \in Drawn
      BY <2>4, <3>1 DEF IsLine
    <3>3. ASSUME NEW i \in 1 .. n - 1 PROVE l[i].t <= l[i + 1].t
      <4>1. PICK k \in 1 .. n : k = i + 1
        BY <3>1
      <4>2. i \in 1 .. n /\ i < k
        BY <3>1, <4>1
      <4> QED
        BY <2>4, <3>1, <4>1, <4>2 DEF IsLine
    <3> QED
      BY <3>1, <3>2, <3>3 DEF Drawn
  <2>5. ASSUME q = <<>>, NEW i \in DOMAIN p PROVE p[i].t \in metrics.from .. metrics.to
    <3>1. PICK n \in Nat : n = Len(p) /\ DOMAIN p = 1 .. n
      BY <1>4 DEF IsLine
    <3>2. visible = p
      BY <1>4, <2>1, <2>5, ConcatEmptySeq DEF IsLine
    <3>3. 1 \in 1 .. n /\ n \in 1 .. n
      BY <2>5, <3>1
    <3>4. \A k \in 1 .. n : p[k] \in Drawn
      BY <1>4, <3>1 DEF IsLine
    <3>5. metrics.from = p[1].t /\ metrics.to = p[n].t
      BY <2>3, <3>1, <3>2 DEF Last
    <3>6. p[1].t \in Int /\ p[i].t \in Int /\ p[n].t \in Int
      BY <2>5, <3>1, <3>3, <3>4 DEF Drawn
    <3>7. p[1].t <= p[i].t /\ p[i].t <= p[n].t
      BY <1>4, <2>5, <3>1, <3>3, <3>6 DEF IsLine
    <3> QED
      BY <3>5, <3>6, <3>7
  <2>6. \A l \in metrics.lines : IsLine(l)
    BY <1>4, <1>5, <2>3
  <2> QED
    BY <1>2, <1>6, <1>8, <2>4, <2>5, <2>6, Zenon DEF ChartDrawsWhatIsKnown, HasChart
<1> QED
  BY <1>7, <1>8

\* However markets, ranges and outcomes are switched while answers come, the panel
\* loads exactly while the history of what it shows is unknown (historyRequestVersion),
\* and draws all it knows in time order and within prices, whatever order and whatever
\* prices come (buildOutcomeChartPoints, buildOutcomeTradePoints, chartMetrics).
THEOREM ChartDrawsItsMarket == ChartSpec => []ChartIsOfItsMarket
<1>1. ChartInv /\ ChartKnown => ChartIsOfItsMarket
  <2>1. ChartInv => LoadingIsForWhatIsShown
    BY DEF ChartInv, LoadsWhatIsShown, LoadingIsForWhatIsShown
  <2> QED
    BY <2>1, ChartDraws DEF ChartIsOfItsMarket
<1> QED
  BY <1>1, ChartStarts, ChartStartsKnown, ChartMoves, ChartMovesKnown, PTL DEF ChartSpec

-----------------------------------------------------------------------------
(* Creating events and markets *)

EventRecord ==
    [id : Event \cup {None}, slug : Event \cup {None}, status : {"draft", "published", None}]

Instance ==
    [type : ModalType, step : Step, created : EventRecord,
     remembered : EventRecord \cup {None}, publishNow : BOOLEAN,
     drafts : Seq(SUBSET DraftFields), filter : Filter, list : SUBSET EventRecord,
     pending : SUBSET Task]

CallRecord ==
    [number : Nat, modal : Nat, task : Task, event : Event \cup {None} \cup Filter,
     publish : BOOLEAN]

CreationTyped ==
    /\ server \in [Event -> {"draft", "published", None}]
    /\ saved \in EventRecord \cup {None}
    /\ modals \in Seq(Instance)
    /\ calls \subseteq CallRecord
    /\ submitted \in Nat

\* Who waits for a call: an instance there is; and a call of a form is about an event.
CallsAreOfInstances ==
    \A call \in calls :
        /\ call.modal \in DOMAIN modals
        /\ call.task # "list" => call.event \in Event \cup {None}

\* A form's call disables its button, and it is the only one.
SubmittedIsPending ==
    /\ \A call \in calls : call.task # "list" => call.task \in modals[call.modal].pending
    /\ \A c, d \in calls : c.modal = d.modal /\ c.task = d.task /\ c.task # "list" => c = d

CreationInv == CreationTyped /\ CallsAreOfInstances /\ SubmittedIsPending

\* The two ways an instance comes to work on another event.
EventsKept ==
    \A i \in DOMAIN modals :
        /\ modals[i].created.id # None
        /\ modals'[i].created.id # modals[i].created.id
        => \E call \in calls \ calls' :
                /\ call.modal = i
                /\ call.task = "event"
                /\ server[modals'[i].created.id] = None

LEMMA CreationStarts == CreationInit => CreationInv
<1> SUFFICES ASSUME CreationInit PROVE CreationInv
  OBVIOUS
<1>1. CreationTyped
  <2>1. PICK e \in {None} \cup Event :
          /\ server = [x \in Event |-> IF x = e THEN "draft" ELSE None]
          /\ saved \in {None, [id |-> e, slug |-> e, status |-> "draft"]}
    BY DEF CreationInit
  <2> QED
    BY <2>1 DEF CreationInit, CreationTyped, EventRecord
<1> QED
  BY <1>1 DEF CreationInit, CreationInv, CallsAreOfInstances, SubmittedIsPending

\* One instance changes, and nothing is sent.
LEMMA InstanceChanges ==
    ASSUME CreationInv, NEW i \in DOMAIN modals, NEW new \in Instance,
           modals' = [modals EXCEPT ![i] = new], new.pending = modals[i].pending,
           new.created.id = modals[i].created.id \/ modals[i].created.id = None,
           saved' \in EventRecord \cup {None}, UNCHANGED <<server, calls, submitted>>
    PROVE  CreationInv' /\ EventsKept
<1>1. /\ modals' \in Seq(Instance) /\ DOMAIN modals' = DOMAIN modals
      /\ modals'[i] = new
      /\ \A j \in DOMAIN modals : j # i => modals'[j] = modals[j]
  BY DEF CreationInv, CreationTyped
<1>2. CreationTyped'
  BY <1>1 DEF CreationInv, CreationTyped
<1>3. CallsAreOfInstances'
  BY <1>1 DEF CreationInv, CallsAreOfInstances
<1>4. SubmittedIsPending'
  BY <1>1 DEF CreationInv, SubmittedIsPending, CallsAreOfInstances
<1>5. EventsKept
  BY <1>1 DEF EventsKept
<1> QED
  BY <1>2, <1>3, <1>4, <1>5 DEF CreationInv

\* A form is sent by an instance in which its task is idle; a list whenever.
LEMMA InstanceSends ==
    ASSUME CreationInv, NEW i \in DOMAIN modals, NEW modal \in Instance,
           modal.pending = modals[i].pending, modal.created = modals[i].created,
           NEW task \in Task, NEW event \in Event \cup {None} \cup Filter,
           NEW publish \in BOOLEAN,
           Submit(i, modal, task, event, publish), saved' = saved,
           task # "list" => Idle(i, task) /\ event \in Event \cup {None}
    PROVE  CreationInv' /\ EventsKept
<1>1. PICK call : call = CreationCall(i, task, event, publish)
  OBVIOUS
<1>2. /\ call \in CallRecord /\ call.modal = i /\ call.task = task /\ call.event = event
  BY <1>1 DEF CreationCall, CallRecord, CreationInv, CreationTyped
<1>3. PICK new : new = Run(modal, task)
  OBVIOUS
<1>4. /\ new \in Instance /\ new.pending = modals[i].pending \cup {task}
      /\ new.created = modals[i].created
  BY <1>3 DEF Run, Instance
<1>5. /\ modals' = [modals EXCEPT ![i] = new] /\ calls' = calls \cup {call}
      /\ submitted' = submitted + 1 /\ server' = server
  BY <1>1, <1>3 DEF Submit
<1>6. /\ modals' \in Seq(Instance) /\ DOMAIN modals' = DOMAIN modals
      /\ modals'[i] = new
      /\ \A j \in DOMAIN modals : j # i => modals'[j] = modals[j]
  BY <1>4, <1>5 DEF CreationInv, CreationTyped
<1>7. CreationTyped'
  BY <1>2, <1>5, <1>6 DEF CreationInv, CreationTyped
<1>8. CallsAreOfInstances'
  BY <1>2, <1>5, <1>6 DEF CreationInv, CallsAreOfInstances
<1>9. task # "list" => \A c \in calls : ~(c.modal = i /\ c.task = task)
  BY DEF CreationInv, SubmittedIsPending, Idle
<1>10. \A c \in calls' : c.task # "list" => c.task \in modals'[c.modal].pending
  BY <1>2, <1>4, <1>5, <1>6 DEF CreationInv, SubmittedIsPending, CallsAreOfInstances
<1>11. \A c, d \in calls' : c.modal = d.modal /\ c.task = d.task /\ c.task # "list" => c = d
  BY <1>2, <1>5, <1>9 DEF CreationInv, SubmittedIsPending
<1>12. EventsKept
  BY <1>4, <1>6 DEF EventsKept
<1> QED
  BY <1>7, <1>8, <1>10, <1>11, <1>12 DEF CreationInv, SubmittedIsPending

\* A call ends: its task is no longer pending.
LEMMA InstanceHears ==
    ASSUME CreationInv, NEW call \in calls, calls' = calls \ {call}, NEW new \in Instance,
           modals' = [modals EXCEPT ![call.modal] = new],
           new.pending = modals[call.modal].pending \ {call.task},
           \/ new.created.id = modals[call.modal].created.id
           \/ call.task = "event" /\ server[new.created.id] = None,
           saved' \in EventRecord \cup {None},
           server' \in [Event -> {"draft", "published", None}], submitted' = submitted
    PROVE  CreationInv' /\ EventsKept
<1>0. call.modal \in DOMAIN modals
  BY DEF CreationInv, CallsAreOfInstances
<1>1. /\ modals' \in Seq(Instance) /\ DOMAIN modals' = DOMAIN modals
      /\ modals'[call.modal] = new
      /\ \A j \in DOMAIN modals : j # call.modal => modals'[j] = modals[j]
  BY <1>0 DEF CreationInv, CreationTyped
<1>2. CreationTyped'
  BY <1>1 DEF CreationInv, CreationTyped
<1>3. CallsAreOfInstances'
  BY <1>1 DEF CreationInv, CallsAreOfInstances
<1>4. \A c \in calls' : c.task # "list" => c.task \in modals'[c.modal].pending
  BY <1>1 DEF CreationInv, SubmittedIsPending, CallsAreOfInstances
<1>5. \A c, d \in calls' : c.modal = d.modal /\ c.task = d.task /\ c.task # "list" => c = d
  BY DEF CreationInv, SubmittedIsPending
<1>6. EventsKept
  BY <1>0, <1>1 DEF EventsKept
<1> QED
  BY <1>2, <1>3, <1>4, <1>5, <1>6 DEF CreationInv, SubmittedIsPending

LEMMA RememberOf ==
    ASSUME NEW modal \in Instance, NEW event \in EventRecord
    PROVE  LET r == Remember(modal, event) IN
           /\ r \in Instance /\ r.pending = modal.pending /\ r.created = modal.created
BY DEF Remember, Instance

LEMMA ResumeOf ==
    ASSUME NEW modal \in Instance, NEW event \in EventRecord
    PROVE  LET r == Resume(modal, event) IN
           /\ r \in Instance /\ r.pending = modal.pending /\ r.created = event
<1>1. PICK m : m = [modal EXCEPT !.created = event, !.step = "manual_markets"]
  OBVIOUS
<1>2. m \in Instance /\ m.pending = modal.pending /\ m.created = event
  BY <1>1 DEF Instance, Step
<1> QED
  BY <1>1, <1>2, RememberOf DEF Resume

LEMMA SavingOf ==
    ASSUME CreationInv, NEW event \in EventRecord
    PROVE  Saving(event) \in EventRecord \cup {None}
BY DEF Saving, CreationInv, CreationTyped

LEMMA AfterCreationOf ==
    ASSUME NEW modal \in Instance
    PROVE  LET r == AfterCreation(modal) IN
           /\ r \in Instance /\ r.pending = modal.pending /\ r.created = modal.created
BY DEF AfterCreation, Instance, Step

LEMMA PublishedOf ==
    ASSUME NEW modal \in Instance, NEW call, call.event \in Event \cup {None}
    PROVE  LET r == CreatedEventIsPublished(modal, call) IN
           /\ r \in Instance /\ r.pending = modal.pending
           /\ r.created.id = modal.created.id
<1>1. PICK event : event = [id |-> modal.created.id, slug |-> call.event, status |-> "published"]
  OBVIOUS
<1>2. event \in EventRecord /\ event.id = modal.created.id
  BY <1>1 DEF EventRecord, Instance
<1>3. PICK m : m = [modal EXCEPT !.created = event]
  OBVIOUS
<1>4. m \in Instance /\ m.pending = modal.pending /\ m.created = event
  BY <1>2, <1>3 DEF Instance
<1> QED
  BY <1>1, <1>2, <1>3, <1>4, RememberOf DEF CreatedEventIsPublished

LEMMA TaskEndedOf ==
    ASSUME CreationInv, NEW call \in calls
    PROVE  /\ TaskEnded(call) \in Instance
           /\ TaskEnded(call).pending = modals[call.modal].pending \ {call.task}
           /\ TaskEnded(call).created = modals[call.modal].created
<1>1. modals[call.modal] \in Instance
  BY DEF CreationInv, CreationTyped, CallsAreOfInstances
<1> QED
  BY <1>1 DEF TaskEnded, Instance

\* The drawer and the closing of a modal.
LEMMA CreationQuiet ==
    ASSUME CreationInv, UNCHANGED <<server, saved, modals, calls, submitted>>
    PROVE  CreationInv' /\ EventsKept
BY DEF CreationInv, CreationTyped, CallsAreOfInstances, SubmittedIsPending, EventsKept

\* A modal is mounted, with or without an event, and the list it asks for is read.
LEMMA InstanceOpens ==
    ASSUME CreationInv, NEW new \in Instance, modals' = Append(modals, new),
           saved' \in EventRecord \cup {None}, server' = server,
           \/ UNCHANGED <<calls, submitted>>
           \/ /\ calls' = calls \cup {CreationCall(Len(modals) + 1, "list", "draft", FALSE)}
              /\ submitted' = submitted + 1
    PROVE  CreationInv' /\ EventsKept
<1>0. PICK n : n = Len(modals) + 1
  OBVIOUS
<1>1. /\ modals' \in Seq(Instance) /\ DOMAIN modals = 1 .. Len(modals) /\ Len(modals) \in Nat
      /\ DOMAIN modals' = 1 .. n /\ modals'[n] = new /\ n \in Nat
      /\ \A j \in DOMAIN modals : modals'[j] = modals[j] /\ j \in DOMAIN modals'
  BY <1>0 DEF CreationInv, CreationTyped
<1>2. PICK call : call = CreationCall(n, "list", "draft", FALSE)
  OBVIOUS
<1>3. call \in CallRecord /\ call.modal = n /\ call.task = "list"
  BY <1>1, <1>2 DEF CreationCall, CallRecord, CreationInv, CreationTyped, Task, Filter
<1>4. calls' = calls \/ calls' = calls \cup {call}
  BY <1>0, <1>2
<1>5. CreationTyped'
  <2>1. submitted' \in Nat
    <3>1. submitted \in Nat
      BY DEF CreationInv, CreationTyped
    <3>2. submitted' = submitted \/ submitted' = submitted + 1
      OBVIOUS
    <3> QED
      BY <3>1, <3>2
  <2>2. calls' \subseteq CallRecord
    BY <1>3, <1>4 DEF CreationInv, CreationTyped
  <2> QED
    BY <1>1, <2>1, <2>2 DEF CreationInv, CreationTyped
<1>6. CallsAreOfInstances'
  BY <1>0, <1>1, <1>3, <1>4 DEF CreationInv, CallsAreOfInstances
<1>7. \A c \in calls' : c.task # "list" => c \in calls /\ c.modal \in DOMAIN modals
  BY <1>3, <1>4 DEF CreationInv, CallsAreOfInstances
<1>8. SubmittedIsPending'
  BY <1>1, <1>7 DEF CreationInv, SubmittedIsPending
<1>9. EventsKept
  BY <1>1 DEF EventsKept
<1> QED
  BY <1>5, <1>6, <1>8, <1>9 DEF CreationInv

LEMMA NewModalOf ==
    ASSUME NEW type \in ModalType
    PROVE  NewModal(type) \in Instance
<1>1. NewDrafts \in Seq(SUBSET DraftFields)
  BY DEF NewDrafts
<1> QED
  BY <1>1 DEF NewModal, Instance, NoEvent, EventRecord, Step, Filter

LEMMA OpenModalMoves ==
    ASSUME CreationInv, NEW type \in ModalType, NEW initial \in {None} \cup Event,
           OpenModal(type, initial)
    PROVE  CreationInv' /\ EventsKept
<1>1. NewModal(type) \in Instance
  BY NewModalOf
<1>2. PICK mounted : mounted = [NewModal(type) EXCEPT !.remembered = saved]
  OBVIOUS
<1>3. mounted \in Instance
  BY <1>1, <1>2 DEF Instance, CreationInv, CreationTyped
<1>4. PICK event : event = [id |-> initial, slug |-> initial, status |-> server[initial]]
  OBVIOUS
<1>5. initial # None => event \in EventRecord
  BY <1>4 DEF EventRecord, CreationInv, CreationTyped
<1>6. PICK resumed : resumed = IF initial = None THEN mounted ELSE Resume(mounted, event)
  OBVIOUS
<1>7. resumed \in Instance /\ resumed.created \in EventRecord
  BY <1>3, <1>5, <1>6, ResumeOf DEF Instance
<1>8. CASE type = "multi_market_event"
  <2>1. /\ calls' = calls \cup {CreationCall(Len(modals) + 1, "list", "draft", FALSE)}
        /\ submitted' = submitted + 1
        /\ modals' = Append(modals, Run(resumed, "list"))
        /\ saved' = Saving(resumed.created)
        /\ server' = server
    BY <1>2, <1>4, <1>6, <1>8 DEF OpenModal
  <2>2. Run(resumed, "list") \in Instance
    BY <1>7 DEF Run, Instance, Task
  <2> QED
    BY <1>7, <2>1, <2>2, SavingOf, InstanceOpens
<1>9. CASE type # "multi_market_event"
  <2>1. modals' = Append(modals, NewModal(type)) /\ UNCHANGED <<saved, calls, submitted, server>>
    BY <1>9 DEF OpenModal
  <2>2. saved' \in EventRecord \cup {None}
    BY <2>1 DEF CreationInv, CreationTyped
  <2> QED
    BY <1>1, <2>1, <2>2, InstanceOpens
<1> QED
  BY <1>8, <1>9

\* What the admin does in an instance that sends nothing.
LEMMA InstanceWorks ==
    ASSUME CreationInv, NEW i \in DOMAIN modals,
           \/ ClearRemembered(i) \/ ResumeEvent(i)
           \/ \E step \in Step : GoToStep(i, step)
           \/ AddDraft(i)
           \/ \E n \in DOMAIN modals[i].drafts : RemoveDraft(i, n)
           \/ \E n \in DOMAIN modals[i].drafts : FillDraft(i, n, DraftFields)
           \/ TogglePublishNow(i)
    PROVE  CreationInv' /\ EventsKept
<1>1. modals[i] \in Instance /\ modals \in Seq(Instance) /\ saved \in EventRecord \cup {None}
  BY DEF CreationInv, CreationTyped
<1>2. CASE ClearRemembered(i)
  <2>1. PICK new : new = [modals[i] EXCEPT !.remembered = None]
    OBVIOUS
  <2>2. new \in Instance /\ new.pending = modals[i].pending /\ new.created = modals[i].created
    BY <1>1, <2>1 DEF Instance
  <2>3. modals' = [modals EXCEPT ![i] = new]
    BY <1>2, <2>1 DEF ClearRemembered
  <2> QED
    BY <1>2, <2>2, <2>3, InstanceChanges DEF ClearRemembered
<1>3. CASE ResumeEvent(i)
  <2>1. PICK event \in modals[i].list \cup ({modals[i].remembered} \ {None}) :
          /\ modals' = [modals EXCEPT ![i] = Resume(@, event)]
          /\ saved' = event
    BY <1>3 DEF ResumeEvent
  <2>2. event \in EventRecord
    BY <1>1, <2>1 DEF Instance
  <2>3. modals' = [modals EXCEPT ![i] = Resume(modals[i], event)]
    BY <2>1
  <2>4. modals[i].created.id = None
    BY <1>3 DEF ResumeEvent, Recovers
  <2>5. PICK new : new = Resume(modals[i], event)
    OBVIOUS
  <2>6. new \in Instance /\ new.pending = modals[i].pending
    BY <1>1, <2>2, <2>5, ResumeOf
  <2>7. UNCHANGED <<server, calls, submitted>> /\ saved' \in EventRecord \cup {None}
    BY <1>3, <2>1, <2>2 DEF ResumeEvent
  <2> QED
    BY <2>3, <2>4, <2>5, <2>6, <2>7, InstanceChanges
<1>4. ASSUME NEW step \in Step, GoToStep(i, step) PROVE CreationInv' /\ EventsKept
  <2>1. PICK new : new = [modals[i] EXCEPT !.step = step]
    OBVIOUS
  <2>2. new \in Instance /\ new.pending = modals[i].pending /\ new.created = modals[i].created
    BY <1>1, <2>1 DEF Instance
  <2>3. modals' = [modals EXCEPT ![i] = new]
    BY <1>4, <2>1 DEF GoToStep
  <2> QED
    BY <1>1, <1>4, <2>2, <2>3, InstanceChanges DEF GoToStep
<1>5. ASSUME NEW drafts \in Seq(SUBSET DraftFields), DraftsBecome(i, drafts)
      PROVE  CreationInv' /\ EventsKept
  <2>1. PICK new : new = [modals[i] EXCEPT !.drafts = drafts]
    OBVIOUS
  <2>2. new \in Instance /\ new.pending = modals[i].pending /\ new.created = modals[i].created
    BY <1>1, <2>1 DEF Instance
  <2>3. modals' = [modals EXCEPT ![i] = new]
    BY <1>5, <2>1 DEF DraftsBecome
  <2> QED
    BY <1>1, <1>5, <2>2, <2>3, InstanceChanges DEF DraftsBecome
<1>6. modals[i].drafts \in Seq(SUBSET DraftFields)
  BY <1>1 DEF Instance
<1>7. CASE AddDraft(i)
  <2>1. Append(modals[i].drafts, {}) \in Seq(SUBSET DraftFields)
    BY <1>6
  <2> QED
    BY <1>5, <1>7, <2>1 DEF AddDraft
<1>8. ASSUME NEW n \in DOMAIN modals[i].drafts, RemoveDraft(i, n)
      PROVE  CreationInv' /\ EventsKept
  <2>1. /\ SubSeq(modals[i].drafts, 1, n - 1) \in Seq(SUBSET DraftFields)
        /\ SubSeq(modals[i].drafts, n + 1, Len(modals[i].drafts)) \in Seq(SUBSET DraftFields)
    BY <1>6, SubSeqProperties
  <2>2. RemoveAt(modals[i].drafts, n) \in Seq(SUBSET DraftFields)
    BY <2>1, ConcatProperties DEF RemoveAt
  <2> QED
    BY <1>5, <1>8, <2>2 DEF RemoveDraft
<1>9. ASSUME NEW n \in DOMAIN modals[i].drafts, FillDraft(i, n, DraftFields)
      PROVE  CreationInv' /\ EventsKept
  <2>1. [modals[i].drafts EXCEPT ![n] = DraftFields] \in Seq(SUBSET DraftFields)
    BY <1>6
  <2> QED
    BY <1>5, <1>9, <2>1 DEF FillDraft
<1>10. CASE TogglePublishNow(i)
  <2>1. PICK new : new = [modals[i] EXCEPT !.publishNow = ~modals[i].publishNow]
    OBVIOUS
  <2>2. new \in Instance /\ new.pending = modals[i].pending /\ new.created = modals[i].created
    BY <1>1, <2>1 DEF Instance
  <2>3. modals' = [modals EXCEPT ![i] = new]
    BY <1>10, <2>1 DEF TogglePublishNow
  <2> QED
    BY <1>1, <1>10, <2>2, <2>3, InstanceChanges DEF TogglePublishNow
<1> QED
  BY <1>2, <1>3, <1>4, <1>7, <1>8, <1>9, <1>10

\* What the admin sends.
LEMMA FormSent ==
    ASSUME CreationInv, NEW i \in DOMAIN modals,
           \/ \E filter \in Filter : ChooseFilter(i, filter)
           \/ RefreshList(i)
           \/ \E form : SubmitMarket(i, form)
           \/ \E form : \E publish \in BOOLEAN : SubmitEvent(i, form, publish)
           \/ SubmitChildren(i)
           \/ \E form : \E event \in Event, publish \in BOOLEAN :
                 SubmitLadder(i, form, event, publish)
           \/ SubmitPublishEvent(i)
           \/ SubmitPublishChildren(i)
    PROVE  CreationInv' /\ EventsKept
<1>1. /\ modals[i] \in Instance /\ modals[i].filter \in Filter
      /\ modals[i].created.id \in Event \cup {None} /\ modals[i].publishNow \in BOOLEAN
  <2>1. modals[i] \in Instance
    BY DEF CreationInv, CreationTyped
  <2>2. modals[i].created \in EventRecord
    BY <2>1 DEF Instance
  <2> QED
    BY <2>1, <2>2 DEF Instance, EventRecord
<1>2. ASSUME NEW filter \in Filter, ChooseFilter(i, filter) PROVE CreationInv' /\ EventsKept
  <2>1. PICK modal : modal = [modals[i] EXCEPT !.filter = filter]
    OBVIOUS
  <2>2. /\ modal \in Instance /\ modal.pending = modals[i].pending
        /\ modal.created = modals[i].created
    BY <1>1, <2>1 DEF Instance
  <2> QED
    BY <1>2, <2>1, <2>2, InstanceSends DEF ChooseFilter, Task
<1>3. CASE RefreshList(i)
  BY <1>1, <1>3, InstanceSends DEF RefreshList, Task
<1>4. ASSUME NEW form, SubmitMarket(i, form) PROVE CreationInv' /\ EventsKept
  BY <1>1, <1>4, InstanceSends DEF SubmitMarket, Task
<1>5. ASSUME NEW form, NEW publish \in BOOLEAN, SubmitEvent(i, form, publish)
      PROVE  CreationInv' /\ EventsKept
  BY <1>1, <1>5, InstanceSends DEF SubmitEvent, Task
<1>6. CASE SubmitChildren(i)
  BY <1>1, <1>6, InstanceSends DEF SubmitChildren, Task
<1>7. ASSUME NEW form, NEW event \in Event, NEW publish \in BOOLEAN,
             SubmitLadder(i, form, event, publish)
      PROVE  CreationInv' /\ EventsKept
  BY <1>1, <1>7, InstanceSends DEF SubmitLadder, Task
<1>8. CASE SubmitPublishEvent(i)
  BY <1>1, <1>8, InstanceSends DEF SubmitPublishEvent, Task
<1>9. CASE SubmitPublishChildren(i)
  BY <1>1, <1>9, InstanceSends DEF SubmitPublishChildren, Task
<1> QED
  BY <1>2, <1>3, <1>4, <1>5, <1>6, <1>7, <1>8, <1>9

\* What the admin hears.
LEMMA AnswerHeard ==
    ASSUME CreationInv, NEW call \in calls,
           \/ CallFails(call) \/ ListRead(call) \/ MarketCreated(call)
           \/ \E e \in Event : EventCreated(call, e)
           \/ ChildrenCreated(call) \/ LadderCreated(call)
           \/ CreatedEventPublished(call) \/ ChildrenPublished(call)
    PROVE  CreationInv' /\ EventsKept
<1>0. PICK ended : ended = TaskEnded(call)
  OBVIOUS
<1>1. /\ ended \in Instance
      /\ ended.pending = modals[call.modal].pending \ {call.task}
      /\ ended.created = modals[call.modal].created
      /\ ended.created \in EventRecord
  BY <1>0, TaskEndedOf DEF Instance
<1>2. /\ server \in [Event -> {"draft", "published", None}]
      /\ saved \in EventRecord \cup {None}
      /\ call.task # "list" => call.event \in Event \cup {None}
  BY DEF CreationInv, CreationTyped, CallsAreOfInstances
<1>3. CASE CallFails(call) \/ MarketCreated(call)
  <2>1. /\ modals' = [modals EXCEPT ![call.modal] = ended] /\ calls' = calls \ {call}
        /\ UNCHANGED <<server, saved, submitted>>
    BY <1>0, <1>3 DEF CallFails, MarketCreated, Answer
  <2> QED
    BY <1>1, <1>2, <2>1, InstanceHears
<1>4. CASE ListRead(call)
  <2>1. PICK listed \in SUBSET Event :
          /\ calls' = calls \ {call} /\ UNCHANGED <<server, saved, submitted>>
          /\ modals' = [modals EXCEPT ![call.modal] = [TaskEnded(call) EXCEPT
                 !.list = {[id |-> e, slug |-> e, status |-> server[e]] : e \in listed}]]
    BY <1>4 DEF ListRead, Answer
  <2>2. PICK list : list = {[id |-> e, slug |-> e, status |-> server[e]] : e \in listed}
    OBVIOUS
  <2>3. list \in SUBSET EventRecord
    BY <1>2, <2>1, <2>2 DEF EventRecord
  <2>4. PICK new : new = [ended EXCEPT !.list = list]
    OBVIOUS
  <2>5. new \in Instance /\ new.pending = ended.pending /\ new.created = ended.created
    BY <1>1, <2>3, <2>4 DEF Instance
  <2>6. modals' = [modals EXCEPT ![call.modal] = new]
    BY <1>0, <2>1, <2>2, <2>4
  <2> QED
    BY <1>1, <1>2, <2>1, <2>5, <2>6, InstanceHears
<1>5. ASSUME NEW e \in Event, EventCreated(call, e) PROVE CreationInv' /\ EventsKept
  <2>1. PICK event : event = [id |-> e, slug |-> e,
                              status |-> IF call.publish THEN "published" ELSE "draft"]
    OBVIOUS
  <2>2. event \in EventRecord /\ event.id = e /\ event.status \in {"draft", "published"}
    BY <2>1 DEF EventRecord
  <2>3. /\ modals' = [modals EXCEPT ![call.modal] = Resume(ended, event)]
        /\ calls' = calls \ {call} /\ call.task = "event" /\ submitted' = submitted
        /\ server[e] = None /\ server' = [server EXCEPT ![e] = event.status]
        /\ saved' = event
    BY <1>0, <1>5, <2>1 DEF EventCreated, Answer
  <2>4. server' \in [Event -> {"draft", "published", None}]
    BY <1>2, <2>2, <2>3
  <2> QED
    BY <1>1, <2>2, <2>3, <2>4, ResumeOf, InstanceHears
<1>6. ASSUME call.task # "list"
      PROVE  LET event == [id |-> call.event, slug |-> call.event,
                           status |-> modals[call.modal].created.status]
                 after == Remember(ended, event)
             IN  /\ event \in EventRecord /\ after \in Instance
                 /\ after.pending = ended.pending /\ after.created = ended.created
  <2>1. PICK event : event = [id |-> call.event, slug |-> call.event,
                              status |-> modals[call.modal].created.status]
    OBVIOUS
  <2>2. event \in EventRecord
    BY <1>1, <1>2, <1>6, <2>1 DEF EventRecord
  <2> QED
    BY <1>1, <2>1, <2>2, RememberOf
<1>7. CASE ChildrenCreated(call)
  <2>1. PICK event, remembered :
          /\ event = [id |-> call.event, slug |-> call.event,
                      status |-> modals[call.modal].created.status]
          /\ remembered = Remember(ended, event)
    OBVIOUS
  <2>2. call.task # "list"
    BY <1>7 DEF ChildrenCreated, Answer
  <2>3. /\ event \in EventRecord /\ remembered \in Instance
        /\ remembered.pending = ended.pending /\ remembered.created = ended.created
    BY <1>6, <2>1, <2>2
  <2>4. PICK after : after = [remembered EXCEPT !.drafts = NewDrafts]
    OBVIOUS
  <2>5. NewDrafts \in Seq(SUBSET DraftFields)
    BY DEF NewDrafts
  <2>6. after \in Instance /\ after.pending = ended.pending /\ after.created = ended.created
    BY <2>3, <2>4, <2>5 DEF Instance
  <2>7. PICK new : new = IF after.publishNow THEN after ELSE AfterCreation(after)
    OBVIOUS
  <2>8. new \in Instance /\ new.pending = ended.pending /\ new.created = ended.created
    BY <2>6, <2>7, AfterCreationOf
  <2>9. /\ modals' = [modals EXCEPT ![call.modal] = new] /\ calls' = calls \ {call}
        /\ saved' = Saving(event) /\ UNCHANGED <<server, submitted>>
    BY <1>0, <1>7, <2>1, <2>4, <2>7 DEF ChildrenCreated, Answer
  <2> QED
    BY <1>1, <1>2, <2>3, <2>8, <2>9, SavingOf, InstanceHears
<1>8. CASE LadderCreated(call)
  <2>1. PICK event, after :
          /\ event = [id |-> call.event, slug |-> call.event,
                      status |-> modals[call.modal].created.status]
          /\ after = Remember(ended, event)
    OBVIOUS
  <2>2. call.task # "list"
    BY <1>8 DEF LadderCreated, Answer
  <2>3. /\ event \in EventRecord /\ after \in Instance
        /\ after.pending = ended.pending /\ after.created = ended.created
    BY <1>6, <2>1, <2>2
  <2>4. PICK new : new = IF after.type = "multi_market_event" /\ ~call.publish
                         THEN AfterCreation(after) ELSE after
    OBVIOUS
  <2>5. new \in Instance /\ new.pending = ended.pending /\ new.created = ended.created
    BY <2>3, <2>4, AfterCreationOf
  <2>6. /\ modals' = [modals EXCEPT ![call.modal] = new] /\ calls' = calls \ {call}
        /\ saved' = Saving(event) /\ UNCHANGED <<server, submitted>>
    BY <1>0, <1>8, <2>1, <2>4 DEF LadderCreated, Answer
  <2> QED
    BY <1>1, <1>2, <2>3, <2>5, <2>6, SavingOf, InstanceHears
<1>9. CASE CreatedEventPublished(call) \/ ChildrenPublished(call)
  <2>1. call.event \in Event \cup {None}
    BY <1>2, <1>9 DEF CreatedEventPublished, ChildrenPublished, Answer
  <2>2. PICK after : after = CreatedEventIsPublished(ended, call)
    OBVIOUS
  <2>3. /\ after \in Instance /\ after.pending = ended.pending
        /\ after.created.id = ended.created.id /\ after.created \in EventRecord
    BY <1>1, <2>1, <2>2, PublishedOf DEF Instance
  <2>4. saved' = Saving(after.created) /\ calls' = calls \ {call} /\ submitted' = submitted
    BY <1>0, <1>9, <2>2 DEF CreatedEventPublished, ChildrenPublished, Answer
  <2>5. server' \in [Event -> {"draft", "published", None}]
    BY <1>2, <1>9 DEF CreatedEventPublished, ChildrenPublished
  <2>6. PICK new : new = [after EXCEPT !.step = "publish_markets"]
    OBVIOUS
  <2>7. new \in Instance /\ new.pending = after.pending /\ new.created = after.created
    BY <2>3, <2>6 DEF Instance, Step
  <2>8. \/ modals' = [modals EXCEPT ![call.modal] = new]
        \/ modals' = [modals EXCEPT ![call.modal] = after]
    BY <1>0, <1>9, <2>2, <2>6 DEF CreatedEventPublished, ChildrenPublished
  <2> QED
    BY <1>1, <2>3, <2>4, <2>5, <2>7, <2>8, SavingOf, InstanceHears
<1> QED
  BY <1>3, <1>4, <1>5, <1>7, <1>8, <1>9

LEMMA CreationMoves ==
    CreationInv /\ [CreationNext]_creationVars => CreationInv' /\ EventsKept
<1> SUFFICES ASSUME CreationInv, [CreationNext]_creationVars PROVE CreationInv' /\ EventsKept
  OBVIOUS
<1>1. CASE \/ OpenDrawer \/ TurnDrawer \/ CloseDrawer \/ CloseModal \/ UNCHANGED creationVars
  BY <1>1, CreationQuiet DEF OpenDrawer, TurnDrawer, CloseDrawer, CloseModal, DrawerBecomes,
                             creationVars
<1>2. CASE CreationAdmin
  <2>1. CASE \E type \in ModalType, initial \in {None} \cup Event :
                /\ initial # None => server[initial] # None
                /\ OpenModal(type, initial)
    BY <2>1, OpenModalMoves
  <2>2. CASE CloseModal
    BY <1>1, <2>2
  <2>3. ASSUME NEW i \in DOMAIN modals,
               \/ \E filter \in Filter : ChooseFilter(i, filter)
               \/ RefreshList(i)
               \/ \E form \in Forms(MarketFields) : SubmitMarket(i, form)
               \/ \E form \in Forms(EventFields), publish \in BOOLEAN :
                     SubmitEvent(i, form, publish)
               \/ SubmitChildren(i)
               \/ \E form \in Forms(LadderFields \cup Thresholds), event \in Event,
                     publish \in BOOLEAN : SubmitLadder(i, form, event, publish)
               \/ SubmitPublishEvent(i)
               \/ SubmitPublishChildren(i)
        PROVE  CreationInv' /\ EventsKept
    <3>1. \/ \E filter \in Filter : ChooseFilter(i, filter)
          \/ RefreshList(i)
          \/ \E form : SubmitMarket(i, form)
          \/ \E form : \E publish \in BOOLEAN : SubmitEvent(i, form, publish)
          \/ SubmitChildren(i)
          \/ \E form : \E event \in Event, publish \in BOOLEAN :
                SubmitLadder(i, form, event, publish)
          \/ SubmitPublishEvent(i)
          \/ SubmitPublishChildren(i)
      BY <2>3
    <3> QED
      BY <3>1, FormSent
  <2>4. ASSUME NEW i \in DOMAIN modals,
               \/ ClearRemembered(i) \/ ResumeEvent(i)
               \/ \E step \in Step : GoToStep(i, step)
               \/ AddDraft(i)
               \/ \E n \in DOMAIN modals[i].drafts :
                     \/ RemoveDraft(i, n)
                     \/ \E fields \in {DraftFields} : FillDraft(i, n, fields)
               \/ TogglePublishNow(i)
        PROVE  CreationInv' /\ EventsKept
    <3>1. \A n \in DOMAIN modals[i].drafts :
            (\E fields \in {DraftFields} : FillDraft(i, n, fields)) => FillDraft(i, n, DraftFields)
      OBVIOUS
    <3> QED
      BY <2>4, <3>1, InstanceWorks
  <2> QED
    BY <1>2, <2>1, <2>2, <2>3, <2>4 DEF CreationAdmin
<1>3. CASE CreationAnswer
  BY <1>3, AnswerHeard DEF CreationAnswer
<1> QED
  BY <1>1, <1>2, <1>3 DEF CreationNext

LEMMA CreationAlways == CreationSpec => []CreationInv
<1>1. CreationInv /\ [CreationNext]_creationVars => CreationInv'
  BY CreationMoves
<1> QED
  BY <1>1, CreationStarts, PTL DEF CreationSpec

LEMMA CreationOnce == CreationInv => OneSubmissionAtATime
<1> SUFFICES ASSUME CreationInv, NEW task \in Task \ {"list"}, NEW i \in DOMAIN modals
             PROVE  Cardinality({call \in calls : call.modal = i /\ call.task = task}) <= 1
  BY DEF OneSubmissionAtATime
<1> DEFINE out == {call \in calls : call.modal = i /\ call.task = task}
<1>1. out = {} \/ \E call : out = {call}
  BY DEF CreationInv, SubmittedIsPending
<1>2. CASE out = {}
  BY <1>2, FS_EmptySet
<1>3. ASSUME NEW call, out = {call} PROVE Cardinality(out) <= 1
  <2>1. Cardinality({call}) = 1
    BY FS_Singleton
  <2> QED
    BY <1>3, <2>1
<1> QED
  BY <1>1, <1>2, <1>3

\* Of one modal instance at most one form is on its way, whatever is opened,
\* closed and answered meanwhile (pending disables the submit buttons).
THEOREM SubmissionsOneByOne == CreationSpec => []OneSubmissionAtATime
BY CreationAlways, CreationOnce, PTL

\* An instance that has created its event goes on with that event: no answer to
\* another instance, or to an earlier form, gives it another.
THEOREM InstancesKeepTheirEvent == CreationSpec => KeepsItsEvent
<1>1. CreationInv /\ [CreationNext]_creationVars => [EventsKept]_creationVars
  BY CreationMoves
<1>2. CreationSpec => [][EventsKept]_creationVars
  BY <1>1, CreationAlways, PTL DEF CreationSpec
<1> QED
  BY <1>2, PTL DEF KeepsItsEvent, EventsKept

-----------------------------------------------------------------------------
(* The home feed *)

Card == ToSet(Published) \cup Upcoming

FeedType == [events : Seq(Card), next : Nat, more : BOOLEAN, fallback : BOOLEAN]

\* No two places of s have the same event.
NoneTwice(s) == \A i, j \in DOMAIN s : s[i] = s[j] => i = j

\* A feed of which, with ps published, no event published at first is missing.
WholeSoFar(f, ps) ==
    /\ f \in FeedType /\ NoneTwice(f.events)
    /\ f.fallback => ~f.more
    /\ ~f.fallback => \A k \in DOMAIN ps :
          k <= f.next /\ ps[k] \in ToSet(Published) => ps[k] \in ToSet(f.events)

HomeType ==
    [open : BOOLEAN, status : {"loading", "ready", "error"}, feed : FeedType,
     loadingMore : FeedType \cup {None}, moreFailed : BOOLEAN]

WaiterType == [home : Nat, background : BOOLEAN]

DrainType == [feed : FeedType, follower : Nat, waiting : SUBSET Nat]

\* An event published at first has been pushed on by no more than were added.
PublishedKept ==
    /\ published \in Seq(Card) /\ NoneTwice(published)
    /\ Len(published) >= Len(Published)
    /\ \A j \in DOMAIN Published : \E k \in DOMAIN published :
          published[k] = Published[j] /\ k <= j + (Len(published) - Len(Published))

HomesKept ==
    /\ homes \in Seq(HomeType)
    /\ \A i \in DOMAIN homes : WholeSoFar(homes[i].feed, published)
    /\ \A i \in DOMAIN homes : homes[i].loadingMore # None =>
          WholeSoFar(homes[i].loadingMore, published) /\ homes[i].loadingMore.more

CachesKept ==
    /\ cachedFeed # None => WholeSoFar(cachedFeed, published)
    /\ storedFeed # None => WholeSoFar(storedFeed, published)

WaitersKept ==
    /\ firstPages \in Seq(Seq(WaiterType))
    /\ \A r \in DOMAIN firstPages : \A q \in DOMAIN firstPages[r] :
          firstPages[r][q].home \in DOMAIN homes

DrainKept ==
    drain # None =>
        drain \in DrainType /\ WholeSoFar(drain.feed, published) /\ drain.feed.more

FeedInv == PublishedKept /\ HomesKept /\ CachesKept /\ WaitersKept /\ DrainKept

\* What is not in known is each once in NotIn.
LEMMA NotInOnce ==
    ASSUME NEW events \in Seq(Card), NoneTwice(events), NEW known \in Seq(Card)
    PROVE  /\ NotIn(events, known) \in Seq(Card) /\ NoneTwice(NotIn(events, known))
           /\ ToSet(NotIn(events, known)) = ToSet(events) \ ToSet(known)
<1> DEFINE S == {i \in DOMAIN events : events[i] \notin ToSet(known)}
           rest == NotIn(events, known)
<1>1. PICK n \in Nat : n = Len(events) /\ DOMAIN events = 1 .. n /\ S \in SUBSET (1 .. n)
  OBVIOUS
<1>2. rest = Picked(events, S)
  BY DEF NotIn
<1> HIDE DEF rest
<1>3. \A i \in S : i \in DOMAIN events /\ events[i] \in Card /\ events[i] \notin ToSet(known)
  OBVIOUS
<1>4. \A i \in DOMAIN events : events[i] \notin ToSet(known) => i \in S
  OBVIOUS
<1> HIDE DEF S
<1>5. PICK order \in Bijection(1 .. Cardinality(S), S) :
         Cardinality(S) \in Nat /\ rest = Along(events, order, Cardinality(S))
  BY <1>1, <1>2, PickedIsOrdered
<1>6. PICK c \in Nat : c = Cardinality(S)
  BY <1>5
<1>7. order \in Injection(1 .. c, S) /\ order \in Surjection(1 .. c, S)
  BY <1>5, <1>6 DEF Bijection
<1>8. rest = [k \in 1 .. c |-> events[order[k]]] /\ \A k \in 1 .. c : order[k] \in S
  BY <1>5, <1>6, <1>7 DEF Along, Injection
<1>9. rest \in Seq(Card) /\ DOMAIN rest = 1 .. c
  BY <1>3, <1>8
<1>10. NoneTwice(rest)
  <2>1. ASSUME NEW i \in 1 .. c, NEW j \in 1 .. c, rest[i] = rest[j] PROVE i = j
    <3>1. order[i] = order[j]
      BY <1>3, <1>8, <2>1 DEF NoneTwice
    <3> QED
      BY <1>7, <3>1 DEF Injection, IsInjective
  <2> QED
    BY <1>9, <2>1 DEF NoneTwice
<1>11. ASSUME NEW x \in ToSet(rest) PROVE x \in ToSet(events) \ ToSet(known)
  BY <1>3, <1>8, <1>9, <1>11 DEF ToSet
<1>12. ASSUME NEW x \in ToSet(events), x \notin ToSet(known) PROVE x \in ToSet(rest)
  <2>1. PICK i \in DOMAIN events : events[i] = x
    BY DEF ToSet
  <2>2. PICK k \in 1 .. c : order[k] = i
    BY <1>4, <1>7, <1>12, <2>1 DEF Surjection
  <2> QED
    BY <1>8, <1>9, <2>1, <2>2 DEF ToSet
<1>13. /\ rest \in Seq(Card) /\ NoneTwice(rest)
       /\ ToSet(rest) = ToSet(events) \ ToSet(known)
  BY <1>9, <1>10, <1>11, <1>12
<1> QED
  BY <1>13 DEF rest

\* A list followed by what it does not hold of another.
LEMMA JoinedOnce ==
    ASSUME NEW events \in Seq(Card), NoneTwice(events), NEW known \in Seq(Card), NoneTwice(known)
    PROVE  /\ known \o NotIn(events, known) \in Seq(Card)
           /\ NoneTwice(known \o NotIn(events, known))
           /\ ToSet(known \o NotIn(events, known)) = ToSet(known) \cup ToSet(events)
<1>1. PICK rest : rest = NotIn(events, known)
  OBVIOUS
<1>2. rest \in Seq(Card) /\ NoneTwice(rest) /\ ToSet(rest) = ToSet(events) \ ToSet(known)
  BY <1>1, NotInOnce
<1>3. PICK joined : joined = known \o rest
  OBVIOUS
<1>4. PICK n \in Nat, c \in Nat : n = Len(known) /\ c = Len(rest)
  BY <1>2
<1>5. /\ DOMAIN known = 1 .. n /\ DOMAIN rest = 1 .. c
      /\ joined \in Seq(Card) /\ DOMAIN joined = 1 .. n + c
      /\ \A i \in 1 .. n : joined[i] = known[i]
      /\ \A i \in n + 1 .. n + c : i - n \in 1 .. c /\ joined[i] = rest[i - n]
  BY <1>2, <1>3, <1>4
<1>6. \A i \in 1 .. n + c : i \in 1 .. n \/ i \in n + 1 .. n + c
  OBVIOUS
<1>7. \A i \in 1 .. n : joined[i] \in ToSet(known)
  BY <1>5 DEF ToSet
<1>8. \A i \in n + 1 .. n + c : joined[i] \in ToSet(rest)
  BY <1>5 DEF ToSet
<1>9. ASSUME NEW i \in 1 .. n + c, NEW j \in 1 .. n + c, joined[i] = joined[j] PROVE i = j
  <2>1. CASE i \in 1 .. n /\ j \in 1 .. n
    BY <1>5, <1>9, <2>1 DEF NoneTwice
  <2>2. CASE i \in n + 1 .. n + c /\ j \in n + 1 .. n + c
    <3>1. i - n \in DOMAIN rest /\ j - n \in DOMAIN rest /\ rest[i - n] = rest[j - n]
      BY <1>5, <1>9, <2>2
    <3>2. i - n = j - n
      BY <1>2, <3>1 DEF NoneTwice
    <3> QED
      BY <2>2, <3>2
  <2> QED
    BY <1>2, <1>6, <1>7, <1>8, <1>9, <2>1, <2>2
<1>10. NoneTwice(joined)
  BY <1>5, <1>9 DEF NoneTwice
<1>11. ToSet(joined) \subseteq ToSet(known) \cup ToSet(events)
  <2>1. ASSUME NEW i \in 1 .. n + c PROVE joined[i] \in ToSet(known) \cup ToSet(events)
    BY <1>2, <1>6, <1>7, <1>8
  <2> QED
    BY <1>5, <2>1 DEF ToSet
<1>12. ToSet(known) \subseteq ToSet(joined)
  <2>1. 1 .. n \subseteq 1 .. n + c
    OBVIOUS
  <2> QED
    BY <1>5, <2>1 DEF ToSet
<1>13. ToSet(rest) \subseteq ToSet(joined)
  <2>1. \A i \in 1 .. c : i + n \in 1 .. n + c /\ i + n \in n + 1 .. n + c /\ i + n - n = i
    OBVIOUS
  <2>2. \A i \in 1 .. c : joined[i + n] = rest[i]
    BY <1>5, <2>1
  <2> QED
    <3>1. ASSUME NEW i \in 1 .. c PROVE rest[i] \in ToSet(joined)
      <4>1. PICK k : k = i + n
        OBVIOUS
      <4>2. k \in DOMAIN joined /\ joined[k] = rest[i]
        BY <1>5, <2>1, <2>2, <4>1
      <4> QED
        BY <4>2 DEF ToSet
    <3> QED
      BY <1>5, <3>1 DEF ToSet
<1>14. ToSet(joined) = ToSet(known) \cup ToSet(events)
  BY <1>2, <1>11, <1>12, <1>13
<1> QED
  BY <1>1, <1>3, <1>5, <1>10, <1>14

\* fetchEventPage has all there is from its offset to the next one.
LEMMA PageIsWhole ==
    ASSUME PublishedKept, NEW offset \in Nat
    PROVE  /\ EventPage(offset) \in FeedType /\ NoneTwice(EventPage(offset).events)
           /\ EventPage(offset).fallback = FALSE
           /\ \A k \in DOMAIN published : offset < k /\ k <= EventPage(offset).next =>
                 published[k] \in ToSet(EventPage(offset).events)
<1> DEFINE n == Len(published)
           last == Min({offset + PageSize, n})
           page == IF offset >= last THEN <<>> ELSE SubSeq(published, offset + 1, last)
<1>1. published \in Seq(Card) /\ NoneTwice(published) /\ n \in Nat /\ DOMAIN published = 1 .. n
      /\ PageSize \in Nat
  BY FeedAssumption DEF PublishedKept
<1>2. EventPage(offset) = [events |-> page, next |-> offset + Len(page),
                           more |-> Len(page) = PageSize, fallback |-> FALSE]
  BY DEF EventPage
<1>3. last \in Nat /\ last <= n
  <2> DEFINE m == offset + PageSize
             least == IF m <= n THEN m ELSE n
  <2>1. m \in Nat /\ n \in Nat
    BY <1>1
  <2> HIDE DEF m, n
  <2>2. least \in {m, n} /\ (\A y \in {m, n} : least <= y) /\ least \in Nat /\ least <= n
    BY <2>1
  <2>3. Min({m, n}) = CHOOSE x \in {m, n} : \A y \in {m, n} : x <= y
    BY DEF Min
  <2> HIDE DEF least
  <2>4. Min({m, n}) \in {m, n} /\ \A y \in {m, n} : Min({m, n}) <= y
    BY <2>2, <2>3
  <2>5. Min({m, n}) \in Nat /\ Min({m, n}) <= n
    BY <2>1, <2>4
  <2> QED
    BY <2>5 DEF m
<1> HIDE DEF last, n
<1>4. /\ page \in Seq(Card) /\ NoneTwice(page)
      /\ \A k \in 1 .. n : offset < k /\ k <= offset + Len(page) => published[k] \in ToSet(page)
  <2>1. CASE offset >= last
    <3>1. page = <<>>
      BY <2>1
    <3> HIDE DEF page
    <3>2. page \in Seq(Card) /\ Len(page) = 0 /\ DOMAIN page = {}
      BY <3>1
    <3>3. \A k \in 1 .. n : ~(offset < k /\ k <= offset + Len(page))
      BY <1>1, <3>2
    <3> QED
      BY <3>2, <3>3 DEF NoneTwice
  <2>2. CASE ~(offset >= last)
    <3>1. PICK c \in Nat : c = last - offset
      BY <1>3, <2>2
    <3>2. PICK piece : piece = SubSeq(published, offset + 1, last)
      OBVIOUS
    <3>3. piece \in Seq(Card) /\ Len(piece) = c /\ DOMAIN piece = 1 .. c
          /\ \A k \in 1 .. c : k + offset \in 1 .. n /\ piece[k] = published[k + offset]
      <4>1. n = Len(published) /\ offset + 1 \in 1 .. n /\ last \in 1 .. n /\ last = offset + c
        BY <1>1, <1>3, <2>2, <3>1 DEF n
      <4>2. \A k \in offset + 1 .. last : published[k] \in Card
        BY <1>1, <4>1
      <4>3. PICK first \in Nat : first = offset + 1
        BY <1>1
      <4>4. piece \in Seq(Card) /\ Len(piece) = c
        <5>1. /\ SubSeq(published, first, last) \in Seq(Card)
              /\ Len(SubSeq(published, first, last)) =
                    IF first <= last THEN last - first + 1 ELSE 0
          BY <4>1, <4>2, <4>3, SubSeqProperties
        <5> QED
          BY <1>1, <2>2, <3>1, <3>2, <4>1, <4>3, <5>1
      <4>5. \A k \in 1 .. last - first + 1 : SubSeq(published, first, last)[k] = published[first + k - 1]
        BY <4>1, <4>2, <4>3, SubSeqProperties
      <4>6. ASSUME NEW k \in 1 .. c
            PROVE  k + offset \in 1 .. n /\ piece[k] = published[k + offset]
        <5>1. k \in 1 .. last - first + 1 /\ first + k - 1 = k + offset
          BY <1>1, <4>1, <4>3
        <5>2. piece[k] = published[first + k - 1]
          BY <3>2, <4>3, <4>5, <5>1
        <5> QED
          BY <1>1, <4>1, <5>1, <5>2
      <4> QED
        BY <4>4, <4>6
    <3>4. NoneTwice(piece)
      <4>1. ASSUME NEW i \in 1 .. c, NEW j \in 1 .. c, piece[i] = piece[j] PROVE i = j
        <5>1. i + offset = j + offset
          BY <1>1, <3>3, <4>1 DEF NoneTwice
        <5> QED
          BY <5>1
      <4> QED
        BY <3>3, <4>1 DEF NoneTwice
    <3>5. ASSUME NEW k \in 1 .. n, offset < k, k <= offset + c PROVE published[k] \in ToSet(piece)
      <4>1. PICK i : i = k - offset
        OBVIOUS
      <4>2. i \in 1 .. c /\ i + offset = k
        BY <1>1, <3>5, <4>1
      <4> QED
        BY <3>3, <4>2 DEF ToSet
    <3>6. page = piece
      BY <2>2, <3>2
    <3> QED
      BY <3>3, <3>4, <3>5, <3>6
  <2> QED
    BY <2>1, <2>2
<1> HIDE DEF page
<1>5. Len(page) \in Nat
  BY <1>4
<1>6. EventPage(offset) \in FeedType
  BY <1>2, <1>4, <1>5 DEF FeedType
<1> QED
  BY <1>1, <1>2, <1>4, <1>6

\* mergeFeedPage with the page at its next offset.
LEMMA MergedIsWhole ==
    ASSUME PublishedKept, NEW feed, WholeSoFar(feed, published), feed.more
    PROVE  WholeSoFar(MergeFeedPage(feed, EventPage(feed.next)), published)
<1>1. feed \in FeedType /\ NoneTwice(feed.events) /\ feed.fallback = FALSE
      /\ feed.next \in Nat /\ feed.events \in Seq(Card)
  BY DEF WholeSoFar, FeedType
<1>2. PICK page : page = EventPage(feed.next)
  OBVIOUS
<1>3. /\ page \in FeedType /\ NoneTwice(page.events) /\ page.fallback = FALSE
      /\ \A k \in DOMAIN published : feed.next < k /\ k <= page.next =>
            published[k] \in ToSet(page.events)
  BY <1>1, <1>2, PageIsWhole
<1>4. PICK joined : joined = feed.events \o NotIn(page.events, feed.events)
  OBVIOUS
<1>5. /\ joined \in Seq(Card) /\ NoneTwice(joined)
      /\ ToSet(joined) = ToSet(feed.events) \cup ToSet(page.events)
  <2>1. page.events \in Seq(Card)
    BY <1>3 DEF FeedType
  <2> QED
    BY <1>1, <1>3, <1>4, <2>1, JoinedOnce
<1>6. PICK merged : merged = [page EXCEPT !.events = joined]
  OBVIOUS
<1>7. merged \in FeedType /\ merged.events = joined /\ merged.next = page.next
      /\ merged.fallback = FALSE
  BY <1>3, <1>5, <1>6 DEF FeedType
<1>8. ASSUME NEW k \in DOMAIN published, k <= merged.next, published[k] \in ToSet(Published)
      PROVE  published[k] \in ToSet(joined)
  <2>1. k \in Nat
    BY DEF PublishedKept
  <2>2. CASE k <= feed.next
    BY <1>1, <1>5, <1>8, <2>2 DEF WholeSoFar
  <2>3. CASE feed.next < k
    BY <1>3, <1>5, <1>7, <1>8, <2>3
  <2> QED
    BY <1>1, <2>1, <2>2, <2>3
<1>9. WholeSoFar(merged, published)
  BY <1>5, <1>7, <1>8 DEF WholeSoFar
<1> QED
  BY <1>2, <1>4, <1>6, <1>9 DEF MergeFeedPage

\* reconcileInitialFeed.
LEMMA ReconciledIsWhole ==
    ASSUME NEW ps, NEW feed, WholeSoFar(feed, ps), NEW first, WholeSoFar(first, ps)
    PROVE  WholeSoFar(Reconcile(feed, first), ps)
<1>1. CASE feed.next <= first.next
  BY <1>1 DEF Reconcile
<1>2. CASE ~(feed.next <= first.next)
  <2>1. feed \in FeedType /\ feed.events \in Seq(Card) /\ NoneTwice(feed.events)
        /\ first.events \in Seq(Card) /\ NoneTwice(first.events)
    BY DEF WholeSoFar, FeedType
  <2>2. PICK joined : joined = first.events \o NotIn(feed.events, first.events)
    OBVIOUS
  <2>3. /\ joined \in Seq(Card) /\ NoneTwice(joined)
        /\ ToSet(joined) = ToSet(first.events) \cup ToSet(feed.events)
    BY <2>1, <2>2, JoinedOnce
  <2>4. PICK merged : merged = [feed EXCEPT !.events = joined]
    OBVIOUS
  <2>5. merged \in FeedType /\ merged.events = joined /\ merged.next = feed.next
        /\ merged.fallback = feed.fallback /\ merged.more = feed.more
    BY <2>1, <2>3, <2>4 DEF FeedType
  <2>6. WholeSoFar(merged, ps)
    BY <2>3, <2>5 DEF WholeSoFar
  <2> QED
    BY <1>2, <2>2, <2>4, <2>6 DEF Reconcile
<1> QED
  BY <1>1, <1>2

LEMMA FirstIsWhole ==
    ASSUME PublishedKept
    PROVE  WholeSoFar(EventPage(0), published)
<1>1. \A k \in DOMAIN published : 0 < k
  BY DEF PublishedKept
<1> QED
  BY <1>1, PageIsWhole DEF WholeSoFar

LEMMA FallbackIsWhole ==
    ASSUME PublishedKept, NEW first \in FallbackPages
    PROVE  WholeSoFar(first, published)
<1>1. PICK s \in SeqOf(ToSet(published), PageSize) :
         IsInjective(s) /\ first = [events |-> s, next |-> Len(s), more |-> FALSE, fallback |-> TRUE]
  BY DEF FallbackPages
<1>2. PICK n \in 0 .. PageSize : s \in [1 .. n -> ToSet(published)]
  BY DEF SeqOf
<1>3. n \in Nat /\ ToSet(published) \subseteq Card
  BY FeedAssumption DEF PublishedKept, ToSet
<1>4. s \in Seq(Card) /\ Len(s) \in Nat
  BY <1>2, <1>3
<1>5. NoneTwice(s)
  BY <1>1 DEF IsInjective, NoneTwice
<1>6. first \in FeedType
  BY <1>1, <1>4 DEF FeedType
<1> QED
  BY <1>1, <1>5, <1>6 DEF WholeSoFar

\* A feed stays whole when another event takes its place among the published.
LEMMA StaysWhole ==
    ASSUME NEW f, NEW ps, NEW qs, WholeSoFar(f, ps),
           \A k \in DOMAIN qs : qs[k] \in ToSet(Published) =>
               \E j \in DOMAIN ps : ps[j] = qs[k] /\ j <= k,
           \A k \in DOMAIN qs : k \in Int, \A k \in DOMAIN ps : k \in Int
    PROVE  WholeSoFar(f, qs)
<1>1. f.next \in Int
  BY DEF WholeSoFar, FeedType
<1>2. ASSUME ~f.fallback, NEW k \in DOMAIN qs, k <= f.next, qs[k] \in ToSet(Published)
      PROVE  qs[k] \in ToSet(f.events)
  <2>1. PICK j \in DOMAIN ps : ps[j] = qs[k] /\ j <= k
    BY <1>2
  <2>2. j <= f.next
    BY <1>1, <1>2, <2>1
  <2> QED
    BY <1>2, <2>1, <2>2 DEF WholeSoFar
<1> QED
  BY <1>2 DEF WholeSoFar

LEMMA FeedStarts == FeedInit => FeedInv
<1> SUFFICES ASSUME FeedInit PROVE FeedInv
  OBVIOUS
<1>1. PublishedKept
  <2>1. Published \in Seq(Card) /\ NoneTwice(Published) /\ Len(Published) \in Nat
        /\ DOMAIN Published = 1 .. Len(Published)
    BY FeedAssumption DEF Card, NoneTwice, IsInjective
  <2>2. \A j \in DOMAIN Published : j <= j + (Len(Published) - Len(Published))
    BY <2>1
  <2> QED
    BY <2>1, <2>2 DEF FeedInit, PublishedKept
<1>2. homes = <<>> /\ firstPages = <<>> /\ cachedFeed = None /\ storedFeed = None /\ drain = None
  BY DEF FeedInit
<1>3. HomesKept /\ WaitersKept
  BY <1>2 DEF HomesKept, WaitersKept
<1>4. CachesKept /\ DrainKept
  BY <1>2 DEF CachesKept, DrainKept
<1> QED
  BY <1>1, <1>3, <1>4 DEF FeedInv

\* Homes that show what they showed, or another whole feed.
LEMMA HomesStay ==
    ASSUME HomesKept, published' = published, homes' \in Seq(HomeType),
           \A i \in DOMAIN homes' :
              /\ \/ WholeSoFar(homes'[i].feed, published)
                 \/ i \in DOMAIN homes /\ homes'[i].feed = homes[i].feed
              /\ \/ homes'[i].loadingMore = None
                 \/ i \in DOMAIN homes /\ homes'[i].loadingMore = homes[i].loadingMore
                 \/ WholeSoFar(homes'[i].loadingMore, published) /\ homes'[i].loadingMore.more
    PROVE  HomesKept'
<1>1. ASSUME NEW i \in DOMAIN homes' PROVE WholeSoFar(homes'[i].feed, published')
  BY DEF HomesKept
<1>2. ASSUME NEW i \in DOMAIN homes', homes'[i].loadingMore # None
      PROVE  WholeSoFar(homes'[i].loadingMore, published') /\ homes'[i].loadingMore.more
  BY <1>2 DEF HomesKept
<1> QED
  BY <1>1, <1>2 DEF HomesKept

\* A page waits for a first page, asked for now or before.
LEMMA WaitersCome ==
    ASSUME FeedInv, NEW i \in Nat, NEW background \in BOOLEAN, NEW inflight,
           LoadSections(i, background, firstPages, inflight),
           DOMAIN homes \subseteq DOMAIN homes', i \in DOMAIN homes'
    PROVE  WaitersKept'
<1>1. PICK w : w = [home |-> i, background |-> background]
  OBVIOUS
<1>2. w \in WaiterType /\ w.home = i
  BY <1>1 DEF WaiterType
<1>3. firstPages \in Seq(Seq(WaiterType)) /\ \A r \in DOMAIN firstPages : firstPages[r] \in Seq(WaiterType)
  BY DEF FeedInv, WaitersKept
<1>4. \A r \in DOMAIN firstPages : \A q \in DOMAIN firstPages[r] : firstPages[r][q].home \in DOMAIN homes'
  BY DEF FeedInv, WaitersKept
<1>5. CASE inflight # None
  <2>1. firstPages' = [firstPages EXCEPT ![inflight] = Append(@, w)]
    BY <1>1, <1>5 DEF LoadSections
  <2>2. \A r \in DOMAIN firstPages : Append(firstPages[r], w) \in Seq(WaiterType)
    BY <1>2, <1>3
  <2>3. firstPages' \in Seq(Seq(WaiterType)) /\ DOMAIN firstPages' = DOMAIN firstPages
    <3>1. PICK T : T = Seq(WaiterType)
      OBVIOUS
    <3>2. firstPages \in Seq(T) /\ \A r \in DOMAIN firstPages : Append(firstPages[r], w) \in T
      BY <1>3, <2>2, <3>1
    <3>3. PICK n \in Nat : DOMAIN firstPages = 1 .. n /\ firstPages \in [1 .. n -> T]
      BY <3>2
    <3>4. firstPages' \in [1 .. n -> T]
      BY <2>1, <3>2, <3>3
    <3> QED
      BY <3>1, <3>3, <3>4
  <2>4. ASSUME NEW r \in DOMAIN firstPages', NEW q \in DOMAIN firstPages'[r]
        PROVE  firstPages'[r][q].home \in DOMAIN homes'
    <3>1. CASE r # inflight
      BY <1>4, <2>1, <2>3, <3>1
    <3>2. CASE r = inflight
      <4>1. firstPages'[r] = Append(firstPages[r], w)
        BY <2>1, <2>3, <3>2
      <4>2. firstPages[r] \in Seq(WaiterType) /\ r \in DOMAIN firstPages
        BY <1>3, <2>3
      <4>3. \/ q \in DOMAIN firstPages[r] /\ firstPages'[r][q] = firstPages[r][q]
            \/ firstPages'[r][q] = w
        BY <4>1, <4>2
      <4> QED
        BY <1>2, <1>4, <4>2, <4>3
    <3> QED
      BY <3>1, <3>2
  <2> QED
    BY <2>3, <2>4 DEF WaitersKept
<1>6. CASE inflight = None
  <2>1. firstPages' = Append(firstPages, <<w>>)
    BY <1>1, <1>6 DEF LoadSections
  <2>2. <<w>> \in Seq(WaiterType) /\ DOMAIN <<w>> = {1} /\ <<w>>[1] = w
    BY <1>2
  <2>3. firstPages' \in Seq(Seq(WaiterType))
    <3>1. PICK T, ws : T = Seq(WaiterType) /\ ws = <<w>>
      OBVIOUS
    <3>2. firstPages \in Seq(T) /\ ws \in T /\ firstPages' = Append(firstPages, ws)
      BY <1>3, <2>1, <2>2, <3>1
    <3>3. firstPages' \in Seq(T)
      BY <3>2
    <3> QED
      BY <3>1, <3>3
  <2>4. ASSUME NEW r \in DOMAIN firstPages', NEW q \in DOMAIN firstPages'[r]
        PROVE  firstPages'[r][q].home \in DOMAIN homes'
    <3>1. \/ r \in DOMAIN firstPages /\ firstPages'[r] = firstPages[r]
          \/ firstPages'[r] = <<w>>
      BY <1>3, <2>1
    <3> QED
      BY <1>2, <1>4, <2>2, <3>1
  <2> QED
    BY <2>3, <2>4 DEF WaitersKept
<1> QED
  BY <1>5, <1>6

LEMMA WaitersStay ==
    ASSUME WaitersKept, DOMAIN homes \subseteq DOMAIN homes',
           \/ firstPages' = firstPages
           \/ \E r : firstPages' = [firstPages EXCEPT ![r] = <<>>]
           \/ firstPages' = [r \in DOMAIN firstPages |-> <<>>]
    PROVE  WaitersKept'
<1>1. firstPages' \in Seq(Seq(WaiterType)) /\ DOMAIN firstPages' = DOMAIN firstPages
  <2>1. PICK T, none : T = Seq(WaiterType) /\ none = <<>>
    OBVIOUS
  <2>2. none \in T /\ firstPages \in Seq(T)
    BY <2>1 DEF WaitersKept
  <2>3. \/ firstPages' = firstPages
        \/ \E r : firstPages' = [firstPages EXCEPT ![r] = none]
        \/ firstPages' = [r \in DOMAIN firstPages |-> none]
    BY <2>1
  <2>4. DOMAIN firstPages' = DOMAIN firstPages /\ \A r \in DOMAIN firstPages' : firstPages'[r] \in T
    BY <2>2, <2>3
  <2>5. PICK n \in Nat : DOMAIN firstPages' = 1 .. n
    BY <2>2, <2>4
  <2>6. firstPages' = [r \in 1 .. n |-> firstPages'[r]]
    BY <2>2, <2>3, <2>4, <2>5
  <2>7. firstPages' \in Seq(T)
    BY <2>4, <2>5, <2>6
  <2> QED
    BY <2>1, <2>4, <2>7
<1>2. ASSUME NEW r \in DOMAIN firstPages', NEW q \in DOMAIN firstPages'[r]
      PROVE  firstPages'[r][q].home \in DOMAIN homes'
  <2>1. \/ firstPages'[r] = firstPages[r]
        \/ firstPages'[r] = <<>>
    BY <1>1
  <2>2. firstPages'[r] = firstPages[r]
    BY <2>1
  <2> QED
    BY <1>1, <2>2 DEF WaitersKept
<1> QED
  BY <1>1, <1>2 DEF WaitersKept

LEMMA HomeVisited == FeedInv /\ VisitHome => FeedInv'
<1> SUFFICES ASSUME FeedInv, VisitHome PROVE FeedInv'
  OBVIOUS
<1> USE DEF FeedInv
<1>1. PICK warm : warm = IF cachedFeed # None THEN cachedFeed ELSE storedFeed
  OBVIOUS
<1>2. PICK i \in Nat : i = Len(homes) + 1
  BY DEF HomesKept
<1>3. EmptyFeed \in FeedType /\ WholeSoFar(EmptyFeed, published)
  <2>1. EmptyFeed \in FeedType
    BY DEF EmptyFeed, FeedType
  <2>2. NoneTwice(EmptyFeed.events) /\ EmptyFeed.fallback = FALSE /\ EmptyFeed.next = 0
    BY DEF EmptyFeed, NoneTwice
  <2>3. \A k \in DOMAIN published : ~(k <= 0)
    BY DEF PublishedKept
  <2> QED
    BY <2>1, <2>2, <2>3 DEF WholeSoFar
<1>4. PICK shown : shown = IF warm = None THEN NewHome ELSE [NewHome EXCEPT !.status = "ready", !.feed = warm]
  OBVIOUS
<1>5. /\ homes' = Append(homes, shown) /\ UNCHANGED <<published, drain>>
      /\ warm # None => storedFeed' = warm /\ cachedFeed' = None
      /\ warm = None => UNCHANGED <<cachedFeed, storedFeed>>
      /\ \E background \in BOOLEAN : \E inflight :
            LoadSections(i, background, firstPages, inflight)
  BY <1>1, <1>2, <1>4, Zenon DEF VisitHome
<1>6. warm # None => WholeSoFar(warm, published)
  BY <1>1 DEF CachesKept
<1>7. shown \in HomeType /\ shown.loadingMore = None /\ WholeSoFar(shown.feed, published)
  <2>1. NewHome \in HomeType /\ NewHome.loadingMore = None /\ NewHome.feed = EmptyFeed
    BY <1>3 DEF NewHome, HomeType
  <2>2. warm # None => warm \in FeedType
    BY <1>6 DEF WholeSoFar
  <2> QED
    BY <1>3, <1>4, <1>6, <2>1, <2>2 DEF HomeType
<1>8. /\ homes' \in Seq(HomeType) /\ DOMAIN homes \subseteq DOMAIN homes' /\ i \in DOMAIN homes'
      /\ \A k \in DOMAIN homes' : (k \in DOMAIN homes /\ homes'[k] = homes[k]) \/ homes'[k] = shown
  BY <1>2, <1>5, <1>7 DEF HomesKept
<1>9. HomesKept'
  BY <1>5, <1>7, <1>8, HomesStay
<1>10. WaitersKept'
  BY <1>5, <1>8, WaitersCome
<1>11. PublishedKept' /\ DrainKept' /\ CachesKept'
  BY <1>5, <1>6 DEF PublishedKept, DrainKept, CachesKept
<1> QED
  BY <1>9, <1>10, <1>11

\* What a waiter makes of a first page that is whole is whole.
LEMMA WaiterShowsWhole ==
    ASSUME FeedInv, NEW w, w.home \in DOMAIN homes, NEW first, WholeSoFar(first, published)
    PROVE  WholeSoFar(AfterFirst(w, first), published)
<1>1. WholeSoFar(homes[w.home].feed, published)
  BY DEF FeedInv, HomesKept
<1>2. WholeSoFar(Reconcile(homes[w.home].feed, first), published)
  BY <1>1, ReconciledIsWhole
<1> QED
  BY <1>2 DEF AfterFirst

LEMMA FirstAnswered ==
    ASSUME FeedInv, NEW r, NEW first, WholeSoFar(first, published), FirstPageAnswered(r, first)
    PROVE  FeedInv'
<1> USE DEF FeedInv
<1>1. r \in DOMAIN firstPages /\ firstPages[r] # <<>>
  BY DEF FirstPageAnswered, Unanswered
<1>2. PICK waiters : waiters = firstPages[r]
  OBVIOUS
<1>3. waiters \in Seq(WaiterType) /\ waiters # <<>>
      /\ \A q \in DOMAIN waiters : waiters[q].home \in DOMAIN homes
  BY <1>1, <1>2 DEF WaitersKept
<1>4. /\ waiters[1].home \in DOMAIN homes /\ waiters[1].home \in Nat
      /\ Last(waiters).home \in DOMAIN homes
      /\ \A w \in ToSet(waiters) : w.home \in DOMAIN homes /\ w.home \in Nat
  <2>1. 1 \in DOMAIN waiters /\ Len(waiters) \in DOMAIN waiters
    BY <1>3
  <2>2. \A q \in DOMAIN waiters : waiters[q].home \in Nat
    <3>1. \A q \in DOMAIN waiters : waiters[q] \in WaiterType
      BY <1>3
    <3> QED
      BY <3>1 DEF WaiterType
  <2> QED
    BY <1>3, <2>1, <2>2 DEF Last, ToSet
<1>5. PICK waiting : waiting = {w.home : w \in ToSet(waiters)}
  OBVIOUS
<1>6. waiting \subseteq Nat
  BY <1>4, <1>5
<1>7. PICK start, cached : start = AfterFirst(waiters[1], first) /\ cached = AfterFirst(Last(waiters), first)
  OBVIOUS
<1>8. WholeSoFar(start, published) /\ WholeSoFar(cached, published)
  BY <1>4, <1>7, WaiterShowsWhole
<1>9. PICK ends : ends = (drain = None /\ ~start.more)
  OBVIOUS
<1>10. PICK shown : shown = [i \in DOMAIN homes |->
            IF ends THEN cached
            ELSE AfterFirst(CHOOSE w \in ToSet(waiters) : w.home = i, first)]
  OBVIOUS
<1>11. /\ homes' = [i \in DOMAIN homes |->
                      IF i \in waiting
                      THEN [homes[i] EXCEPT !.feed = shown[i], !.status = "ready"]
                      ELSE homes[i]]
       /\ cachedFeed' = cached /\ storedFeed' = cached /\ published' = published
       /\ firstPages' = [firstPages EXCEPT ![r] = <<>>]
  BY <1>2, <1>5, <1>7, <1>9, <1>10 DEF FirstPageAnswered
<1>12. drain' = IF ends THEN None
                ELSE IF drain # None THEN [drain EXCEPT !.waiting = @ \cup waiting]
                ELSE [feed |-> start, follower |-> waiters[1].home, waiting |-> waiting]
  BY <1>2, <1>5, <1>7, <1>9, Zenon DEF FirstPageAnswered
<1>13. ASSUME NEW i \in DOMAIN homes, i \in waiting PROVE WholeSoFar(shown[i], published)
  <2>1. PICK w \in ToSet(waiters) : w.home = i
    BY <1>5, <1>13
  <2>2. PICK v : v = CHOOSE z \in ToSet(waiters) : z.home = i
    OBVIOUS
  <2>3. v \in ToSet(waiters) /\ v.home = i
    BY <2>1, <2>2
  <2>4. WholeSoFar(AfterFirst(v, first), published)
    BY <1>4, <2>3, WaiterShowsWhole
  <2> QED
    BY <1>8, <1>10, <2>2, <2>4
<1>14. ASSUME NEW i \in DOMAIN homes
       PROVE  /\ homes'[i] \in HomeType /\ homes'[i].loadingMore = homes[i].loadingMore
              /\ WholeSoFar(homes'[i].feed, published) \/ homes'[i].feed = homes[i].feed
  <2>1. homes[i] \in HomeType
    BY DEF HomesKept
  <2>2. CASE i \in waiting
    <3>1. shown[i] \in FeedType
      BY <1>13, <2>2 DEF WholeSoFar
    <3>2. homes'[i] = [homes[i] EXCEPT !.feed = shown[i], !.status = "ready"]
      BY <1>11, <2>2
    <3>3. homes'[i] \in HomeType /\ homes'[i].loadingMore = homes[i].loadingMore
          /\ homes'[i].feed = shown[i]
      BY <2>1, <3>1, <3>2 DEF HomeType
    <3> QED
      BY <1>13, <2>2, <3>3
  <2>3. CASE i \notin waiting
    BY <1>11, <2>1, <2>3
  <2> QED
    BY <2>2, <2>3
<1>15. homes' \in Seq(HomeType) /\ DOMAIN homes' = DOMAIN homes
  <2>1. DOMAIN homes' = DOMAIN homes /\ homes' = [i \in DOMAIN homes |-> homes'[i]]
    BY <1>11
  <2>2. PICK n \in Nat : DOMAIN homes = 1 .. n
    BY DEF HomesKept
  <2>3. homes' \in [1 .. n -> HomeType]
    BY <1>14, <2>1, <2>2
  <2> QED
    BY <2>1, <2>2, <2>3
<1>16. HomesKept'
  BY <1>11, <1>14, <1>15, HomesStay
<1>17. WaitersKept'
  BY <1>11, <1>15, WaitersStay
<1>18. CachesKept' /\ PublishedKept'
  BY <1>8, <1>11 DEF CachesKept, PublishedKept
<1>19. DrainKept'
  <2>1. CASE ~ends /\ drain # None
    BY <1>6, <1>11, <1>12, <2>1 DEF DrainKept, DrainType
  <2>2. CASE ~ends /\ drain = None
    <3>1. start.more /\ start \in FeedType
      BY <1>8, <1>9, <2>2 DEF WholeSoFar
    <3> QED
      BY <1>4, <1>6, <1>8, <1>11, <1>12, <2>2, <3>1 DEF DrainKept, DrainType
  <2> QED
    BY <1>12, <2>1, <2>2 DEF DrainKept
<1> QED
  BY <1>16, <1>17, <1>18, <1>19

LEMMA FirstFails == \A r : FeedInv /\ FirstPageFails(r) => FeedInv'
<1> SUFFICES ASSUME NEW r, FeedInv, FirstPageFails(r) PROVE FeedInv'
  OBVIOUS
<1> USE DEF FeedInv
<1>1. PICK told : homes' = [i \in DOMAIN homes |->
                      IF i \in told THEN [homes[i] EXCEPT !.status = "error"] ELSE homes[i]]
  BY DEF FirstPageFails
<1>2. ASSUME NEW i \in DOMAIN homes
      PROVE  /\ homes'[i] \in HomeType /\ homes'[i].loadingMore = homes[i].loadingMore
             /\ homes'[i].feed = homes[i].feed
  <2>1. homes[i] \in HomeType
    BY DEF HomesKept
  <2> QED
    BY <1>1, <2>1 DEF HomeType
<1>3. homes' \in Seq(HomeType) /\ DOMAIN homes' = DOMAIN homes
  <2>1. DOMAIN homes' = DOMAIN homes /\ homes' = [i \in DOMAIN homes |-> homes'[i]]
    BY <1>1
  <2>2. PICK n \in Nat : DOMAIN homes = 1 .. n
    BY DEF HomesKept
  <2>3. homes' \in [1 .. n -> HomeType]
    BY <1>2, <2>1, <2>2
  <2> QED
    BY <2>1, <2>2, <2>3
<1>4. UNCHANGED <<published, cachedFeed, storedFeed, drain>>
      /\ firstPages' = [firstPages EXCEPT ![r] = <<>>]
  BY DEF FirstPageFails
<1>5. HomesKept'
  BY <1>2, <1>3, <1>4, HomesStay
<1>6. WaitersKept'
  BY <1>3, <1>4, WaitersStay
<1> QED
  BY <1>4, <1>5, <1>6 DEF PublishedKept, CachesKept, DrainKept

LEMMA DrainRead == FeedInv /\ DrainPageRead => FeedInv'
<1> SUFFICES ASSUME FeedInv, DrainPageRead PROVE FeedInv'
  OBVIOUS
<1> USE DEF FeedInv
<1>1. drain # None /\ drain \in DrainType /\ WholeSoFar(drain.feed, published) /\ drain.feed.more
  BY DEF DrainPageRead, DrainKept
<1>2. PICK feed : feed = MergeFeedPage(drain.feed, EventPage(drain.feed.next))
  OBVIOUS
<1>3. WholeSoFar(feed, published) /\ feed \in FeedType
  BY <1>1, <1>2, MergedIsWhole DEF WholeSoFar
<1>4. PICK seen : homes' = [i \in DOMAIN homes |->
                      IF i \in seen THEN [homes[i] EXCEPT !.feed = feed] ELSE homes[i]]
  BY <1>2 DEF DrainPageRead
<1>5. /\ cachedFeed' = feed /\ storedFeed' = feed /\ UNCHANGED <<published, firstPages>>
      /\ drain' = IF feed.more THEN [drain EXCEPT !.feed = feed] ELSE None
  BY <1>2 DEF DrainPageRead
<1>6. ASSUME NEW i \in DOMAIN homes
      PROVE  /\ homes'[i] \in HomeType /\ homes'[i].loadingMore = homes[i].loadingMore
             /\ homes'[i].feed = feed \/ homes'[i].feed = homes[i].feed
  <2>1. homes[i] \in HomeType
    BY DEF HomesKept
  <2> QED
    BY <1>3, <1>4, <2>1 DEF HomeType
<1>7. homes' \in Seq(HomeType) /\ DOMAIN homes' = DOMAIN homes
  <2>1. DOMAIN homes' = DOMAIN homes /\ homes' = [i \in DOMAIN homes |-> homes'[i]]
    BY <1>4
  <2>2. PICK n \in Nat : DOMAIN homes = 1 .. n
    BY DEF HomesKept
  <2>3. homes' \in [1 .. n -> HomeType]
    BY <1>6, <2>1, <2>2
  <2> QED
    BY <2>1, <2>2, <2>3
<1>8. HomesKept'
  BY <1>3, <1>5, <1>6, <1>7, HomesStay
<1>9. WaitersKept'
  BY <1>5, <1>7, WaitersStay
<1>10. DrainKept'
  BY <1>1, <1>3, <1>5 DEF DrainKept, DrainType
<1> QED
  BY <1>3, <1>5, <1>8, <1>9, <1>10 DEF PublishedKept, CachesKept

\* One page changes; what it shows or goes on from is whole.
LEMMA HomeChanges ==
    ASSUME FeedInv, UNCHANGED <<published, drain>>, NEW i \in DOMAIN homes, NEW h \in HomeType,
           homes' = [homes EXCEPT ![i] = h],
           WholeSoFar(h.feed, published),
           h.loadingMore # None => WholeSoFar(h.loadingMore, published) /\ h.loadingMore.more,
           cachedFeed' = cachedFeed \/ cachedFeed' = None \/ WholeSoFar(cachedFeed', published),
           storedFeed' = storedFeed \/ storedFeed' = None \/ WholeSoFar(storedFeed', published),
           \/ firstPages' = firstPages
           \/ \E background \in BOOLEAN : \E inflight :
                 LoadSections(i, background, firstPages, inflight)
    PROVE  FeedInv'
<1>1. homes \in Seq(HomeType)
  BY DEF FeedInv, HomesKept
<1>2. homes' \in Seq(HomeType) /\ DOMAIN homes' = DOMAIN homes /\ i \in Nat
  BY <1>1
<1>3. \A k \in DOMAIN homes' : (k \in DOMAIN homes /\ homes'[k] = homes[k]) \/ homes'[k] = h
  BY <1>1, <1>2
<1>4. HomesKept'
  BY <1>2, <1>3, HomesStay DEF FeedInv
<1>5. WaitersKept'
  BY <1>2, WaitersStay, WaitersCome DEF FeedInv
<1>6. PublishedKept' /\ DrainKept' /\ CachesKept'
  BY DEF FeedInv, PublishedKept, DrainKept, CachesKept
<1> QED
  BY <1>4, <1>5, <1>6 DEF FeedInv

LEMMA HomeStep ==
    ASSUME FeedInv, NEW i \in DOMAIN homes,
           LeaveHome(i) \/ RetryHome(i) \/ LoadMore(i) \/ MoreRead(i) \/ MoreFails(i)
    PROVE  FeedInv'
<1>1. PICK h : h = homes[i]
  OBVIOUS
<1>2. /\ h \in HomeType /\ WholeSoFar(h.feed, published)
      /\ h.loadingMore # None => WholeSoFar(h.loadingMore, published) /\ h.loadingMore.more
  BY <1>1 DEF FeedInv, HomesKept
<1>3. CASE LeaveHome(i)
  <2>1. PICK g : g = [h EXCEPT !.open = FALSE]
    OBVIOUS
  <2>2. g \in HomeType /\ g.feed = h.feed /\ g.loadingMore = h.loadingMore
    BY <1>1, <1>2, <2>1 DEF HomeType
  <2>3. homes' = [homes EXCEPT ![i] = g]
    BY <1>1, <1>3, <2>1 DEF LeaveHome
  <2> QED
    BY <1>2, <1>3, <2>2, <2>3, HomeChanges DEF LeaveHome
<1>4. CASE RetryHome(i)
  <2>1. PICK g : g = [h EXCEPT !.status = "loading", !.moreFailed = FALSE]
    OBVIOUS
  <2>2. g \in HomeType /\ g.feed = h.feed /\ g.loadingMore = h.loadingMore
    BY <1>1, <1>2, <2>1 DEF HomeType
  <2>3. homes' = [homes EXCEPT ![i] = g]
    BY <1>1, <1>4, <2>1 DEF RetryHome
  <2> QED
    BY <1>1, <1>2, <1>4, <2>2, <2>3, HomeChanges DEF RetryHome
<1>5. CASE LoadMore(i)
  <2>1. PICK g : g = [h EXCEPT !.loadingMore = h.feed, !.moreFailed = FALSE]
    OBVIOUS
  <2>2. h.feed \in FeedType /\ h.feed.more
    BY <1>1, <1>2, <1>5 DEF HomeType, LoadMore
  <2>3. g \in HomeType /\ g.feed = h.feed /\ g.loadingMore = h.feed
    BY <1>1, <1>2, <2>1, <2>2 DEF HomeType
  <2>4. homes' = [homes EXCEPT ![i] = g]
    BY <1>1, <1>5, <2>1 DEF LoadMore
  <2> QED
    BY <1>1, <1>2, <1>5, <2>2, <2>3, <2>4, HomeChanges DEF LoadMore
<1>6. CASE MoreRead(i)
  <2>1. PICK feed : feed = MergeFeedPage(h.loadingMore, EventPage(h.loadingMore.next))
    OBVIOUS
  <2>2. WholeSoFar(feed, published) /\ feed \in FeedType
    BY <1>1, <1>2, <1>6, <2>1, MergedIsWhole DEF MoreRead, FeedInv, WholeSoFar
  <2>3. PICK g : g = [h EXCEPT !.feed = feed, !.loadingMore = None]
    OBVIOUS
  <2>4. g \in HomeType /\ g.feed = feed /\ g.loadingMore = None
    BY <1>1, <1>2, <2>2, <2>3 DEF HomeType
  <2>5. homes' = [homes EXCEPT ![i] = g] /\ cachedFeed' = feed /\ storedFeed' = feed
        /\ UNCHANGED <<published, firstPages, drain>>
    BY <1>1, <1>6, <2>1, <2>3 DEF MoreRead
  <2> QED
    BY <2>2, <2>4, <2>5, HomeChanges
<1>7. CASE MoreFails(i)
  <2>1. PICK g : g = [h EXCEPT !.loadingMore = None, !.moreFailed = TRUE]
    OBVIOUS
  <2>2. g \in HomeType /\ g.feed = h.feed /\ g.loadingMore = None
    BY <1>1, <1>2, <2>1 DEF HomeType
  <2>3. homes' = [homes EXCEPT ![i] = g]
    BY <1>1, <1>7, <2>1 DEF MoreFails
  <2> QED
    BY <1>1, <1>2, <1>7, <2>2, <2>3, HomeChanges DEF MoreFails
<1> QED
  BY <1>3, <1>4, <1>5, <1>6, <1>7

LEMMA HomeReloaded == FeedInv /\ ReloadHome => FeedInv'
<1> SUFFICES ASSUME FeedInv, ReloadHome PROVE FeedInv'
  OBVIOUS
<1> USE DEF FeedInv
<1>1. homes' = [i \in DOMAIN homes |-> [homes[i] EXCEPT !.open = FALSE, !.loadingMore = None]]
      /\ firstPages' = [r \in DOMAIN firstPages |-> <<>>]
      /\ cachedFeed' = None /\ drain' = None /\ UNCHANGED <<published, storedFeed>>
  BY DEF ReloadHome
<1>2. ASSUME NEW i \in DOMAIN homes
      PROVE  /\ homes'[i] \in HomeType /\ homes'[i].loadingMore = None
             /\ homes'[i].feed = homes[i].feed
  <2>1. homes[i] \in HomeType
    BY DEF HomesKept
  <2> QED
    BY <1>1, <2>1 DEF HomeType
<1>3. homes' \in Seq(HomeType) /\ DOMAIN homes' = DOMAIN homes
  <2>1. DOMAIN homes' = DOMAIN homes /\ homes' = [i \in DOMAIN homes |-> homes'[i]]
    BY <1>1
  <2>2. PICK n \in Nat : DOMAIN homes = 1 .. n
    BY DEF HomesKept
  <2>3. homes' \in [1 .. n -> HomeType]
    BY <1>2, <2>1, <2>2
  <2> QED
    BY <2>1, <2>2, <2>3
<1>4. HomesKept'
  BY <1>1, <1>2, <1>3, HomesStay
<1>5. WaitersKept'
  BY <1>1, <1>3, WaitersStay
<1> QED
  BY <1>1, <1>4, <1>5 DEF PublishedKept, CachesKept, DrainKept

\* An event put into the feed after the first at.
LEMMA Inserted ==
    ASSUME NEW S, NEW s \in Seq(S), NEW e \in S, NEW n \in Nat, n = Len(s), NEW at \in 0 .. n,
           NEW i, i = at + 1, NEW t, t = InsertAt(s, i, e)
    PROVE  /\ t \in Seq(S) /\ Len(t) = n + 1 /\ DOMAIN t = 1 .. n + 1
           /\ \A k \in 1 .. at : t[k] = s[k]
           /\ t[at + 1] = e
           /\ \A k, l \in 1 .. n + 1 : k > at + 1 /\ k = l + 1 => t[k] = s[l]
<1>1. PICK before : before = SubSeq(s, 1, at)
  OBVIOUS
<1>2. PICK after : after = SubSeq(s, at + 1, n)
  OBVIOUS
<1>3. \A k \in 1 .. n : s[k] \in S
  OBVIOUS
<1>4. before \in Seq(S) /\ Len(before) = at /\ \A k \in 1 .. at : before[k] = s[k]
  <2>1. \A k \in 1 .. at : s[k] \in S
    BY <1>3
  <2> QED
    BY <1>1, <2>1, SubSeqProperties
<1>5. after \in Seq(S) /\ Len(after) = n - at /\ \A k \in 1 .. n - at : after[k] = s[at + k]
  <2>1. at + 1 \in Int /\ \A k \in at + 1 .. n : s[k] \in S
    BY <1>3
  <2>2. PICK m \in Int : m = at + 1
    BY <2>1
  <2>3. /\ after \in Seq(S) /\ Len(after) = IF m <= n THEN n - m + 1 ELSE 0
        /\ \A k \in 1 .. n - m + 1 : after[k] = s[m + k - 1]
    BY <1>2, <2>1, <2>2, SubSeqProperties
  <2>4. \A k \in 1 .. n - at : m + k - 1 = at + k
    BY <2>2
  <2> QED
    BY <2>2, <2>3, <2>4
<1>6. PICK upto : upto = before \o <<e>>
  OBVIOUS
<1>7. /\ upto \in Seq(S) /\ Len(upto) = at + 1 /\ upto[at + 1] = e
      /\ \A k \in 1 .. at : upto[k] = s[k]
  <2>1. upto = Append(before, e)
    BY <1>4, <1>6, AppendIsConcat
  <2>2. PICK m \in Nat : m = Len(before) /\ m = at
    BY <1>4
  <2>3. /\ upto \in Seq(S) /\ Len(upto) = m + 1 /\ upto[m + 1] = e
        /\ \A k \in 1 .. m : upto[k] = before[k]
    BY <1>4, <2>1, <2>2, AppendProperties
  <2> QED
    BY <1>4, <2>2, <2>3
<1>8. t = upto \o after
  <2>1. i - 1 = at
    OBVIOUS
  <2>2. t = (SubSeq(s, 1, i - 1) \o <<e>>) \o SubSeq(s, i, Len(s))
    BY Zenon DEF InsertAt
  <2> QED
    BY <1>1, <1>2, <1>6, <2>1, <2>2
<1>9. /\ t \in Seq(S) /\ Len(t) = Len(upto) + Len(after)
      /\ \A k \in 1 .. Len(upto) + Len(after) :
            t[k] = IF k <= Len(upto) THEN upto[k] ELSE after[k - Len(upto)]
  <2>1. upto \in Seq(S) /\ after \in Seq(S)
    BY <1>5, <1>7
  <2>2. t \in Seq(S) /\ Len(t) = Len(upto) + Len(after)
    BY <1>8, <2>1, ConcatProperties
  <2>3. \A k \in 1 .. Len(upto) + Len(after) :
           t[k] = IF k <= Len(upto) THEN upto[k] ELSE after[k - Len(upto)]
    BY <1>8, <2>1, ConcatProperties
  <2> QED
    BY <2>2, <2>3
<1>10. PICK a \in Nat, z \in Nat : a = Len(upto) /\ z = Len(after) /\ a = at + 1 /\ z = n - at
  <2>1. at + 1 \in Nat /\ n - at \in Nat
    OBVIOUS
  <2>2. Len(upto) = at + 1 /\ Len(after) = n - at
    BY <1>5, <1>7
  <2> QED
    BY <2>1, <2>2
<1>11. /\ Len(t) = a + z
       /\ \A k \in 1 .. a + z : t[k] = IF k <= a THEN upto[k] ELSE after[k - a]
  BY <1>9, <1>10
<1>12. ASSUME NEW k \in at + 1 .. n PROVE t[k + 1] = s[k]
  <2>1. k + 1 \in 1 .. a + z /\ ~(k + 1 <= a) /\ k + 1 - a = k - at
        /\ k - at \in 1 .. n - at /\ at + (k - at) = k
    BY <1>10
  <2>2. t[k + 1] = after[k - at]
    BY <1>11, <2>1
  <2> QED
    BY <1>5, <2>1, <2>2
<1>13. ASSUME NEW k \in 1 .. at + 1 PROVE t[k] = upto[k]
  <2>1. k \in 1 .. a + z /\ k <= a
    BY <1>10
  <2> QED
    BY <1>11, <2>1
<1>14. DOMAIN t = 1 .. n + 1 /\ Len(t) = n + 1
  BY <1>9, <1>10, <1>11
<1>15. ASSUME NEW k \in 1 .. n + 1, NEW l \in 1 .. n + 1, k > at + 1, k = l + 1 PROVE t[k] = s[l]
  BY <1>12, <1>15
<1>16. t[at + 1] = e /\ \A k \in 1 .. at : t[k] = s[k]
  <2>1. at + 1 \in 1 .. at + 1 /\ \A k \in 1 .. at : k \in 1 .. at + 1
    OBVIOUS
  <2> QED
    BY <1>7, <1>13, <2>1
<1> QED
  BY <1>9, <1>14, <1>15, <1>16

LEMMA AnotherPublished ==
    ASSUME FeedInv, NEW e \in Upcoming, NEW at \in 0 .. Len(published), EventPublished(e, at)
    PROVE  FeedInv'
<1> USE DEF FeedInv
<1>1. PICK n \in Nat : n = Len(published) /\ DOMAIN published = 1 .. n
  BY DEF PublishedKept
<1>2. published \in Seq(Card) /\ e \in Card /\ NoneTwice(published) /\ e \notin ToSet(published)
  BY DEF PublishedKept, Card, EventPublished
<1>3. /\ published' \in Seq(Card) /\ Len(published') = n + 1 /\ DOMAIN published' = 1 .. n + 1
      /\ \A k \in 1 .. at : published'[k] = published[k]
      /\ published'[at + 1] = e
      /\ \A k \in at + 1 .. n : published'[k + 1] = published[k]
  <2>1. n = Len(published) /\ published \in Seq(Card) /\ e \in Card /\ at \in 0 .. n
    BY <1>1, <1>2
  <2>2. published' = InsertAt(published, at + 1, e)
    BY DEF EventPublished
  <2>3. PICK s, t, S, i : s = published /\ t = published' /\ S = Card /\ i = at + 1
    OBVIOUS
  <2>4. s \in Seq(S) /\ e \in S /\ n = Len(s) /\ t = InsertAt(s, i, e)
    BY <2>1, <2>2, <2>3
  <2>5. t \in Seq(S) /\ Len(t) = n + 1 /\ DOMAIN t = 1 .. n + 1
    BY <2>1, <2>3, <2>4, Inserted
  <2>6. t[at + 1] = e
    BY <2>1, <2>3, <2>4, Inserted
  <2>7. \A k \in 1 .. at : t[k] = s[k]
    BY <2>1, <2>3, <2>4, Inserted
  <2>8. \A k, l \in 1 .. n + 1 : k > at + 1 /\ k = l + 1 => t[k] = s[l]
    BY <2>1, <2>3, <2>4, Inserted
  <2>9. ASSUME NEW k \in at + 1 .. n PROVE published'[k + 1] = published[k]
    <3>1. k \in 1 .. n + 1 /\ k + 1 \in 1 .. n + 1 /\ k + 1 > at + 1
      BY <1>1
    <3> QED
      BY <2>3, <2>8, <3>1
  <2> QED
    BY <2>3, <2>5, <2>6, <2>7, <2>9
<1>4. \A k \in 1 .. n + 1 : \/ k \in 1 .. at /\ k \in 1 .. n
                            \/ k = at + 1
                            \/ k - 1 \in at + 1 .. n /\ k - 1 \in 1 .. n /\ k = k - 1 + 1
  BY <1>1
<1>5. \A k \in 1 .. n : published[k] # e
  BY <1>1, <1>2 DEF ToSet
<1>6. ToSet(Published) \subseteq ToSet(published)
  BY DEF PublishedKept, ToSet
<1>7. ASSUME NEW k \in DOMAIN published', published'[k] \in ToSet(Published)
      PROVE  \E j \in DOMAIN published : published[j] = published'[k] /\ j <= k
  <2>1. published'[k] # e
    BY <1>2, <1>6, <1>7
  <2>2. CASE k \in 1 .. at /\ k \in 1 .. n
    BY <1>1, <1>3, <2>2
  <2>3. CASE k - 1 \in at + 1 .. n /\ k - 1 \in 1 .. n /\ k = k - 1 + 1
    <3>1. published'[k] = published[k - 1] /\ k - 1 <= k
      BY <1>3, <2>3
    <3> QED
      BY <1>1, <2>3, <3>1
  <2> QED
    BY <1>3, <1>4, <2>1, <2>2, <2>3
<1>8. ASSUME NEW f, WholeSoFar(f, published) PROVE WholeSoFar(f, published')
  <2>1. (\A k \in DOMAIN published' : k \in Int) /\ (\A k \in DOMAIN published : k \in Int)
    BY <1>1, <1>3
  <2> QED
    BY <1>7, <1>8, <2>1, StaysWhole
<1>9. NoneTwice(published')
  <2>1. ASSUME NEW i \in 1 .. n + 1, NEW j \in 1 .. n + 1, published'[i] = published'[j], i < j
        PROVE  FALSE
    <3>1. ASSUME NEW k \in 1 .. n + 1, published'[k] = e PROVE k = at + 1
      <4>1. CASE k \in 1 .. at /\ k \in 1 .. n
        BY <1>3, <1>5, <3>1, <4>1
      <4>2. CASE k - 1 \in at + 1 .. n /\ k - 1 \in 1 .. n /\ k = k - 1 + 1
        <5>1. published'[k] = published[k - 1]
          BY <1>3, <4>2
        <5> QED
          BY <1>5, <3>1, <4>2, <5>1
      <4> QED
        BY <1>4, <4>1, <4>2
    <3>2. \A k \in 1 .. n + 1 : k # at + 1 =>
             \E l \in 1 .. n : published[l] = published'[k] /\ l = IF k <= at THEN k ELSE k - 1
      <4> SUFFICES ASSUME NEW k \in 1 .. n + 1, k # at + 1
                   PROVE  \E l \in 1 .. n :
                             published[l] = published'[k] /\ l = IF k <= at THEN k ELSE k - 1
        OBVIOUS
      <4>1. CASE k <= at
        <5>1. k \in 1 .. at /\ k \in 1 .. n
          BY <1>1, <4>1
        <5> QED
          BY <1>3, <4>1, <5>1
      <4>2. CASE ~(k <= at)
        <5>1. k - 1 \in at + 1 .. n /\ k - 1 \in 1 .. n /\ k - 1 + 1 = k
          BY <1>1, <4>2
        <5> QED
          BY <1>3, <4>2, <5>1
      <4> QED
        BY <4>1, <4>2
    <3>3. i # at + 1 /\ j # at + 1
      BY <1>1, <1>3, <2>1, <3>1
    <3>4. PICK k \in 1 .. n : published[k] = published'[i] /\ k = IF i <= at THEN i ELSE i - 1
      BY <3>2, <3>3
    <3>5. PICK l \in 1 .. n : published[l] = published'[j] /\ l = IF j <= at THEN j ELSE j - 1
      BY <3>2, <3>3
    <3>6. k = l
      BY <1>1, <1>2, <2>1, <3>4, <3>5 DEF NoneTwice
    <3> QED
      BY <1>1, <2>1, <3>3, <3>4, <3>5, <3>6
  <2>2. \A i, j \in 1 .. n + 1 : i < j \/ j < i \/ i = j
    OBVIOUS
  <2> QED
    BY <1>3, <2>1, <2>2 DEF NoneTwice
<1>10. PublishedKept'
  <2>1. Len(published') >= Len(Published)
    BY <1>1, <1>3, FeedAssumption DEF PublishedKept
  <2>2. ASSUME NEW j \in DOMAIN Published
        PROVE  \E k \in DOMAIN published' :
                  published'[k] = Published[j] /\ k <= j + (Len(published') - Len(Published))
    <3>1. PICK k \in 1 .. n : published[k] = Published[j] /\ k <= j + (n - Len(Published))
      BY <1>1 DEF PublishedKept
    <3>2. j \in Nat /\ Len(Published) \in Nat
      BY FeedAssumption
    <3>3. CASE k \in 1 .. at
      <4>1. k \in DOMAIN published' /\ k <= j + (n + 1 - Len(Published))
        BY <1>1, <1>3, <3>1, <3>2
      <4> QED
        BY <1>3, <3>1, <3>3, <4>1
    <3>4. CASE k \in at + 1 .. n
      <4>1. k + 1 \in DOMAIN published' /\ k + 1 <= j + (n + 1 - Len(Published))
        BY <1>1, <1>3, <3>1, <3>2
      <4>2. PICK l : l = k + 1
        OBVIOUS
      <4>3. published'[l] = Published[j]
        BY <1>3, <3>1, <3>4, <4>2
      <4>4. l <= j + (Len(published') - Len(Published)) /\ l \in DOMAIN published'
        BY <1>3, <4>1, <4>2
      <4> QED
        BY <4>3, <4>4
    <3> QED
      BY <1>1, <3>1, <3>3, <3>4
  <2> QED
    BY <1>3, <1>9, <2>1, <2>2 DEF PublishedKept
<1>11. UNCHANGED <<homes, cachedFeed, storedFeed, firstPages, drain>>
  BY DEF EventPublished
<1>12. HomesKept'
  BY <1>8, <1>11 DEF HomesKept
<1>13. CachesKept' /\ DrainKept'
  BY <1>8, <1>11 DEF CachesKept, DrainKept
<1>14. WaitersKept'
  BY <1>11 DEF WaitersKept
<1> QED
  BY <1>10, <1>12, <1>13, <1>14

LEMMA FeedMoves == FeedInv /\ [FeedNext]_feedVars => FeedInv'
<1> SUFFICES ASSUME FeedInv, [FeedNext]_feedVars PROVE FeedInv'
  OBVIOUS
<1>1. PublishedKept
  BY DEF FeedInv
<1>2. ASSUME NEW r, FirstPageRead(r) PROVE FeedInv'
  BY <1>1, <1>2, FirstIsWhole, FirstAnswered DEF FirstPageRead
<1>3. ASSUME NEW r, FirstPageFallsBack(r) PROVE FeedInv'
  BY <1>1, <1>3, FallbackIsWhole, FirstAnswered DEF FirstPageFallsBack
<1>4. CASE DrainFails
  BY <1>4 DEF DrainFails, FeedInv, PublishedKept, HomesKept, CachesKept, WaitersKept, DrainKept
<1>5. CASE UNCHANGED feedVars
  BY <1>5 DEF feedVars, FeedInv, PublishedKept, HomesKept, CachesKept, WaitersKept, DrainKept
<1> QED
  BY <1>2, <1>3, <1>4, <1>5, HomeVisited, FirstFails, DrainRead, HomeReloaded, HomeStep,
     AnotherPublished DEF FeedNext

\* However pages, first pages and publications overlap, a feed has no event twice and
\* misses none that was there before it was read (mergeFeedPage, reconcileInitialFeed).
THEOREM FeedsAreWhole == FeedSpec => []FeedIsWhole
<1>1. FeedInv => FeedIsWhole
  <2> SUFFICES ASSUME FeedInv PROVE FeedIsWhole
    OBVIOUS
  <2>1. ASSUME NEW f \in Feeds PROVE WholeSoFar(f, published)
    BY DEF Feeds, FeedInv, HomesKept, CachesKept
  <2>2. OneCardEach
    BY <2>1 DEF OneCardEach, WholeSoFar, NoneTwice, IsInjective
  <2>3. ASSUME NEW f \in Feeds, ~f.fallback, NEW j \in DOMAIN Published,
               j + (Len(published) - Len(Published)) <= f.next
        PROVE  Published[j] \in EventsOfFeed(f)
    <3>1. PICK k \in DOMAIN published :
             published[k] = Published[j] /\ k <= j + (Len(published) - Len(Published))
      BY DEF FeedInv, PublishedKept
    <3>2. k \in Nat /\ j \in Nat /\ Len(published) \in Nat /\ Len(Published) \in Nat
          /\ f.next \in Nat
      BY <2>1, FeedAssumption DEF FeedInv, PublishedKept, WholeSoFar, FeedType
    <3>3. k <= f.next /\ published[k] \in ToSet(Published)
      BY <2>3, <3>1, <3>2 DEF ToSet
    <3> QED
      BY <2>1, <2>3, <3>1, <3>3 DEF WholeSoFar, EventsOfFeed
  <2>4. NothingIsSkipped
    BY <2>3 DEF NothingIsSkipped
  <2> QED
    BY <2>2, <2>4 DEF FeedIsWhole
<1> QED
  BY <1>1, FeedStarts, FeedMoves, PTL DEF FeedSpec

=============================================================================
