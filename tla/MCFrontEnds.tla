------------------------------ MODULE MCFrontEnds ------------------------------
(***************************************************************************)
(* The two front ends for TLC.  Their parts share the types of Site and no *)
(* state a property speaks of, so a behaviour follows one part, its focus, *)
(* and leaves the others as they are when a tab has just been opened.  A   *)
(* run names the parts it follows in Focuses.                              *)
(***************************************************************************)
EXTENDS MarketScreen, ChartPanel, Comments, TradePanel, Balances, SignIn, HomeFeed,
        Browse, AdminCreation, AdminBar, AdminDetail, TLC

CONSTANTS Focuses,
          e1, e2, e3, e4, m1, m2, m3, ada, ben, cleo, wallet1, wallet2

VARIABLE focus

vars == <<focus, screenVars, chartVars, sectionVars, tradeVars, balanceVars, signInVars,
          feedVars, browseVars, creationVars, adminVars, barVars, detailVars>>

(***************************************************************************)
(* Values of the constants.  The first event has two markets, the second   *)
(* has one; two users have a wallet, the third has none.                   *)
(***************************************************************************)
MCEventOf == (m1 :> e1) @@ (m2 :> e1) @@ (m3 :> e2)
MCRank == (m1 :> 1) @@ (m2 :> 2) @@ (m3 :> 1)

\* A browser that opens the event page with nothing stored, or after a visit of
\* the home page and of the second market.
MCEmpty == [preferred |-> [e \in Event |-> None],
            snapshots |-> [e \in Event |-> <<>>], liquidity |-> {}, feed |-> {}]
MCStores == {MCEmpty, [MCEmpty EXCEPT !.feed = {m1, m2}, !.preferred[e1] = m2,
                                      !.liquidity = {m2}]}

\* A page's side reads are followed a few at a time, or not at all.
MCFollowed == {{"liquidity"}, {"comments"}, {"orderbook"}, {"history", "resolution"},
               {"related"}, {"activity"}}
MCNotFollowed == {{}}

\* These are read as comments are.
MCAlike == {{"related"}, {"activity"}}

\* An admin tab that knows nothing, or has a home feed that lists one market of
\* the first event, and has shown both of its markets before.
MCNoPages == [feed |-> {}, preferred |-> [e \in Event |-> None],
              snapshots |-> [e \in Event |-> [markets |-> {}, bare |-> {}]]]
MCAdminStores == {MCNoPages, [MCNoPages EXCEPT !.feed = {m2}, !.preferred[e1] = m1]}

MCWindow == [r \in ChartRange |-> IF r = "1D" THEN 1 ELSE None]
\* A history may be empty, out of time order, with two midpoints of an instant
\* or with a price that is none.
MCHistories ==
    {[mids |-> <<>>, points |-> <<>>],
     [mids |-> <<>>, points |-> <<[outcome |-> 1, t |-> 1, price |-> 3]>>],
     [mids |-> <<[t |-> 2, price |-> 2], [t |-> 0, price |-> 1], [t |-> 2, price |-> 0]>>,
      points |-> <<>>]}
MCPageHistories == {None, [mids |-> <<>>, points |-> <<[outcome |-> 0, t |-> 1, price |-> 1]>>]}
MCTrades == {<<>>, <<[t |-> 2, yes |-> 2, no |-> 0], [t |-> 0, yes |-> 1, no |-> 1]>>}

\* Two wallet extensions, which a page may announce, hold as globals, or both.
P1 == [name |-> "p1", kind |-> "metamask"]
P2 == [name |-> "p2", kind |-> "rabby"]
MCProviders == {P1, P2}
MCPages == {[details |-> <<>>, globals |-> {}],
            [details |-> <<>>, globals |-> {[provider |-> P1, nested |-> <<>>]}],
            [details |-> <<[provider |-> P1, kind |-> None, rdns |-> "r"],
                           [provider |-> P2, kind |-> None, rdns |-> "r"]>>,
             globals |-> {}],
            [details |-> <<[provider |-> P2, kind |-> "brave", rdns |-> None]>>,
             globals |-> {[provider |-> P1, nested |-> <<P1, P2>>]}]}
MCAccounts == {<<>>, <<wallet1>>, <<wallet2, wallet1>>}
MCSessions == {[wallet |-> wallet1, chained |-> TRUE], [wallet |-> wallet2, chained |-> FALSE]}
MCAmounts == {None, [units |-> 2, whole |-> FALSE], [units |-> 40, whole |-> TRUE]}
MCPrepared == {<<>>, <<"approval", "trade">>}

MCWalletOf == (ada :> wallet1) @@ (ben :> wallet2) @@ (cleo :> None)

MCPublished == <<e1, e2, e3>>

MCOrder == (m1 :> 2) @@ (m2 :> 1) @@ (m3 :> 1)
MCFound == {<<>>, <<m1, m3, m2>>}
MCParams == {[feed |-> "new", category |-> None, tag |-> None],
             [feed |-> "tag", category |-> None, tag |-> "iran"],
             [feed |-> "category", category |-> "iran", tag |-> None],
             [feed |-> "category", category |-> None, tag |-> None]}
MCTopic == {[label |-> "Iran", categories |-> {"iran"}, tags |-> {"iran", "persia"}]}
MCStoredEvents == {{"featured"}, {"iran"}}

(***************************************************************************)
(* One part moves.                                                         *)
(***************************************************************************)
Init ==
    /\ focus \in Focuses
    /\ ScreenInit
    /\ focus = "event_page" \/ (/\ address = e1
                                /\ followed = CHOOSE kinds \in FollowedKinds : TRUE
                                /\ cache = FreshCache(MCEmpty, followed))
    /\ followed \in MCAlike => address = e1 /\ cache = FreshCache(MCEmpty, followed)
    /\ ChartInit    /\ chart.market = m1 /\ (focus = "chart" \/ chart.seed = None)
    /\ SectionInit  /\ (focus = "comments" \/ (section.market = m1 /\ ~section.signed))
    /\ TradeInit    /\ (focus = "trade" \/ (/\ tradeSession = None
                                            /\ \A p \in Provider : accounts[p] = <<>>))
    /\ BalancesInit /\ stored = (IF focus = "balances" THEN ada ELSE None)
    /\ SignInInit   /\ (focus = "sign_in" \/ session = None)
    /\ FeedInit
    /\ BrowseInit   /\ (focus = "browsing" \/ kind = "search")
    /\ CreationInit /\ server[e2] = None /\ (focus = "creation" \/ server[e1] = None)
    /\ AdminInit    /\ (focus = "admin_session" \/ token = None)
    /\ BarInit
    /\ AdminDetailInit
    /\ place.event = e1 /\ (focus = "admin_event" \/ pages.store.feed = {})

Rests(part, partVars) == IF focus = part THEN TRUE ELSE UNCHANGED partVars

OthersRest ==
    /\ UNCHANGED focus
    /\ Rests("event_page", screenVars)
    /\ Rests("chart", chartVars)
    /\ Rests("comments", sectionVars)
    /\ Rests("trade", tradeVars)
    /\ Rests("balances", balanceVars)
    /\ Rests("sign_in", signInVars)
    /\ Rests("home", feedVars)
    /\ Rests("browsing", browseVars)
    /\ Rests("creation", creationVars)
    /\ Rests("admin_session", adminVars)
    /\ Rests("admin_bar", barVars)
    /\ Rests("admin_event", detailVars)

Next ==
    /\ OthersRest
    /\ \/ focus = "event_page"    /\ ScreenNext
       \/ focus = "chart"         /\ ChartNext
       \/ focus = "comments"      /\ SectionNext
       \/ focus = "trade"         /\ TradeNext
       \/ focus = "balances"      /\ BalancesNext
       \/ focus = "sign_in"       /\ SignInNext
       \/ focus = "home"          /\ FeedNext
       \/ focus = "browsing"      /\ BrowseNext
       \/ focus = "creation"      /\ CreationNext
       \/ focus = "admin_session" /\ AdminNext
       \/ focus = "admin_bar"     /\ BarNext
       \/ focus = "admin_event"   /\ AdminDetailNext

Spec == Init /\ [][Next]_vars

\* What is under way is not started again: reads of a resource, submissions of
\* the creation modal, sign-ins of a dialog and posts of a comment.
OneAtATime ==
    SingleFlight /\ OneSubmissionAtATime /\ OneSignInAtATime /\ OneCommentAtATime

\* ScreenFairness and SignInFairness, each of the part that moves.
Answers ==
    /\ OthersRest
    /\ \/ focus = "event_page" /\ (Mount \/ ScreenAnswer)
       \/ focus = "sign_in"    /\ SignInAnswer

LiveSpec == Spec /\ WF_vars(Answers)

=============================================================================
