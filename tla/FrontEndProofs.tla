----------------------------- MODULE FrontEndProofs -----------------------------
(***************************************************************************)
(* The two front ends together.  A behaviour of MCFrontEnds is one of each *)
(* of their parts, so that what is proved of a part, for its own           *)
(* specification, holds of all of them side by side: for any values of the *)
(* constants, what TLC's run of the front ends checks for small ones.      *)
(***************************************************************************)
EXTENDS MCFrontEnds, ScreenProofs, PageProofs, AccountProofs

\* Each part begins as it does alone.
LEMMA PartsBegin ==
    Init => /\ ScreenInit /\ ChartInit /\ SectionInit /\ TradeInit /\ BalancesInit
            /\ SignInInit /\ FeedInit /\ BrowseInit /\ CreationInit /\ AdminInit
            /\ BarInit /\ AdminDetailInit
BY DEF Init

\* A step of the whole is a step of its focus, and every other part rests.
LEMMA PartsStep ==
    ASSUME [Next]_vars
    PROVE  /\ [ScreenNext]_screenVars   /\ [ChartNext]_chartVars
           /\ [SectionNext]_sectionVars /\ [TradeNext]_tradeVars
           /\ [BalancesNext]_balanceVars /\ [SignInNext]_signInVars
           /\ [FeedNext]_feedVars       /\ [BrowseNext]_browseVars
           /\ [CreationNext]_creationVars /\ [AdminNext]_adminVars
           /\ [BarNext]_barVars         /\ [AdminDetailNext]_detailVars
<1>1. CASE UNCHANGED vars
  BY <1>1 DEF vars
<1>2. CASE Next
  <2>1. OthersRest
    BY <1>2 DEF Next
  <2>2. [ScreenNext]_screenVars
    BY <1>2, <2>1 DEF Next, OthersRest, Rests
  <2>3. [ChartNext]_chartVars
    BY <1>2, <2>1 DEF Next, OthersRest, Rests
  <2>4. [SectionNext]_sectionVars
    BY <1>2, <2>1 DEF Next, OthersRest, Rests
  <2>5. [TradeNext]_tradeVars
    BY <1>2, <2>1 DEF Next, OthersRest, Rests
  <2>6. [BalancesNext]_balanceVars
    BY <1>2, <2>1 DEF Next, OthersRest, Rests
  <2>7. [SignInNext]_signInVars
    BY <1>2, <2>1 DEF Next, OthersRest, Rests
  <2>8. [FeedNext]_feedVars
    BY <1>2, <2>1 DEF Next, OthersRest, Rests
  <2>9. [BrowseNext]_browseVars
    BY <1>2, <2>1 DEF Next, OthersRest, Rests
  <2>10. [CreationNext]_creationVars
    BY <1>2, <2>1 DEF Next, OthersRest, Rests
  <2>11. [AdminNext]_adminVars
    BY <1>2, <2>1 DEF Next, OthersRest, Rests
  <2>12. [BarNext]_barVars
    BY <1>2, <2>1 DEF Next, OthersRest, Rests
  <2>13. [AdminDetailNext]_detailVars
    BY <1>2, <2>1 DEF Next, OthersRest, Rests
  <2> QED
    BY <2>2, <2>3, <2>4, <2>5, <2>6, <2>7, <2>8, <2>9, <2>10, <2>11, <2>12, <2>13
<1> QED
  BY <1>1, <1>2

\* A behaviour of the whole is a behaviour of the public site's event page, of its
\* chart, and so on: no part is moved but by its own handlers.
THEOREM PartsBehave ==
    Spec => /\ ScreenSpec /\ ChartSpec /\ SectionSpec /\ TradeSpec /\ BalancesSpec
            /\ SignInSpec /\ FeedSpec /\ BrowseSpec /\ CreationSpec /\ AdminSpec
            /\ BarSpec /\ AdminDetailSpec
BY PartsBegin, PartsStep, PTL
DEF Spec, ScreenSpec, ChartSpec, SectionSpec, TradeSpec, BalancesSpec, SignInSpec, FeedSpec,
    BrowseSpec, CreationSpec, AdminSpec, BarSpec, AdminDetailSpec

\* Whatever overlaps, no read of a resource, no submission of the creation modal,
\* no sign-in of a dialog and no post of a comment is started while it is under way.
THEOREM NothingTwice == Spec => []OneAtATime
<1>1. SingleFlight /\ OneSubmissionAtATime /\ OneSignInAtATime /\ OneCommentAtATime
        => OneAtATime
  BY DEF OneAtATime
<1> QED
  BY <1>1, PartsBehave, ReadsAreNotDoubled, SubmissionsOneByOne, SignInsOneByOne,
     CommentsOneByOne, PTL

\* What is shown, sent and kept belongs to what is addressed, selected or signed
\* in, in every part of the two sites.
THEOREM FrontEndsAgree ==
    Spec => /\ []ShowsWhatIsAddressed /\ []ChartIsOfItsMarket /\ []EveryCommentOnce
            /\ []TradesAreTheUsers /\ []BalancesAreOfTheAccount /\ []GoogleCredentialIsOwn
            /\ []FeedIsWhole /\ []ShowsWhatIsAsked /\ []AccountsAreNotMixed
            /\ []OperatesOnWhatWasOpened /\ HydrationOnlyAdds /\ KeepsItsEvent
BY PartsBehave, PageIsOfItsAddress, ChartDrawsItsMarket, CommentsListedOnce,
   TradesAreOfTheUser, BalancesAgree, CredentialsAreOwn, FeedsAreWhole, PagesAnswer,
   AccountsKeptApart, OperationsGoWhereOpened, WhatIsShownStays, InstancesKeepTheirEvent, PTL
=============================================================================
