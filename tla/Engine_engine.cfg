SPECIFICATION EitherSpec
CONSTANTS
  Near = 3
  NearRange = 4
  SwingLookback = 100
  ShortestWindow = 12
  Absent = Absent
  Markets <- MCMarkets
  Ticks <- MCTicks
  RuleSets <- MCRuleSets
  Moments <- MCMoments
  Ceiling = 4000
  LongMarket = 20
  QuietSteps = {40150, 40190}
  MaxMinutes = 3
 
INVARIANT CacheIsTransparent
INVARIANT ReadyMeansItFires
INVARIANT ReplayIsLive
CHECK_DEADLOCK FALSE
