CONSTANTS
  NSEC = 3
  NsecRange = 6
  TimeRange = 4
  Instants <- SecondsRound
SPECIFICATION IntervalSpec
INVARIANT IntervalShown
