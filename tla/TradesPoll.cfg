SPECIFICATION LiveSpec
CONSTANTS
  hot = hot
  quiet = quiet
  Tickers = {hot, quiet}
  LastDay = 2
  Trades <- MCTrades
  BackoffMax = 2
  MaxFaults = 1
  Watchlists = {{quiet}, {hot, quiet}}
INVARIANTS
  NeverGaps
  OnceUnlessRewound
  OutageSurfaces
PROPERTY TradesArrive
