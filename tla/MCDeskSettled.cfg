SPECIFICATION Spec
CONSTANTS
  Symbol <- MCSymbol
  Contract <- MCContract
  Ticker <- MCTicker
  Scene <- MCScene
  Time <- MCOneDay
  Start <- MCMorning
  ListedDays = 2
  Underlying <- MCUnderlying
  MinSamples = 1
  MaxAnswers = 2
  Directional <- MCDirectional
  Vertical <- MCVertical
  Straddle <- MCStraddle
  LotValue <- MCLotValue
  Slots <- MCSlots
  Account <- MCAccount
  Limits <- MCLimits
  Concurrency <- MCConcurrency
  Window <- MCWindow
  ForceClose <- MCForceClose
  WholeUnit = 10
  Spots <- MCSpots
  Signals <- MCSignals
  Silences <- MCSilences
  Navs <- MCNavs
  Settles <- MCSettles
  Slips <- MCSlips
  Books <- MCNoTrades
  DryRun = FALSE
  MaxTicks = 2
INVARIANTS
  SettledIsClosing
