SPECIFICATION Spec
CONSTANTS
  bill = bill
  rent = rent
  hunch = hunch
  event = event
  NoItem = NoItem
  Stake = Stake
  Deposit = Deposit
  Items = {bill, rent, hunch, event}
  Info <- Obligations
  Opening <- Hundred
  Inputs <- Typed
  Deposits = {10}
  Withdrawals = {1400}
  Stakes = {5500}
  Days = {0, 8}
  Slots = {1, 2}
  MaxActs = 2
  MaxMounts = 3
INVARIANTS PagesTypeOK BusyIsOneChain BackedByTransfers ShieldingIsUnderWay BucketsHoldTotal
PROPERTIES TimeOnlyPresses BusyEnds
CHECK_DEADLOCK FALSE
