SPECIFICATION Spec
CONSTANTS
  alice = alice
  bob = bob
  shop = shop
  usdc = usdc
  nft = nft
  NoWallet = NoWallet
  Wallets = {alice, bob}
  UserWallet = alice
  Addresses = {alice, bob, shop}
  MaxSig = 5
  Raw <- MCRaw
  Time <- MCTime
  Prices <- MCPrices
  SolPrice = 3
  MinSol = 2
  MinUsd = 2
  Ranges = {"month", "all"}
  Days <- MCDays
  Buckets <- MCBuckets
  Now = 100
  Day = 2
  MaxBars = 5
  Stablecoins = {usdc}
  UserVaultUsd = 50
  All = "all"
  Short = {"month"}
  Longer = "all"
  ScanRange = "month"
  SampleLimit = 4
  Month = "month"
  Tags = {"payroll", "saas"}
  PageSize = 2
  Pages = 3
  PublicPages = 2
  MaxRetries = 1
  RowLimit = 3
  Runs = {1, 2}
  MaxActs = 3
INVARIANTS TreasuryTypeOK NoHoles ScanComplete ReportAgrees
PROPERTIES SumsAreExact TagSurvives SpinnersEnd
CHECK_DEADLOCK FALSE
