SPECIFICATION Spec
CONSTANTS
  alice = alice
  bob = bob
  mainnet = mainnet
  devnet = devnet
  one = one
  two = two
  NoWallet = NoWallet
  Wallets = {alice, bob}
  Networks = {mainnet, devnet}
  Slots = {one, two}
  MaxActs = 3
INVARIANT NoNetworkLeak
CHECK_DEADLOCK FALSE
