SPECIFICATION Spec
CONSTANTS
  alice = alice
  bob = bob
  Nobody = Nobody
  Wallets = {alice, bob}
  Owners = {alice, bob}
  PaymentIds = {1}
  Recipients <- TwoOwnersRecipients
  Amounts = {2}
  Gifts = {1}
  Allocations <- TwoOwnersAllocations
  Modes = {1}
  Caps = {2}
  Kinds = {0}
  Priorities = {1}
  InitialLamports <- TwoOwnersLamports
  CONFIG_RENT = 1
  VAULT_RENT = 2
  PAYMENT_RENT = 1
  U64_MAX = 100000
  MIN_RESERVE_BPS = 1500
  MANUAL_APPROVAL_THRESHOLD_LAMPORTS = 4
  DEFAULT_AI_CAP = 4
INVARIANTS VaultSolvent SupplyConserved
PROPERTIES ImplementsEscrow
CHECK_DEADLOCK FALSE
