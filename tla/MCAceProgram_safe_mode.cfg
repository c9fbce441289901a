SPECIFICATION Spec
CONSTANTS
  alice = alice
  bob = bob
  Nobody = Nobody
  Wallets = {alice, bob}
  Owners = {alice}
  PaymentIds = {1}
  Recipients <- OneOwnerRecipients
  Amounts = {1, 4, 10}
  Gifts = {}
  Allocations <- BalancedAllocations
  Modes = {0, 1}
  Caps = {1}
  Kinds = {0}
  Priorities = {0, 1}
  InitialLamports <- OneOwnerLamports
  CONFIG_RENT = 1
  VAULT_RENT = 2
  PAYMENT_RENT = 1
  U64_MAX = 100000
  MIN_RESERVE_BPS = 1500
  MANUAL_APPROVAL_THRESHOLD_LAMPORTS = 4
  DEFAULT_AI_CAP = 4

PROPERTIES SafeModeNeedsApproval
