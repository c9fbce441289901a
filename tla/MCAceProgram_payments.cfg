SPECIFICATION Spec
CONSTANTS
  alice = alice
  bob = bob
  Nobody = Nobody
  Wallets = {alice, bob}
  Owners = {alice}
  PaymentIds = {1, 2}
  Recipients <- OneOwnerRecipients
  Amounts = {1, 4}
  Gifts = {}
  Allocations <- EdgeAllocations
  Modes = {0, 1, 2}
  Caps = {0, 4}
  Kinds = {0, 4}
  Priorities = {0, 1}
  InitialLamports <- EdgeLamports
  CONFIG_RENT = 1
  VAULT_RENT = 2
  PAYMENT_RENT = 1
  U64_MAX = 180
  MIN_RESERVE_BPS = 30
  MANUAL_APPROVAL_THRESHOLD_LAMPORTS = 4
  DEFAULT_AI_CAP = 4

INVARIANTS TypeOK VaultAccounting LargePaymentsSignedOff RefundAlwaysPossible
PROPERTIES PaidIsFinal ReserveNeverSpent FloorGatesOptionalOutflow AutopilotSpendsWithinLimits
