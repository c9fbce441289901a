SPECIFICATION Spec
CONSTANTS
  next = next
  fastify = fastify
  r1 = r1
  r2 = r2
  bill = bill
  rent = rent
  agent = agent
  NoPayment = NoPayment
  Requests = {r1, r2}
  Servers = {next, fastify}
  server <- OneSlotEach
  Payments = {bill, rent, agent}
  info <- BillsAndCall
  Existing = {bill, rent}
  TopUps = {10}
  Stakes = {11}
  Allocation <- DefaultAllocation
  OpeningTotal = 20
  HourlyYield = 1
  MANUAL_APPROVAL_ABOVE = 2
  MaxHour = 1
  MaxCalls = 3
  MaxCrashes = 1
INVARIANTS PaidOnce
SYMMETRY EitherServer
CHECK_DEADLOCK FALSE
