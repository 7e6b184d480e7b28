SPECIFICATION Spec
CONSTANTS
  o1 = o1  o2 = o2  o3 = o3  r1 = r1  r2 = r2  r3 = r3  r4 = r4
  NoAccount = NoAccount
  Objects <- MCObjects
  Requests <- MCRequests2
  Names <- MCNames
  Models <- MCModels
  Profiles <- MCProfiles
  Kinds <- AllKinds
  Outcomes <- Renderable
  EnvFiles <- MCReloads
  NewAccounts <- MCNewAccounts
  Patches <- MCPatches
  Strategy = "least-recently-used"
  MaxErrors = 2
  Window = 2
  DequeMax = 4
  ChatMaxRetries = 2
  CapCeiling = 2
  MaxTime = 2
  MaxAdmin = 1
SYMMETRY Symmetric2
INVARIANTS TypeOK SlotAccounting ErrorBudget StatsBalance
PROPERTIES LendsByHeadCount ExhaustedStays
CHECK_DEADLOCK FALSE
