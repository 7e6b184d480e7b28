SPECIFICATION Spec
CONSTANTS
  o1 = o1  o2 = o2  o3 = o3  r1 = r1  r2 = r2  r3 = r3  r4 = r4
  NoAccount = NoAccount
  Objects <- MCObjects
  Requests <- MCRequests4
  Names <- MCNames
  Models <- MCModels
  Profiles <- MCProfiles
  Kinds <- BlockingText
  Outcomes <- TwoOutcomes
  EnvFiles <- MCWide
  NewAccounts <- MCNewAccounts
  Patches <- MCPatches
  Strategy = "least-recently-used"
  MaxErrors = 2
  Window = 2
  DequeMax = 4
  ChatMaxRetries = 1
  CapCeiling = 2
  MaxTime = 1
  MaxAdmin = 0
INVARIANTS CeilingHolds
CHECK_DEADLOCK FALSE
