CONSTANTS
  r1 = r1  r2 = r2  r3 = r3
  Revisions = {r1, r2, r3}
  NoRevision = none
  Services <- MCServices
  WellBodies <- MCWellBodies
  SickBodies <- MCSickBodies
  JsonValues <- MCJsonValues
  Garbage <- MCGarbage
  Claimable = {"dispatch_web", "dispatch_db", "elsewhere"}
  MAX_HEALTH_DEPTH = 2
  MAX_TOOL_CALLS = 12
  ADMIN_CALL_TIMEOUT = 10
  PROBE_TIMEOUT = 8
  CONFIRM_UNHEALTHY_AFTER_SECONDS = 3
  HEADROOM = 5
  OVERRUN = 0
  CALL_TIMEOUT = 60
SPECIFICATION Spec
INVARIANT BudgetCoversTheWork
CHECK_DEADLOCK FALSE
