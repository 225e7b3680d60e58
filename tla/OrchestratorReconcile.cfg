SPECIFICATION FairSpec
CONSTANTS
  Workflow = wf
  Resumes = {r1}
  Reconciles = {c1}
  Approvers = {a1}
  NoOwner = NoOwner
  Faults = {}
  MaxFaults = 0
INVARIANT ResolvedIsVerified
PROPERTIES ComesToRest
CHECK_DEADLOCK FALSE
