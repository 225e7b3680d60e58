SPECIFICATION FairSpec
CONSTANTS
  Workflow = wf
  Resumes = {}
  Reconciles = {c1}
  Approvers = {}
  NoOwner = NoOwner
  Faults = {}
  MaxFaults = 0
PROPERTIES ChangeIsAccountedFor
CHECK_DEADLOCK FALSE
