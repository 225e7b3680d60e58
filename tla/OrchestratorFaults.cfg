SPECIFICATION Spec
CONSTANTS
  Workflow = wf
  Resumes = {}
  Reconciles = {c1}
  Approvers = {}
  NoOwner = NoOwner
  Faults = {"write", "crash", "operator"}
  MaxFaults = 2
SYMMETRY Symmetry
INVARIANTS
  ClosedWithHandover
  UnchangedIsTrueOfUs
  CreditIsEarned
PROPERTIES SpendsAuthorizationOnce
CHECK_DEADLOCK FALSE
