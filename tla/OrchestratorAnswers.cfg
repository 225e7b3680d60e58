SPECIFICATION Spec
CONSTANTS
  Workflow = wf
  Resumes = {r1, r2}
  Reconciles = {}
  Approvers = {a1, a2}
  NoOwner = NoOwner
  Faults = {"write", "crash", "operator"}
  MaxFaults = 1
SYMMETRY Symmetry
INVARIANTS
  TypeOK
  OnlyAuthorizedEffects
  NothingStranded
CHECK_DEADLOCK FALSE
