SPECIFICATION FleetSpec
CONSTANTS
  Workflow = wf
  Resumes = {}
  Reconciles = {}
  Approvers = {}
  NoOwner = NoOwner
  Faults = {}
  MaxFaults = 0
  Catalogs <- MCCatalogs
  Proposals <- MCProposals
  Reports <- MCReports
INVARIANT UnchangedIsTrue
CHECK_DEADLOCK FALSE
