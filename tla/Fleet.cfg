SPECIFICATION FleetSpec
CONSTANTS
  Workflow = wf
  Resumes = {}
  Reconciles = {c1}
  Approvers = {}
  NoOwner = NoOwner
  Faults = {}
  MaxFaults = 0
  Catalogs <- MCCatalogs
  Proposals <- MCProposals
  Reports <- MCReports
INVARIANTS FleetTypeOK RoutedIsCleared RestoredIsVerified ToldOfChangeWasMade
PROPERTIES DelegationIsEarned WorkflowSpec
CHECK_DEADLOCK FALSE
