SPECIFICATION Spec
CONSTANTS
  d1 = d1  d2 = d2  f1 = f1  i1 = i1  w1 = w1
  r1 = r1  r2 = r2  r3 = r3  good = good  bad = bad
  NoOwner = NoOwner
  Split = Split
  NoSource = NoSource
  Workers = {w1}
  Decisions = {d1, d2}
  Fingerprints = {f1}
  Incidents = {i1}
  Requests = {r1, r2}
  Closers = {}
  Revisions = {good}
  AutoAllowed = {}
  ApprovalRequired = {d1, d2}
  FingerprintOf <- MCFingerprintOf
  IncidentOf <- MCIncidentOf
  Authorized <- MCAuthorized
  ExpectedSource <- MCNoSource
  WorkerOf <- MCOneWorker
SYMMETRY Symmetry
INVARIANTS
  AtMostOneEffect
  UnattemptedIsUntouched
  EpochsAreExclusive
  NoUnapprovedMutation
