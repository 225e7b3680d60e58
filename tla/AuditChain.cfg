SPECIFICATION Spec
CONSTANTS
  Writers = {w1, w2, w3}
  Targets = {"INVESTIGATING", "ESCALATED"}
  MaxAttempts = 2
INVARIANTS TrailVerifies DamageShows ReadIsAccountedFor AuditedWrites
PROPERTY HistoryIsRecorded
SYMMETRY Symmetry
CHECK_DEADLOCK FALSE
