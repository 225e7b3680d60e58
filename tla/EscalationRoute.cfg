SPECIFICATION RouteSpec
INVARIANTS
  HistoryIsCoherent
  RouteIsShortest
  EscalationIsAlwaysPossible
PROPERTY ExecutesOnce
CHECK_DEADLOCK FALSE
