\* Two incidents in a row.
SPECIFICATION HealthSpec
CONSTANTS
  Incidents = {"p1","p2"}
  None = "none"
  Reporters = {"source"}
  Monitor = "monitor"
  MaxChanges = 4
  MaxRefusals = 2
  MaxStops = 1
INVARIANT HealthTypeOK
INVARIANT Announced
CHECK_DEADLOCK FALSE
