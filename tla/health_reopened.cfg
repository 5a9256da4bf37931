\* An incident that is over and comes back without a probe in between.
SPECIFICATION HealthSpec
CONSTANTS
  Incidents = {"active"}
  None = "none"
  Reporters = {"source"}
  Monitor = "monitor"
  MaxChanges = 3
  MaxRefusals = 1
  MaxStops = 1
PROPERTY OccurrenceTold
CHECK_DEADLOCK FALSE
