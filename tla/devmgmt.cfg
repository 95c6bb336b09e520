SPECIFICATION Spec
CONSTANTS
  Wrap = 8
  MsPerHour = 2
  CapHours = 3
  MaxHours = 5
INVARIANTS
  KeptStaysOpen
  NotLeftOpen
  OnTime
