CONSTANTS
  Persona = {p1}
  MaxKeys = 2
  Absent = Absent
  OtherScheme = OtherScheme
  Unset = Unset
  Handler = {h1, h2}
  Updates <- MCUpdates
  CommandLines <- MCCommandLines
  MaxStarts = 2
  MaxPuts = 2
CHECK_DEADLOCK FALSE
SPECIFICATION Spec
INVARIANT KeyOutlivesPersonas
INVARIANT CanRestart
INVARIANT ExposureControlled
PROPERTY Stops
