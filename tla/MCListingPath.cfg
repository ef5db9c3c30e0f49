CONSTANTS
  ShortMax = 3
  MidMax = 6
  LongMax = 8
  TypeMax = 2
  TagMax = 8
  TagsMax = 18
  EventMax = 130
  Envelope = 12
  MaxBitrate = 3
  Width = 4
  Skew = 1
  ExpirationOffset = 2
  NULL = NULL
  Bad = Bad
  Now <- MCNow
  Lags <- MCLags
  Raw <- MCRaw
  Foreign <- MCForeign
  Earlier <- MCEarlier
  Mutable <- MCMutable
CHECK_DEADLOCK FALSE
SPECIFICATION Spec
INVARIANT OwnListingSurvives
INVARIANT IndexLineSound
