\* Three requests, two issuers; no symmetry, for liveness.
SPECIFICATION FairCache
CONSTANTS
  Request = {r1, r2, r3}
  Issuer = {google, github}
  Nobody = Nobody
CHECK_DEADLOCK FALSE
INVARIANTS
  WriterIsAlone
  FetchesOnlyWhatIsMissing
PROPERTIES
  IsAMemo
  CallsReturn
