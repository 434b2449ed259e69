\* Three requests with two sessions on one flow.
SPECIFICATION SettingsSpec
CONSTANTS
  Request = {r1, r2, r3}
  Flow = {f1}
  Identity = {alice, bob}
  NoIdentity = NoIdentity
  Session = {s1, s2}
  Method = {password}
  Identifier = {home}
  Imported <- AliceHasOne
  password = password
  alice = alice
  bob = bob
  home = home
  work = work
SYMMETRY RequestsAlike
CHECK_DEADLOCK FALSE
INVARIANTS
  SettingsTypeOK
  DeadSessionsChangeNothing
  SuccessMeansChanged
  OneIdentityPerFlow
