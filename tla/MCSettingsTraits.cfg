\* Two submissions by one identity, after one that opens the flow.
SPECIFICATION SettingsSpec
CONSTANTS
  Request = {r1, r2, r3}
  Flow = {f1}
  Identity = {alice, bob}
  NoIdentity = NoIdentity
  Session = {s1}
  Method = {password}
  Identifier = {home, work}
  Imported <- AliceHasOne
  password = password
  alice = alice
  bob = bob
  home = home
  work = work
SYMMETRY RequestsAlike
CHECK_DEADLOCK FALSE
PROPERTY
  OtherFieldsAreKept
