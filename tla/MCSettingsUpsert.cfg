\* One submission by an identity without a password.
SPECIFICATION SettingsSpec
CONSTANTS
  Request = {r1, r2}
  Flow = {f1}
  Identity = {alice, bob}
  NoIdentity = NoIdentity
  Session = {s1}
  Method = {password}
  Identifier = {home, work}
  Imported <- BobHasOne
  password = password
  alice = alice
  bob = bob
  home = home
  work = work
SYMMETRY RequestsAlike
CHECK_DEADLOCK FALSE
INVARIANT
  OnlyOwnCredentialsAreReplaced
