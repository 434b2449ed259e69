\* Two registrations with a method that names its credentials itself.
SPECIFICATION AccountsSpec
CONSTANTS
  Request = {r1, r2}
  Flow = {f1, f2}
  Identity = {alice, bob}
  NoIdentity = NoIdentity
  NoToken = NoToken
  Method = {device}
  Identifier = {email, phone}
  Imported <- Nobody
  Linked = {}
  RequireVerification = {TRUE, FALSE}
  External = {device}
  alice = alice
  bob = bob
  password = password
  device = device
  email = email
  phone = phone
CHECK_DEADLOCK FALSE
INVARIANT
  IdentifiersNameOneIdentity
