\* Four requests on one recovery flow and two accounts.
SPECIFICATION AccountsSpec
CONSTANTS
  Request = {r1, r2, r3, r4}
  Flow = {f1}
  Identity = {alice, bob}
  NoIdentity = NoIdentity
  NoToken = NoToken
  Method = {password}
  Identifier = {email, phone}
  Imported <- TwoAccounts
  Linked = {bob}
  RequireVerification = {TRUE, FALSE}
  External = {}
  alice = alice
  bob = bob
  password = password
  device = device
  email = email
  phone = phone
SYMMETRY RequestsAlike
CHECK_DEADLOCK FALSE
INVARIANTS
  RecoverySessionsWereProved
  RecoveredFlowsGaveASession
