\* Three requests: registrations and verifications of new accounts.
SPECIFICATION AccountsSpec
CONSTANTS
  Request = {r1, r2, r3}
  Flow = {f1, f2}
  Identity = {alice, bob}
  NoIdentity = NoIdentity
  NoToken = NoToken
  Method = {password}
  Identifier = {email}
  Imported <- Nobody
  Linked = {}
  RequireVerification = {TRUE, FALSE}
  External = {}
  alice = alice
  bob = bob
  password = password
  device = device
  email = email
  phone = phone
SYMMETRY RequestsAndIdentitiesAlike
CHECK_DEADLOCK FALSE
INVARIANTS
  TokenTypeOK
  ActiveAccountsWereProved
  SessionsAreForActiveAccounts
  RegisteredAccountsHaveCredentials
  IdentifiersNameOneIdentity
  TokensStayWithTheirOwner
PROPERTIES
  KeepsTheAccountsPromise
