\* One request after another on one flow of any type.
SPECIFICATION OidcSpec
CONSTANTS
  Request = {r1, r2}
  Flow = {f1}
  Identity = {alice, bob}
  NoIdentity = NoIdentity
  Provider = {google}
  Subject = {sam}
  Pkce = {}
  NoProvider = NoProvider
  NoAttempt = NoAttempt
  oidc = oidc
  Method = {oidc}
  Identifier <- Subjects
  Imported <- AliceAtGoogle
  google = google
  sam = sam
  alice = alice
CHECK_DEADLOCK FALSE
INVARIANT
  OnlyLoginFlowsHoldAttempts
