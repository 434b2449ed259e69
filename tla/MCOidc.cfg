\* Three requests, two flows, a provider that ignores PKCE.
SPECIFICATION OidcSpec
CONSTANTS
  Request = {r1, r2, r3}
  Flow = {f1, f2}
  Identity = {alice, bob}
  NoIdentity = NoIdentity
  Provider = {google}
  Subject = {sam}
  Pkce = {}
  NoProvider = NoProvider
  NoAttempt = NoAttempt
  oidc = oidc
  Method = {oidc}
  Identifier <- Subjects
  Imported <- AliceAtGoogle
  google = google
  sam = sam
  alice = alice
SYMMETRY Interchangeable
CHECK_DEADLOCK FALSE
INVARIANTS
  OidcTypeOK
  SessionsMatchTheirAttempt
  SubjectsKeepTheirIdentity
  SessionsAreForActiveIdentities
  CompletedCallbacksGaveASession
  DeletedProvidersLogNobodyIn
PROPERTY
  KeepsTheOidcPromise
