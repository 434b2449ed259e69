\* Three requests on one flow, two identities.
SPECIFICATION LoginSpec
CONSTANTS
  Request = {r1, r2, r3}
  Flow = {f1}
  Identity = {alice, bob}
  NoIdentity = NoIdentity
  password = password
  otp = otp
  Method <- MCMethod
  Enrolled <- MCEnrolled
  Policy <- MCPolicies
SYMMETRY Interchangeable
INVARIANTS
  LoginTypeOK
  AAL2NeedsBothFactors
  AAL1OnlyWithoutMFA
  WaitingRowsNameTheirOwner
  FactorsWereAllowed
  LateRequestsGetNothing
  ForeignFlowsAreLeftAlone
  HydraAcceptsIssuedLogins
PROPERTY
  KeepsThePromise
