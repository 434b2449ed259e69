\* The instance of MCMigrate.cfg: one password, whose hash is of another algorithm.
SPECIFICATION MigrationSpec
CONSTANTS
  Run = {m1, m2}
  Newcomer = {r1}
  Person = {ann, ben}
  AtFirst = {ann}
  Inactive = {ben}
  Identity <- Ids
  NoIdentity = NoIdentity
  Method = {password, oidc}
  Identifier <- Names
  password = password
  oidc = oidc
  PasswordOf <- Passwords
  HashOf <- Hashes
  EntriesOf <- Entries
  KratosProvider = {corp, lab, old}
  Configured = {corp, lab}
  ListedAt <- InOrder
  Kind <- Kinds
  Subject = {sam}
  Email = {annsMail}
  Token = {annsToken}
  Holder <- Holders
  Enabled = {password, oidc}
  admin = admin
  ByHand = {corp}
  Wishes <- Asked
  Deletable <- RowsOfRuns
  Interventions = 1
  Nobody = Nobody
  ann = ann
  ben = ben
  annsMail = annsMail
  corp = corp
  lab = lab
  old = old
  sam = sam
  annsToken = annsToken
SYMMETRY Interchangeable
CHECK_DEADLOCK FALSE
INVARIANT
  PasswordsCanBeChecked
