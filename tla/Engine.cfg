SPECIFICATION FairSpec
CONSTANTS
  t1 = t1
  t2 = t2
  t3 = t3
  sh1 = sh1
  sh2 = sh2
  k = k
  fa = fa
  fb = fb
  Requests = {r1, r2}
  Texts = {t1, t2, t3}
  Shapes = {sh1, sh2}
  PQKeys = {k}
  Calls <- MCCalls
  NameOf <- MCNameOf
  Anon <- AnonRole
  User <- UserRole
  UserRoles <- MCUserRoles
  Rejected <- MCRejected
  Remotes <- MCRemotes
  Gql <- MCGql
  Json <- MCJson
  Modes = {"dev", "prod", "open"}
  Faults = TRUE
  MaxEngines = 2
  MaxSchema = 1
  None = None
  Torn = Torn
INVARIANTS
  OwnStatement
  AllowListed
  RemoteErrorsShow
  SavedInOrder
PROPERTIES
  CompiledOnce
  RequestsEnd
CHECK_DEADLOCK FALSE
