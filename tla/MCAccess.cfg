\* Two requests at once in each of the four.
CONSTANTS
  ann = ann
  bob = bob
  cem = cem
  dee = dee
  People = {ann, bob, cem, dee}
  Operator = Operator
  Nobody = Nobody
  Posts = {q1, q2}
  ScanOrder <- ScanOrderDef
  StartAccounts = {ann, bob, cem}
  StartRole <- StartRoleDef
  Offers <- OffersDef
  InviteIds = {1}
  ClaimIds = {1}
  MaxOpen = 1
  Browsers = {b1}
  Attempts = {a1, a2}
  Window = 1
  MaxFailures = 1
  Secrets = {1}
  Codes = {11}
  CodeCount = 1
  MaxPassword = 0
  MaxLost = 1
  Grants = {g1}
  Visits = {v1, v2}
  MaxTokens = 2
  RequestTTL = 1
  SessionTTL = 1
  OpenFor = 1
  NoGrant = NoGrant
  operator1 = operator1
  half1 = half1
  NoRow = NoRow
  NoOne = NoOne
  Bad = Bad
  Requests = {r1, r2}
  GateWindow = 1
  MaxWrong = 1
  MaxQueued = 2
  GrantLifetime = 1
  Keys = {"privacy.ip_storage", "logs.retention_days", "collector.blocked_countries", "panel.cards", "panel.breakdowns"}
  Sites = {"s1"}
  Operators = {operator1, half1}
  Superadmins = {operator1}
  OwnEvery = {}
  Manages <- ManagesDef
  Inputs <- InputsDef
  MaxPreviewRules = 1
  File <- FileDef
  Services = {"s"}
SPECIFICATION Spec
INVARIANTS PasswordsAreGuarded ChangesAreHonest
PROPERTIES OwnerRemains RolesComeFromAbove CodesAreSpent DeveloperActsWithin GuardedNeedsPassword
CHECK_DEADLOCK FALSE
