\* Both services, one connector and one agent of either tenant, one agent call
\* at a time; configurations up to three levels deep.
CONSTANTS
  Tenants = {"acme", "beta"}
  DEFAULT_TENANT = "acme"
  Subjects = {"ann", "bob", "eve"}
  TenantOf <- MCTenantOf
  NoClaim = NoClaim
  c1 = c1
  Connectors = {c1}
  Agents = {a1}
  ConnectorLists <- MCLists
  Inputs = {x}
  ClientKeys = {k1, k2}
  Calls = {o1}
  Tokens = {t1}
  Nobody = Nobody
  MaxInvocations = 3
  Keys = {"token", "auth", "signing_secret_ref", "base_url", "allowed_schemes", "headers", "note"}
  SensitiveKeys = {"token", "auth", "signing_secret_ref"}
  STRUCTURAL_KEYS = {"signing_secret_ref", "base_url", "allowed_schemes"}
  HeadersKey = "headers"
  NoKey = ""
  FORBIDDEN_CONFIG_KEYS = {"token"}
  OPERATOR_ONLY_CONFIG_KEYS = {"allowed_schemes"}
  BaseUrlKey = "base_url"
  Configs <- MCConfigs
  PlainConfig <- MCPlain
  Limit = 2
CHECK_DEADLOCK FALSE
SYMMETRY ClientKeySymmetry
SPECIFICATION ApiSpec
INVARIANTS TenantIsolation RetriesCollapse OutputsMatchInvocations CredentialsStayInside ConfigsStayAuditable ScrollSkipsNothing
