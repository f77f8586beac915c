\* Four requests of any kind: three scopes of a setting, one code of master data, three
\* tenants of which two pairs share a code or a slug, two users, a strict file store.
SPECIFICATION Spec
CONSTANTS
  r1 = r1
  r2 = r2
  r3 = r3
  r4 = r4
  v1 = v1
  v2 = v2
  gravel = gravel
  ada = ada
  bob = bob
  Null = Null
  Requests = {r1, r2, r3, r4}
  Scopes <- MCScopes
  Codes = {gravel}
  Tenants <- MCTenants
  Emails = {ada, bob}
  Values = {v1, v2}
  StrictStorage = TRUE
SYMMETRY Interchangeable
INVARIANTS TypeOK RowsMatchAudit ResolvedAsLastSet TenantsHaveAdmins FilesMatchAttachments
\* The bounded number of requests runs out.
CHECK_DEADLOCK FALSE
