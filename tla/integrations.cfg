SPECIFICATION IntegrationsSpec
CONSTANTS
  r1 = r1
  r2 = r2
  pve = pve
  lab = lab
  t1 = t1
  t2 = t2
  i1 = i1
  i2 = i2
  n1 = n1
  Requests = {r1, r2}
  Ids = {1, 2}
  Addresses = {pve, lab}
  Tokens = {t1, t2}
  Items = {i1, i2}
  Hosts = {n1}
  None = None
  Paste = Paste
  Inputs <- MCInputs
  MaxIntegrations = 2
  MaxRequests = 5
SYMMETRY Symmetric
INVARIANTS SecretsGoWhereTheyWereEntered OnlyOverlapsDisturb
CHECK_DEADLOCK FALSE
