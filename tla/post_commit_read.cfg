SPECIFICATION Spec
CONSTANTS
  t1 = t1
  t2 = t2
  shape = shape
  value = value
  plan = plan
  proposed = proposed
  other = other
  Clients = {t1, t2}
  Nobody = Nobody
  Edits = {shape, value}
  Proposals = {}
  Elsewhere = {}
  Invalid = {}
  Tables = {{shape}, {value}}
  Nested = {{value}}
  Signed = {shape}
  Echoed = {value}
  Unrecorded = {}
  HistoryLimit = 1
  MaxRevision = 4
  MaxStray = 0
  MaxFailures = 0
INVARIANT SavesSeeEverything
