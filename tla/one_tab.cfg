SPECIFICATION Spec
CONSTANTS
  t1 = t1
  t2 = t2
  shape = shape
  value = value
  plan = plan
  proposed = proposed
  other = other
  Clients = {t1}
  Nobody = Nobody
  Edits = {shape, value, proposed, other}
  Proposals = {proposed}
  Elsewhere = {other}
  Invalid = {}
  Tables = {{shape, proposed}, {value, other}}
  Nested = {{value, other}}
  Signed = {shape, proposed, other}
  Echoed = {value}
  Unrecorded = {value}
  HistoryLimit = 1
  MaxRevision = 3
  MaxStray = 1
  MaxFailures = 2
PROPERTY UnsavedShapeIsKept
