SPECIFICATION AutosaveSpec
CONSTANTS
  t1 = t1
  t2 = t2
  shape = shape
  value = value
  plan = plan
  proposed = proposed
  other = other
  Clients = {t1}
  Nobody = Nobody
  Edits = {shape, proposed}
  Proposals = {proposed}
  Elsewhere = {}
  Invalid = {proposed}
  Tables = {{shape}, {proposed}}
  Nested = {}
  Signed = {shape, proposed}
  Echoed = {}
  Unrecorded = {}
  HistoryLimit = 1
  MaxRevision = 3
  MaxStray = 0
  MaxFailures = 1
  MaxRetries = 1
INVARIANTS UnsavedIsScheduled SavedMeansStored
PROPERTY UnsavedGetsSaved
