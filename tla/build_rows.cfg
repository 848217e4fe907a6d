SPECIFICATION BuildRowsSpec
CONSTANTS
  s1 = s1
  s2 = s2
  s3 = s3
  l1 = l1
  l2 = l2
  Sessions = {s1, s2, s3}
  Links = {l1}
  None = None
  MaxRevision = 3
  MaxRequests = 3
  MaxFailures = 1
INVARIANTS RowsBelongTogether SharingIsTheOwners
PROPERTIES LinkedSavesAreAllowed RequestsEnd
CHECK_DEADLOCK FALSE
