SPECIFICATION ProposalsSpec
CONSTANTS
  s1 = s1
  s2 = s2
  device = device
  cable = cable
  note = note
  suggested = suggested
  Sessions = {s1, s2}
  Edits = {device, cable, note, suggested}
  Suggested = {suggested}
  Needed = {device}
  Rivals = {cable}
  Kept = 1
  MaxRevision = 3
  MaxRows = 3
  MaxFailures = 1
SYMMETRY Symmetric
INVARIANTS AppliedOnce PreviewMatchesBase WaitingIsReplaced
INVARIANT NewestSettledAreKept
PROPERTIES ResolvedIsFinal DecisionsAreAtomic
CHECK_DEADLOCK FALSE
