SPECIFICATION ImportSpec
CONSTANTS
  pve01 = pve01
  pve02 = pve02
  web = web
  db = db
  i1 = i1
  HostOrder <- MCHostOrder
  Memory <- MCMemory
  Clusters <- MCClusters
  Plans <- MCPlans
  HostChoices <- MCChoices
  Vmids = {1, 2}
  Names = {web, db}
  Sizes = {1}
  Items = {i1}
  None = None
  Refused = Refused
  Unchosen = Unchosen
  ChoiceNew = ChoiceNew
  ChoiceSkip = ChoiceSkip
  MaxVMsPerNode = 2
  MaxTopologyOps = 8
  HubPorts = 3
  MaxChanges = 1
  MaxImports = 2
INVARIANTS ImportSettles ImportFits GuestsAreImportedOnce
CHECK_DEADLOCK FALSE
