SPECIFICATION ProjectSpec
CONSTANTS
  rk = rk
  sw = sw
  io = io
  ap = ap
  pc = pc
  tb = tb
  up = up
  pd = pd
  po = po
  wall = wall
  rt = rt
  md = md
  srv = srv
  vps = vps
  nas = nas
  mini = mini
  spare = spare
  tb2 = tb2
  tb3 = tb3
  tb4 = tb4
  co1 = co1
  co2 = co2
  co3 = co3
  co4 = co4
  Ids <- MCIds
  TypeOf <- MCTypeOf
  Nowhere = Nowhere
  Counts <- MCCounts
  Slots <- MCSlots
  AllowLoops = FALSE
  NATGateways <- MCNATGateways
  Builds <- MCBuilds
  Circuit <- MCCircuit
  NoCircuit = "none"
  MaxPowerOutputs = 2
  OldBuilds <- MCOldBuilds
  New <- MCNew
  Seats <- MCSeats
  Venues <- MCVenues
  Consoles = 4
INVARIANTS ProgramsKeepAcceptable SharedFeedsAreWarned PlansFit
PROPERTIES OpsMountApart HandsKeepAcceptable
