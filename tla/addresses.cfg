SPECIFICATION Spec
CONSTANTS
  rt = rt
  sw = sw
  fw = fw
  hv = hv
  box = box
  g1 = g1
  g2 = g2
  Ids <- MCIds
  Ports = {"lan", "eth0"}
  Bits = 10
  None = None
  Requests <- MCRequests
  TypeOf <- MCTypeOf
  Rank <- MCRank
  PortRank <- MCPortRank
  Scenes <- MCScenes
  Cabling <- MCCabling
  Typed <- MCTyped
  MaxEdits = 2
  MaxSaves = 4
INVARIANTS AddressesAreApart AddressesAreSafe GuestsNeedAnUplink
PROPERTIES BlocksStayClosed SavesSettle PinnedStay
CHECK_DEADLOCK FALSE
