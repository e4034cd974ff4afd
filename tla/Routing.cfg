SPECIFICATION FairSpec
CONSTANTS
  vg = vg
  cl = cl
  sv = sv
  ch1 = ch1
  ch2 = ch2
  Clients = {vg, cl, sv}
  Channels = {ch1, ch2}
  None = None
  Urls = {"all"}
  Dnis = {"one"}
  Covers <- MCCovers
  Toself = {cl}
  LegDnis = "one"
  Vglue = vg
  Registered = "all"
  Served = {sv}
  Free = {ch1}
  MaxMakes = 1
  MaxSent = 5
INVARIANTS
  CallsMatchClients
  MakesInOnePlace
  CallsServed
PROPERTIES
  LegsReachTheirMaker
  MakesAnswered
  VoiceglueStops
CHECK_DEADLOCK FALSE
