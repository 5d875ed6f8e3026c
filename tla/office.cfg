\* One of the other five parts; see MCOffice for the bounds.
SPECIFICATION OfficeSpec
CONSTANTS
  Chosen = {"view", "registry", "ledger", "events", "browsers"}
  None = None
  Null = Null
  ana = ana
  ivo = ivo
  eva = eva
  acy = acy
  real = real
  sim = sim
  door = door
  decoy = decoy
  op = op
  start = start
  look = look
  ip1 = ip1
  ip2 = ip2
  c1 = c1
  b1 = b1
  b2 = b2
  q1 = q1
  q2 = q2
  v1 = v1
  v2 = v2
  u1 = u1
  guest1 = guest1
  guest2 = guest2
  demo = demo
  far = far
  hq = hq
  desk = desk
  out = out
  unsigned = unsigned
  Users = {ana, ivo, eva}
  Marinas = {acy}
  Newcomer = eva
  THRESHOLD = 2
  Changes <- MCChanges
  MaxStep = 2
  MaxRequests = 3
  Together <- MCTogether
  Customers = {guest1, guest2, demo}
  Demo = {demo}
  Deltas <- MCDeltas
  MaxPosts = 3
  Cabinets = {c1}
  Berths = {b1, b2}
  Sockets = {q1, q2}
  Valves = {v1, v2}
  On <- MCOn
  Uids = {u1}
  Orders = {"given", "reversed"}
  Asked <- MCAsked
  Files <- MCFiles
  Unset = Unset
  MaxAsks = 3
  Pedestals = {real, sim}
  First = real
  Simulated = {sim}
  Watched = {real}
  Alarm = {door}
  CabinetOf <- MCCabinetOf
  IdOf <- MCIdOf
  EventOf <- MCEventOf
  HasId = {door}
  Decoys = {decoy}
  Emails = {ana, ivo}
  Actors = {op}
  Endpoints = {start, look}
  Ips = {ip1, ip2}
  OutletCommands = {start}
  OddHours = {3}
  LATE = 1
  GAP = 1
  WINDOW = 4
  BUCKET = 2
  DAY = 3
  HOUR = 2
  BASELINE = 5
  SPRAY_ACCOUNTS = 2
  AGENT_FRESH_FOR = 1
  Periods <- MCPeriods
  Switched = {"decoy_touch"}
  MaxTime = 5
  MaxRows = 2
  StepMixes <- MCSteps
  Nil = Nil
  Mixes <- MCMixes
  Absent = Absent
  MapCabinets = {c1}
  MapBerths = {b1, b2}
  ServedBy <- MCServedBy
  Metered = {b1}
  CACHE_FRESH_FOR = 1
  OFFLINE_AFTER = 1
  STALE_AFTER = 0
  VESSEL_FRESH_FOR = 2
  Unanswered <- MCUnanswered
  MaxViewTime = 3
  MaxEvents = 2
  Nothing = Nothing
  MarinaIds = {acy, far, unsigned}
  Signed = {acy, far}
  PedestalIds = {0, 1}
  EventTypes = {"alarm", "power_reading", "temperature_reading", "untyped", "sensor_update"}
  Clients = {hq, desk, out}
  Filter <- MCFilter
  Admins = {hq}
  Assigned <- MCAssigned
  CacheWindow = 1
  MaxClock = 3
  MaxNumber = 2
INVARIANTS
  OfficeTypeOK
  FreshOrGrey
  MappingReplaced
  TagResolvesOnce
  LedgerAddsUp
  ReadingsKept
  Heard
SYMMETRY Interchangeable
CHECK_DEADLOCK FALSE
