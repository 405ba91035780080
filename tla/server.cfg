SPECIFICATION Spec
CONSTANTS
  Drones = {d1}
  Clients = {c1}
  Readers = {r1}
  ChannelCap = 2
  SSECap = 2
  MaxObjects = 2
  MaxVersion = 2
  Kinds = {new_drone}
  Subjects = {d1}
  Taps = {t1}
  MaxAlerts = 2
  AlertTTL = 1
  MaxId = 3
  MaxCalls = 2
  IPs = {ip1}
  Limit = 2
  Window = 2
  Tickets = {k1, k2}
  TicketTTL = 2
  Processes = {p1, p2}
  Requests = {q1}
  RoleNames = {1, 2}
  MaxCrashes = 2
  Handlers = {h1, h2}
  MaxPosts = 2
  MaxFaults = 1
  Updaters = {n1, n2}
  OUIs = {o1, o2, o3}
  Blocked = {o3}
  MaxIOFaults = 1
  MaxRuns = 3
INVARIANTS  AlertsTrue GateHolds OneInstance SettingsKept 
PROPERTIES SSEForward PasswordKept
CHECK_DEADLOCK FALSE
