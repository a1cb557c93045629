SPECIFICATION Spec
CONSTANTS
  MaxEvents = 5
  Thread = {t1, t2}
  Session = {s1, s2}
  NoSession = NoSession
  Team = {v1}
  NoTeam = NoTeam
  Lead = {l1, l2}
  NoLead = NoLead
  Pin = {p1, p2}
  NoPin = NoPin
  Seed = {g1}
  NoSeed = NoSeed
  Room = {r1, r2}
  NoRoom = NoRoom
  Alpha = {1, 2}
CHECK_DEADLOCK FALSE
INVARIANTS TimerOnOpenSession ShownAsConnected NoAlphaTooMany
PROPERTIES OpenSessionKeptAlive CheckSettlesFlag HoldsLatest RoomAndUserKept
