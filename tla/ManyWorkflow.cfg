SPECIFICATION FairSpec
CONSTANTS
  Session = {s1, s2}
  NoSession = NoSession
  Room = {r1, r2}
  NoRoom = NoRoom
  UpdateRoom = 2
INVARIANTS ReadsAsUserOfRoom ReadsClosedRoomWhileClosing
PROPERTIES ImplementsAgentSession EndsAfterSignal
