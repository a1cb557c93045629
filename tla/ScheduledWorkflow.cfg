SPECIFICATION Spec
CONSTANTS
  Session = {s1, s2}
  NoSession = NoSession
  Lead = {l1, l2}
  NoLead = NoLead
INVARIANT ReadsRoomOfOpenLead
PROPERTY ImplementsAgentSession
