SPECIFICATION FairSpec
CONSTANTS
  Session = {s1, s2}
  NoSession = NoSession
  Lead = {l1}
  NoLead = NoLead
INVARIANT AliveOnOpenLead
PROPERTIES WaitsForBridge ImplementsAgentSession EndsAfterSignal
