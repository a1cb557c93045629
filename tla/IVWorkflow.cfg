SPECIFICATION FairSpec
CONSTANTS
  Session = {s1}
  NoSession = NoSession
  Lead = {l1}
  NoLead = NoLead
  Pin = {p1}
  NoPin = NoPin
INVARIANTS AliveOnOpenLead FlagsPinOfRound MutexReleased
PROPERTIES CallsWithOwnPin ImplementsAgentSession EndsAfterSignal
