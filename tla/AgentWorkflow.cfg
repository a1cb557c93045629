SPECIFICATION FairSpec
CONSTANTS
  Session = {s1, s2}
  NoSession = NoSession
INVARIANTS AliveOnOpenSession
PROPERTIES ImplementsAgentSession ImplementsWorkflowObject EndsAfterSignal

