SPECIFICATION Spec
CONSTANTS
  Session = {s1}
  NoSession = NoSession
  Lead = {l1}
  NoLead = NoLead
PROPERTY NoLaunchForgotten
