SPECIFICATION Spec
CONSTANTS
  N = 2
  Retries = 2
INVARIANT TwilioAvoidsDeleted
