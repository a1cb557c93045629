SPECIFICATION FairDumpSpec
CONSTANTS
  Trace = {t1, t2, t3}
  MaxAmount = 2
INVARIANTS NoTraceVanishes NoDumperRepeats NothingLeftBehind
PROPERTIES ImplementsTraceDelivery ShutdownEnds
