CONSTANTS
  Workers = {w1, w2}
  NoJob = NoJob
  Jobs <- MCJobs
  Kind <- MCKind
  MaxFaults = 3
SPECIFICATION FairSpec
INVARIANTS
  TypeOK
  OneHolder
  EffectAtMostOnce
  OutcomeMatchesEffect
PROPERTIES
  ImplementsJobExecution
  EveryJobIsServed
  BootClearsRunning
CHECK_DEADLOCK FALSE
