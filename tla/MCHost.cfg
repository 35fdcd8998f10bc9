\* The runner, the collectors of the host, the batches and the configuration.
SPECIFICATION Spec
CONSTANTS
  Fast <- CFast
  Slow <- CSlow
  Cadence <- CCadence
  Timeouts <- CTimeout
  Interval = 4
  Grace = 1
  MaxQueueing = 1
  Concurrency = 1
  Ports <- CPorts
  Expected <- CExpected
  Scanners <- CScanners
  Lists <- CLists
  Probes <- CProbes
  Names <- CNames
  Addresses <- CAddresses
  Wanted <- CAddresses
  MaxAnswers = 3
  TargetSets <- CTargetSets
  MaxTime = 3
  MaxKills = 1
  MaxEntries = 2
  Lookback = 1
  Recent = 2
  Limit = 1
  Scripts <- CScripts
  Outputs <- COutputs
  SelfSignals <- CSelfSignals
  CollectionMax = 2
  ItemMax = 3
  ByteMax = 10
  Overhead = 3
  Files <- CFiles
  Overlays <- COverlays
  BuiltIn <- CBuiltIn
  Script = "script"
  Default = 2
INVARIANTS
  NoStarvation
  NoFalseAlarm
  OnceRunsAll
  ResultsHonest
  KernelCovered
  PartsSound
  ConfigSound
PROPERTIES
  CadenceKept
\* A batch, a check, a resolved configuration and a stopped runner end.
CHECK_DEADLOCK FALSE
