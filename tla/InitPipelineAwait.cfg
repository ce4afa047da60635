SPECIFICATION Spec
CONSTANTS
  blkA = blkA
  blkB = blkB
  c1 = c1
  c2 = c2
  c3 = c3
  c4 = c4
  NoCall = NoCall
  Blocks = {blkA, blkB}
  Calls = {c1, c2, c3}
  InitCalls <- MutualCalls
  InitResults <- FailOrRetry
  Deferring = {blkA}
  Budgeted = {blkA}
  Entries = {"run_block"}
  HostMayDrop = TRUE
  InitWait = "Await"
  HostMayStop = FALSE
SYMMETRY CallSymmetry
INVARIANTS
  TypeOK
  NoInitDeadlock
  WaitGraphAcyclic
  InitOnlyWhenUnsettled
  OneAttemptPerBlock
  InFlightExact
  ServedOnlyReady
  NothingLeaks
PROPERTIES
  SettledForGood
  TimeoutIsTransient
  ReportsLifeCycle
