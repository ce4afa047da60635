SPECIFICATION FairSpec
CONSTANTS
  blkA = blkA
  blkB = blkB
  c1 = c1
  c2 = c2
  c3 = c3
  c4 = c4
  NoCall = NoCall
  Blocks = {blkA, blkB}
  Calls = {c1, c2, c3}
  InitCalls <- MutualCalls
  InitResults <- OkOrRetry
  Deferring = {}
  Budgeted = {blkA}
  Entries = {"run_block"}
  HostMayDrop = FALSE
  InitWait = "Await"
  HostMayStop = FALSE
PROPERTIES
  EveryCallEnds
