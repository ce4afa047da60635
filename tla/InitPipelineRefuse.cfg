SPECIFICATION FairSpec
CONSTANTS
  blkA = blkA
  blkB = blkB
  c1 = c1
  c2 = c2
  c3 = c3
  c4 = c4
  NoCall = NoCall
  Blocks = {blkA, blkB}
  Calls = {c1, c2, c3}
  InitCalls <- MutualCalls
  InitResults <- OkOnly
  Deferring = {blkA}
  Budgeted = {blkA}
  Entries = {"run_block", "init_block"}
  HostMayDrop = FALSE
  InitWait = "Refuse"
  HostMayStop = TRUE
INVARIANTS
  RequestsHoldNoLock
PROPERTIES
  EveryCallEnds
