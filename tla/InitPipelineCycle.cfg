SPECIFICATION Spec
CONSTANTS
  blkA = blkA
  blkB = blkB
  c1 = c1
  c2 = c2
  c3 = c3
  c4 = c4
  NoCall = NoCall
  Blocks = {blkA, blkB}
  Calls = {c1, c2, c3, c4}
  InitCalls <- MutualCalls
  InitResults <- FailOrRetry
  Deferring = {}
  Budgeted = {}
  Entries = {"run_block"}
  HostMayDrop = FALSE
  InitWait = "Await"
  HostMayStop = FALSE
SYMMETRY CallSymmetry
INVARIANTS
  NoInitDeadlock
  WaitGraphAcyclic
