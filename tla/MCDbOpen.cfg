CONSTANTS
  p1 = p1
  p2 = p2
  Procs <- TwoProcs
  NoProc = NoProc
  MaxNumber = 6
  ReuseLogs <- TwoProcs
  NDebug <- OneProc
  SelfLinked <- MixedLinks
SPECIFICATION FairSpec
INVARIANTS
  CurrentRecovers
  NumbersFresh
  OpenIsRecoverable
  VersionsExact
PROPERTIES
  ImplementsRegister
  OpenReturns
