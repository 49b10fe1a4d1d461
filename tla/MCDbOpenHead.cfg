CONSTANTS
  p1 = p1
  p2 = p2
  Procs <- OneProc
  NoProc = NoProc
  MaxNumber = 6
  ReuseLogs <- NoProcs
  NDebug <- NoProcs
  SelfLinked <- NoneLinked
SPECIFICATION Spec
INVARIANT HeadIsLinked
