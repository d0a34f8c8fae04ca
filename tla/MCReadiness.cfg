CONSTANTS
  Dirs = {"app", "bin", "opt"}
  ServerDir = "app"
  ServerPath <- MCServerPath
  Absolutes = {"bin"}
  OwnDirs = {"opt"}
  OwnPaths <- MCOwnPaths
  NumEndpoints = 2
SPECIFICATION Spec
INVARIANTS
  TypeOK
  ReadyMeansLaunches
  MissingMeansFails
