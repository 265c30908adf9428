SPECIFICATION FairSystemSpec
CONSTANTS
  out = out
  lib = lib
  own = own
  excluded = excluded
  malformed = malformed
  narOut = narOut
  narLib = narLib
  garbled = garbled
  Rows = {out, lib}
  Refs <- OutAndLib
  SigNames = {own, excluded, malformed}
  OwnName = own
  Malformed = malformed
  LateSigners = {own}
  InitialSigs <- SigsOfPair
  ExcludedNames = {excluded}
  Nars = {narOut, narLib, garbled}
  NarOf <- NarOfPair
  Garbled = garbled
  NoInfo = NoInfo
  Disks <- Intact
  Parallel = 2
  MaxRetry = 2
  MaxRuns = 1
  MaxLate = 1
INVARIANTS
  SystemTypeOK
  ClosurePublished
PROPERTIES
  TasksBehave
  SystemEnds
