SPECIFICATION FairSpec
CONSTANTS
  out = out
  lib = lib
  own = own
  other = other
  malformed = malformed
  narOut = narOut
  narLib = narLib
  garbled = garbled
  Rows = {out, lib}
  Refs <- Pair
  SigNames = {own, other, malformed}
  OwnName = own
  Malformed = malformed
  LateSigners = {}
  InitialSigs <- SigsOfPair
  Nars = {narOut, narLib, garbled}
  NarOf <- NarOfPair
  Garbled = garbled
  NoInfo = NoInfo
  Disks <- DisksOfPair
  Parallel = 2
  MaxRetry = 3
  MaxRuns = 2
  MaxLate = 2
INVARIANTS
  TypeOK
  NarInfoHasNar
  DescribesStore
  PresignedExact
  VerdictHonest
PROPERTIES
  NothingStartsAfterFailure
  DryRunWritesNothing
  ImplementsCache
  PushEnds
