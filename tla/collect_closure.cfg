SPECIFICATION FairSpec
CONSTANTS
  out = out
  liba = liba
  libb = libb
  libc = libc
  own = own
  excluded = excluded
  other = other
  malformed = malformed
  Rows = {out, liba, libb, libc}
  Refs <- Diamond
  SigNames = {own, excluded, other, malformed}
  OwnName = own
  Malformed = malformed
  LateSigners = {own}
  InitialSigs <- SigsOfDiamond
  ExcludedNames = {excluded}
INVARIANTS
  TypeOK
  ClosureExact
  ExclusionJustified
PROPERTY
  CollectEnds
