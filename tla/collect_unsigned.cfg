SPECIFICATION Spec
CONSTANTS
  out = out
  liba = liba
  libb = libb
  libc = libc
  own = own
  excluded = excluded
  other = other
  malformed = malformed
  Rows = {out, liba, libb}
  Refs <- Chain
  SigNames = {own, excluded, other, malformed}
  OwnName = own
  Malformed = malformed
  LateSigners = {}
  InitialSigs <- SigsOfChain
  ExcludedNames = {excluded}
INVARIANT
  OnlyUnsignedPushed
