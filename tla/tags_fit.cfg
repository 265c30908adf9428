SPECIFICATION Spec
CONSTANTS
  r = r
  s = s
  p = p
  q = q
  Names <- AllNames
  Locations <- OfNix
  OptionSets <- CustomOnly
  RepositoryParts = 2
  MaxPuts = 1
INVARIANT
  TagsFit
