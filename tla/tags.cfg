SPECIFICATION Spec
CONSTANTS
  r = r
  s = s
  p = p
  q = q
  Names <- AllNames
  Locations <- Everything
  OptionSets <- AllOptions
  RepositoryParts = 2
  MaxPuts = 2
INVARIANTS
  TypeOK
  NewestFound
  MixupsArePlain
  DecodesBack
  OnlyLengthMatters
