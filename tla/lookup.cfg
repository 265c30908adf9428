SPECIFICATION FairSpec
CONSTANTS
  Items = {old, new}
  Encodings = 3
  MaxRetries = {0, 1, 2, 3}
  Registries <- AllRegistries
INVARIANTS
  TypeOK
  PassedForCause
PROPERTIES
  UnknownWasAbsent
  LookupEnds
