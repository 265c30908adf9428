SPECIFICATION FairPutSpec
CONSTANTS
  old = old
  new = new
  Items = {old, new}
  Encodings = 2
  MaxRetries <- Retries
  Registries <- Honest
  Faults = {"none", "ill_formed", "too_large"}
  Stored = {"absent", "layer_count", old}
INVARIANTS
  PutTypeOK
  StatusMeansEffect
  OrderOfAcks
  AckedIsFound
PROPERTIES
  LooksAsOthers
  PutEnds
