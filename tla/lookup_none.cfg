SPECIFICATION Spec
CONSTANTS
  Items = {item}
  Encodings = 2
  MaxRetries = {3}
  Registries <- HonestOnly
INVARIANT
  NoneMeansNotFound
