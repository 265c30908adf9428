SPECIFICATION FairServerSpec
CONSTANTS
  Items = {item}
  Encodings = 1
  MaxRetries = {0, 1, 3}
  Registries = { { {"DENIED"} } }
  UpstreamCount = 2
INVARIANTS
  ServerTypeOK
  UpstreamPassedForCause
  RegistryOnly
  StatusNamesCause
PROPERTY
  RequestEnds
