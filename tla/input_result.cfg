SPECIFICATION Spec
CONSTANTS
  Locations = {result, link, storepath}
  StorePaths = {storepath}
  Nowhere = Nowhere
INVARIANT
  ResultLinkAccepted
