SPECIFICATION Spec
CONSTANTS
  Locations = {result, link, storepath, otherpath}
  StorePaths = {storepath}
  Nowhere = Nowhere
INVARIANTS
  OutcomeOfChain
PROPERTY
  EndsUnlessCircular
