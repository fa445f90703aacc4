SPECIFICATION FairStoreSpec
CONSTANTS
  Lookups = {l1, l2, l3}
  Fqns = {"A", "AInner", "B", "Unknown"}
  Files = {"fileA", "fileB"}
  NoFile = "none"
  NoName = "none"
  Index <- MCIndex
  Enclosing <- MCEnclosing
  Contents <- MCContents
  MaxEdits = 1
INVARIANTS
  StoreIsConsistent
PROPERTIES
  MissesAreReal
  EveryLookupAnswers
\* A parse that panics strands the lookups of its file, in the end all of them.
CHECK_DEADLOCK FALSE
