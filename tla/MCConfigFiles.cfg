SPECIFICATION Spec
CONSTANTS
  Writers = {w1, w2}
  Names = {p, q}
  NoName = NoName
  Before = Before
SYMMETRY MCSymmetry
INVARIANTS
  FilesAreSafe
PROPERTIES
  OverwritesOnlyWhatItCouldNotSee
  MergeKeepsTheRest
  SelectsADefinedProfile
\* Every writer performs one operation.
CHECK_DEADLOCK FALSE
