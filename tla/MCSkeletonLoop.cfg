CONSTANTS
  None = None
  Names <- MCNames
  Classes <- MCClasses
  Undollar <- MCUndollar
  Builtin <- MCBuiltin
  Scalars <- MCScalars
  Strings <- MCStrings
  Fits <- MCFits
  Decimals = {"BigDecimal"}
  Positions <- MCPositions
  Requests <- MCSkeletonRequests
  MaxCandidates <- MCMaxCandidates

SPECIFICATION Spec

PROPERTY
  SkeletonIsPlanned

CHECK_DEADLOCK FALSE
