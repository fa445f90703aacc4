CONSTANTS
  None = None
  Names <- MCNames
  Classes <- MCClasses
  Undollar <- MCUndollar
  Builtin <- MCBuiltin
  Scalars <- MCScalars
  Strings <- MCStrings
  Fits <- MCFits
  Decimals = {"BigDecimal"}
  Positions <- MCPositions
  Requests <- MCRequests
  MaxCandidates <- MCMaxCandidates

SPECIFICATION Spec

INVARIANTS
  ClassesGoByBinaryName
  ObjectsFitWhereTheyStand
  SkeletonIsAccepted

CHECK_DEADLOCK FALSE
