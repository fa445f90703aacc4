CONSTANTS
  None = None
  Names <- MCNames
  Classes <- MCClasses
  Undollar <- MCUndollar
  Builtin <- MCBuiltin
  Scalars <- MCScalars
  Strings <- MCStrings
  Fits <- MCFits
  Decimals = {"BigDecimal"}
  Positions <- MCPositions
  Requests <- MCGenericRequests
  MaxCandidates <- MCMaxCandidates

SPECIFICATION Spec

INVARIANT
  ParametersAreTypes

CHECK_DEADLOCK FALSE
