CONSTANTS
  None = None
  Names <- MCNames
  Classes <- MCClasses
  Undollar <- MCUndollar
  Builtin <- MCBuiltin
  Scalars <- MCScalars
  Strings <- MCStrings
  Fits <- MCFits
  Decimals = {"BigDecimal"}
  Positions <- MCPositions
  Requests <- MCEnumRequests
  MaxCandidates <- MCMaxCandidates

SPECIFICATION Spec

INVARIANT
  ExplicitTypesAreChecked

CHECK_DEADLOCK FALSE
