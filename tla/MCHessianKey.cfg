CONSTANTS
  Names <- MCNames
  Scalars <- MCScalars
  None = None
  Text <- MCText
  Composite = "map"
  Peers <- MCPeers
  PeerLimits <- MCPeerLimits
  OwnLimits <- MCOwnLimits
  Texts <- MCTexts
  TooLong = "long"
  Blank = " "
  RawKeys = {"k", "kBlank", "blank"}
  Trim <- MCTrim
  Forests <- MCForests
  Sent <- MCSent
  Ints <- MCInts
  Characters = {1, 2, 3}
  MaxLength = 4
  ChunkLength = 2
  ShortLength = 1
  ByteLimits = {3, 5, 12}

SPECIFICATION Spec

INVARIANT SurvivesKeys

CHECK_DEADLOCK FALSE
