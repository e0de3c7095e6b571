CONSTANTS
  ScannedTypes <- AllTypes
  MaxDrifts = 1
SPECIFICATION Spec
INVARIANTS
  TypeOK
  VerdictsFollowReads
  
PROPERTIES
  OnlyFailOpenReadsHide
  SevereFindingLowersScore
