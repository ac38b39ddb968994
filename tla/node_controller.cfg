SPECIFICATION FairSpec
CONSTANTS
  v1 = v1
  v2 = v2
  t1 = t1
  Vols = {v1, v2}
  OtherTaints = {t1}
  ByHand <- MCByHand
INVARIANT TypeOK
INVARIANT TaintedBeforeRemoval
PROPERTY OtherTaintsKept
PROPERTY LostNodeEmptied
PROPERTY RecoveredNodeUntainted
