SPECIFICATION FairSpec
CONSTANTS
  Agents = {a1, a2}
  Groups = {{a1}, {a1, a2}}
  None = None
  Timeline <- OneStep
  Workers = {w1, w2}
  MaxRounds = 3
  MaxTurns = 2
INVARIANTS
  TypeOK
  PoolOpen
  OneOwner
  AckStands
PROPERTIES
  ClaimedOnce
  AnsweredOrPooled
CHECK_DEADLOCK FALSE
