SPECIFICATION Spec
CONSTANTS
  Uid = {u1, u2, u3, u4, u5}
  i1 = i1
  Body = {i1, b1, b2, b3}
  Instruction <- OnlyI1
  NoItem = NoItem
  NoUid = NoUid
  MaxQueue = 2
  MaxHistory = 1
  MaxBatch = 2
  MaxKills = 0
  Risks = {"clear"}
SYMMETRY Interchange
INVARIANT KnownItemsExist
