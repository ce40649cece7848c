CONSTANTS
  short = short
  middle = middle
  rejected = rejected
  l1 = l1
  l2 = l2
  NoFile = NoFile
  NoWork = NoWork
  Benchmarks = {b1, b2}
  Codes = {short, middle, rejected}
  Libraries = {l1, l2}
  Workers = {w1, w2}
  MaxShards = 2
  Rejected <- MCRejected
  ShardCount <- MCShardCount
  Text <- MCText
SPECIFICATION Spec
INVARIANTS SuccessMeansAccepted NoShardForgotten
PROPERTIES RunEnds
