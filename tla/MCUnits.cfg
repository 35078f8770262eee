SPECIFICATION FairSpec
CONSTANTS
  hole = hole
  a = a
  b = b
  m = m
  Units = {hole, a, m}
  Hole = hole
  Multi = {m}
  Trig = {a}
  Ins <- TwoChannels
  Outs <- TwoChannels
  RemovesAll = TRUE
  MaxEdges = 3
INVARIANTS SizeExact OncePerSample IInv
PROPERTIES WholeGraph SourcesFirst PullEnds
