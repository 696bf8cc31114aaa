SPECIFICATION Spec
CONSTANTS
  Docs = {d1, d2}
  Relations = {r1, r2, r3}
  Deleters = {del1, del2}
  NoRow = NoRow
  Limit = 2
  MaxOps = 3
  Leaves = {l1, l2}
  JobWorkers = {w1, w2}
  SealAt = 2
  Bounds <- PipelineBounds
  ChunkRows = {c1}
  SummaryRows = {s1}
  Embedders = {e1, e2}
  BatchLimit = 2
  MaxTurns = 2
SYMMETRY Symmetry
INVARIANTS GraphSound PipelineSound EmbeddingsSound
PROPERTIES ChainSound
CHECK_DEADLOCK FALSE
