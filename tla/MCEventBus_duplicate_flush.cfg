\* Every event is in exactly one publish call, nothing is retried.
CONSTANTS
  c1 = c1
  c2 = c2
  c3 = c3
  s1 = s1
  s2 = s2
  y1 = y1
  Tasks = {t1, t2}
  NoTask = NoTask
  NoEvent = NoEvent
  Correlations <- MCCorrelations
  Streams <- MCStreams
  EventTypes <- MCTypes
  Events <- MCEvents
  Batches <- NoBatches
  Handlers = {h1}
  BatchSize = 2
  MaxAttempts <- Once
  MaxSubscriptions = 1
SPECIFICATION Spec
INVARIANT
  OneEventPerCorrelation
