\* Two tasks that retry, batch and flush; every step of a started call is fair.
CONSTANTS
  c1 = c1
  c2 = c2
  c3 = c3
  s1 = s1
  s2 = s2
  y1 = y1
  Tasks = {t1, t2}
  NoTask = NoTask
  NoEvent = NoEvent
  Correlations <- MCCorrelations
  Streams <- MCStreams
  EventTypes <- MCTypes
  Events <- MCEvents
  Batches <- MCBatches
  Handlers = {h1}
  BatchSize = 2
  MaxAttempts <- Retried
  MaxSubscriptions = 1
SPECIFICATION FairSpec
INVARIANTS
  TypeOK
  VersionsContiguous
  CorrelationsIndexLog
  StoredOncePerTask
  OutcomeAccurate
  HandlersSeeLogOrder
  FullBatchHasFlusher
PROPERTIES
  StoreSpec
  CallsComplete
