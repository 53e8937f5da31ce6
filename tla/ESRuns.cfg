CONSTANTS
  t1 = t1 t2 = t2 r1 = r1 None = None
  Threads <- TwoThreads
  Readers <- OneReader
  Payloads <- AnyPayload
  Limit = 2
  MaxEvents = 4
  MaxFailures = 1
  MaxCrashes = 2
SPECIFICATION FairStoreSpec
CHECK_DEADLOCK FALSE
INVARIANT AcknowledgedIsReadable ReaderMissesNothing SequencesIncrease
PROPERTY EventsAreDelivered
