\* A flush() and a close() overlap with records, the timer and the writes.
SPECIFICATION FairSpec
CONSTANTS BatchSize = 2
          MaxQueue = 3
          MaxEntries = 4
          Flushers = {f1}
          Closers = {c1}
INVARIANTS BacklogCovered Accounting InOrder NotStranded FlushDelivers
PROPERTIES EveryEntrySettles FlushTerminates
\* A finite number of entries is recorded; then the sink rests.
CHECK_DEADLOCK FALSE
