\* One close() races the requests that still record.
SPECIFICATION Spec
CONSTANTS BatchSize = 2
          MaxQueue = 3
          MaxEntries = 4
          Flushers = {}
          Closers = {c1}
INVARIANTS NeverStranded
CHECK_DEADLOCK FALSE
