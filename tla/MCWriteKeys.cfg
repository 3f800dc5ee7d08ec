\* Two replicas with room for one entry each; a new key and a junk key.
SPECIFICATION Spec
CONSTANTS Replicas = {a, b}
          Keys = {k, j}
          Stored = {}
          New = {k}
          Requests = {c}
          TTL = 2
          MaxEntries = 1
          Horizon = 4
INVARIANTS StalenessBounded RevocationBites
CHECK_DEADLOCK FALSE
