\* One replica: a lookup is in flight when the key is revoked.
SPECIFICATION Spec
CONSTANTS Replicas = {a}
          Keys = {k}
          Stored = {k}
          New = {}
          Requests = {c, d}
          TTL = 2
          MaxEntries = 1
          Horizon = 2
INVARIANTS LocalRevocation
CHECK_DEADLOCK FALSE
