\* Every request lasts at most a third of the counter's lifetime, and nothing
\* fails.
SPECIFICATION Spec
CONSTANTS Requests = {r1, r2, r3}
          PerUser = 2
          TokenLimit = 1
          Costs = {1}
          TTL = 3
          MaxHold = 1
          MaxSpent = 1
          Faults = FALSE
INVARIANTS BoundHolds
