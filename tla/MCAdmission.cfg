\* Two requests contend for one slot; storage operations fail, replicas die
\* and the counter row expires under requests and leaks.
SPECIFICATION FairSpec
CONSTANTS Requests = {r1, r2}
          PerUser = 1
          TokenLimit = 1
          Costs = {1}
          TTL = 2
          MaxHold = 1
          MaxSpent = 1
          Faults = TRUE
INVARIANTS CounterExact SlotsBounded NothingLeftBehind
PROPERTIES RefusalJustified LeakHeals
