SPECIFICATION FairSpec
CONSTANTS Replicas = {a, b}
          Seeders = {a}
          Puts = {p}
          Patches = {q}
          MaxRev = 2
          MaxFaults = 1
          Feed = TRUE
INVARIANTS OneActive FeedExact
PROPERTIES ImplementsLog FeedDelivers
CHECK_DEADLOCK FALSE
