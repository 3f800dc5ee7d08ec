\* Two unconfigured replicas, one PUT, nothing fails.
SPECIFICATION FairSpec
CONSTANTS Replicas = {a, b}
          Seeders = {}
          Puts = {p}
          Patches = {}
          MaxRev = 1
          MaxFaults = 0
          Feed = FALSE
PROPERTIES Converges
CHECK_DEADLOCK FALSE
