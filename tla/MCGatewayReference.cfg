\* Administrators who save and rename, one after the other, with one keyring.
SPECIFICATION OneEditor
CONSTANTS
  Null = Null
  r1 = r1
  r2 = r2
  s1 = s1
  s2 = s2
  s3 = s3
  p1 = p1
  p2 = p2
  p3 = p3
  c1 = c1
  c2 = c2
  o1 = o1
  o2 = o2
  o3 = o3
  Requests = {r1, r2}
  Kinds <- MCKinds
  Configs <- MCConfigs
  MaxReloads = 1
  Questions <- MCQuestions
  Presented <- MCPresented
  Callers = {p1, p2, p3}
  Challenges = {c1, c2}
  Assertions <- MCAssertions
  Emails = {"e1", "e2"}
  Invites = {"i1"}
  Calls = {"a1", "a2", "a3"}
  Replicas = {s1, s2, s3}
  Builds <- MCBuilds
  MaxRows = 3
  LastTick = 3
  Retention = 1
  ContentRetention = 0
  PageLimit = 2
  Environments <- MCEnvironments
  Indices <- MCIndices
  Credentials = {1, 2}
  Typed = {"k1", "k2"}
  Seeded = "s"
  SecretIds = {"i1", "i2"}
  Keyrings <- OneKey
  Operators = {o1, o2, o3}
  Doings <- Renaming
  MaxRevisions = 4
INVARIANTS
  ReferenceKeepsValue
CHECK_DEADLOCK FALSE
