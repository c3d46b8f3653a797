\* A run of the past and a new one, three requests, a crash.
SPECIFICATION Spec
CONSTANTS
  r1 = r1
  r2 = r2
  q1 = q1
  q2 = q2
  q3 = q3
  Runs = {r1, r2}
  Present = {r1}
  Requests = {q1, q2, q3}
  Modes = {"trusted_header", "e2e_token", "api_key"}
  Headers <- const_Headers
  None = None
  KeyMap <- const_KeyMap
  DefaultRole = "reviewer"
  Ops = {"create", "cancel", "delete", "purge", "gc", "gc_all", "download", "reindex"}
  MaxCrashes = 1
SYMMETRY RequestSymmetry
INVARIANTS TypeOK AuditExact OnlyAdminsRemove PurgeIsComplete LeftoversExplained
CHECK_DEADLOCK FALSE
