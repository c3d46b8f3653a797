\* A run after a change of the registry.
SPECIFICATION Spec
CONSTANTS
  main = main
  dev = dev
  u1 = u1
  u2 = u2
  FirstCommits <- Existing
  Moving <- Changing
  Urls = {u1, u2}
  FirstUrl = u1
  Branches <- TwoBranches
  DefaultBranch = main
  HeadBranch = main
  Runs = {r1}
  Pulls = {f1}
  Previews = {}
  Ref <- Asked
  MaxAge = 1
  MaxFetch = 1
  MaxTime = 3
  MaxPushes = 2
  MaxReloads = 1
  MaxCrashes = 0
INVARIANTS RightRepository
CHECK_DEADLOCK FALSE
