\* A run and a pull, changes at two remotes, a change of the registry, a crash.
SPECIFICATION Spec
CONSTANTS
  main = main
  dev = dev
  u1 = u1
  u2 = u2
  FirstCommits <- Existing
  Moving <- Changing
  Urls = {u1, u2}
  FirstUrl = u1
  Branches <- TwoBranches
  DefaultBranch = main
  HeadBranch = main
  Runs = {r1}
  Pulls = {f1}
  Previews = {}
  Ref <- Asked
  MaxAge = 1
  MaxFetch = 1
  MaxTime = 3
  MaxPushes = 2
  MaxReloads = 1
  MaxCrashes = 1
VIEW WithoutHistory
INVARIANTS TypeOK NeverHalfCloned FreshEnough PullIsCurrent PinnedCheckout
CHECK_DEADLOCK FALSE
