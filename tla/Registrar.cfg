CONSTANTS
  None = none
  Dirs = {d1}
  Callers = {"setup", "app", "orphan"}
  Elevated = {"setup", "app", "orphan"}
  Orphans = {"orphan"}
  AtOnce = 2
SPECIFICATION LaunchSpec
INVARIANTS RegistrarInv AdvertiserInv
PROPERTIES UninstallLeavesNothing
