\* Two instances, restarted in any of seven environments, two sessions; tokens do not interact.
SPECIFICATION Spec
CONSTANTS
  Compiled = {"sqlite"}
  Instances = {i1, i2}
  Envs <- MCEnvs
  Tokens = {t1}
  Sessions = {s1, s2}
  Owner <- OneOwner
  Ttl = 2
  Leeway = 1
  Drift = 1
  MaxTime = 4
INVARIANTS
  HonouredOnlyAsMinted
  AdvertisedLifetimeKept
  StoredRevocationHolds
CHECK_DEADLOCK FALSE
