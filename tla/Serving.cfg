\* Two requests of fourteen kinds against every environment and registry.
SPECIFICATION Spec
CONSTANTS
  Compiled = {"sqlite", "postgres", "mysql", "mongodb"}
  Envs <- MCEnvs
  Registries <- Hostile
  Reqs = {r1, r2}
  Heads <- MCHeads
  MaxRefills = 1
SYMMETRY Same
INVARIANTS
  EveryAnswerHardened
  GuardsBindHandlers
  CredentialWorkBounded
  OnlyVettedServes
CHECK_DEADLOCK FALSE
