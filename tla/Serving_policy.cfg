\* The stack as it ships, without an embedder's plugins.
SPECIFICATION Spec
CONSTANTS
  Compiled = {"sqlite"}
  Envs <- MCEnvs
  Registries <- BuiltIn
  Reqs = {r1}
  Heads <- MCHeads
  MaxRefills = 1
INVARIANTS
  PolicyOnEveryAnswer
CHECK_DEADLOCK FALSE
