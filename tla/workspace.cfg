CONSTANTS
  r1 = r1
  r2 = r2
  f1 = f1
  f2 = f2
  Nobody = Nobody
  NoView = NoView
  Runs = {r1, r2}
  Files = {f1, f2}
  Needs <- NeedsOf
  RunsAs = {r1}
  Vaulted = {r1}
  SpecEnvs <- MCSpecEnvs
  RuntimeEnv = {}
  CleanTmp = TRUE
SPECIFICATION FairSpec
INVARIANTS TypeOK NoLeftovers EnvIsOwn TerraformIsReady
PROPERTIES ClonesAreSnapshots EveryRunReturns
