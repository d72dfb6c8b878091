SPECIFICATION Spec
CONSTANTS
  Migrators = {m1, m2, m3}
SYMMETRY Symmetry
INVARIANTS
  CommittedIsTheModels
  MigrationsDoNotFail
PROPERTY
  RefinesDeployments
