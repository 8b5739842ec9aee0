SPECIFICATION Spec
CONSTANTS
  None = None
  r1 = r1
  Fake = fake
  Issues <- MCIssues
  Workers = {w1, w2}
  Recipes = {r1}
  Scores = {80}
  Examples = 1
  Seeds <- MCSeeds
SYMMETRY WorkerSymmetry
CHECK_DEADLOCK FALSE
INVARIANTS Proven
PROPERTIES Quarantined
