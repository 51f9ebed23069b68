SPECIFICATION Spec
CONSTANTS
  Gens = {g1, g2}
  Metas = {m1}
  Targets = {t1}
  Sockets = {s1, s2}
  Conns = {}
  None = None
  MaxIssues = 2
  MaxAdmin = 3
INVARIANTS OneShellPerGeneration
CHECK_DEADLOCK FALSE
