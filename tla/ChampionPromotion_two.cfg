SPECIFICATION Spec
CONSTANTS
  Genes = {g1, g2}
  NoGene = NoGene
  Tasks = {t1, t2}
  NoTask = NoTask
  Promoters = {p1, p2}
  Loaders = {l1}
  RedisFails = FALSE
  MaxRollbacks = 1
INVARIANT OneChampion
