SPECIFICATION FairSpec
CONSTANTS
  Genes = {g1, g2, g3}
  NoGene = NoGene
  Tasks = {t1}
  NoTask = NoTask
  Promoters = {p1, p2}
  Loaders = {l1, l2}
  RedisFails = TRUE
  MaxRollbacks = 1
INVARIANT OneChampion
INVARIANT OnlyPromotedIsServed
PROPERTY RetiredForGood
PROPERTY RetiredIsForgotten
