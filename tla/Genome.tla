-------------------------------- MODULE Genome --------------------------------
(***************************************************************************)
(* The chromosome of the strategy (quant/genome.go): its bounds and the    *)
(* repair of a chromosome that sampling, mutation or crossover has spoiled.*)
(* Fields that another field bounds are modelled; every other field is     *)
(* clipped to its own bounds and no more.                                  *)
(*                                                                         *)
(* Windows are numbers of bars, weights multiples of a hundredth, which is *)
(* also the least difference of two weights.                               *)
(***************************************************************************)
EXTENDS Integers

One == 100

RawChromosome ==
  [fast : Int, mid : Int, long : Int, momentum : Int, volShort : Int, volLong : Int,
   reserve : Int, weightMin : Int, weightMax : Int]

\* HardBounds
FastN == [min |-> 6, max |-> 96]
MidN == [min |-> 48, max |-> 720]
LongN == [min |-> 240, max |-> 4320]
MomentumN == [min |-> 12, max |-> 720]
VolShortN == [min |-> 6, max |-> 168]
VolLongN == [min |-> 240, max |-> 4320]
Reserve == [min |-> 2, max |-> 30]
WeightMin == [min |-> 0, max |-> 30]
WeightMax == [min |-> 40, max |-> One]

Within(bound) == bound.min..bound.max

Bounded ==
  [fast : Within(FastN), mid : Within(MidN), long : Within(LongN),
   momentum : Within(MomentumN), volShort : Within(VolShortN), volLong : Within(VolLongN),
   reserve : Within(Reserve), weightMin : Within(WeightMin), weightMax : Within(WeightMax)]

Least(a, b) == IF a < b THEN a ELSE b
Greatest(a, b) == IF a > b THEN a ELSE b

\* ClipFloat64, clampByKey, clampIntByKey
Clip(value, bound) == Least(Greatest(value, bound.min), bound.max)

ClampByKey(c) ==
  [fast |-> Clip(c.fast, FastN), mid |-> Clip(c.mid, MidN), long |-> Clip(c.long, LongN),
   momentum |-> Clip(c.momentum, MomentumN),
   volShort |-> Clip(c.volShort, VolShortN), volLong |-> Clip(c.volLong, VolLongN),
   reserve |-> Clip(c.reserve, Reserve),
   weightMin |-> Clip(c.weightMin, WeightMin), weightMax |-> Clip(c.weightMax, WeightMax)]

\* ema_mid_n after ema_fast_n, ema_long_n after ema_mid_n, momentum_n between
\* the fast and the long window.
MidOf(fast, mid) == Clip(Greatest(mid, 2 * fast), MidN)
LongOf(mid, long) == Clip(Greatest(long, 2 * mid), LongN)
MomentumOf(fast, long, momentum) == Clip(Least(Greatest(momentum, fast), long), MomentumN)
VolLongOf(volShort, volLong) == Clip(Greatest(volLong, 3 * volShort), VolLongN)

\* The greatest weight leaves the reserve; weights that cross are the default
\* ones.
WeightsOf(reserve, low, high) ==
  LET top == Least(high, One - reserve)
      bottom == Clip(IF low >= top THEN 2 ELSE low, [min |-> 0, max |-> One])
      ceiling == IF low >= top THEN Least(85, One - reserve) ELSE top
  IN [low |-> bottom, high |-> Clip(ceiling, [min |-> bottom + 1, max |-> One])]

\* Mutant of ClampChromosome: the long window is repaired before the mid one.
ClampLongFirst(c) ==
  LET k == ClampByKey(c) IN
  [k EXCEPT !.mid = MidOf(k.fast, k.mid), !.long = LongOf(k.mid, k.long)]

ClampChromosome(c) ==
  LET k == ClampByKey(c)
      mid == MidOf(k.fast, k.mid)
      long == LongOf(mid, k.long)
      weights == WeightsOf(k.reserve, k.weightMin, k.weightMax)
  IN [fast |-> k.fast, mid |-> mid, long |-> long,
      momentum |-> MomentumOf(k.fast, long, k.momentum),
      volShort |-> k.volShort, volLong |-> VolLongOf(k.volShort, k.volLong),
      reserve |-> k.reserve, weightMin |-> weights.low, weightMax |-> weights.high]

\* What docs/strategy-math-engine.md, 7.3, asks of a chromosome, with the
\* bounds of 7.1.
IsSound(c) ==
  /\ c \in Bounded
  /\ 2 * c.fast <= c.mid /\ 2 * c.mid <= c.long
  /\ c.fast <= c.momentum /\ c.momentum <= c.long
  /\ 3 * c.volShort <= c.volLong
  /\ c.weightMin < c.weightMax /\ c.weightMax + c.reserve <= One
=============================================================================
