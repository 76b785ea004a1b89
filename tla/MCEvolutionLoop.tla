--------------------------- MODULE MCEvolutionLoop ---------------------------
(***************************************************************************)
(* A population of six, the least one that inherits an elite, and three    *)
(* chromosomes that have to be repaired.  All scores are negative, below   *)
(* the zero of a slice that is not written, and the two best ones are less *)
(* than MinDelta apart.                                                    *)
(***************************************************************************)
EXTENDS EvolutionLoop

Spoiled(fast, mid, long, weightMin) ==
  [fast |-> fast, mid |-> mid, long |-> long, momentum |-> 5, volShort |-> 168,
   volLong |-> 240, reserve |-> 45, weightMin |-> weightMin, weightMax |-> One]

MCRaw == {Spoiled(96, 48, 240, 0), Spoiled(120, 700, 240, 50), Spoiled(20, 60, 4500, 20)}

MCScore(c) == IF c.fast < 96 THEN -9 ELSE IF c.mid < 500 THEN -4 ELSE -3
=============================================================================
