--------------------------- MODULE MCMemoryStorage ---------------------------
(***************************************************************************)
(* A small instance of MemoryStorage for TLC: aNul continues after a NUL.  *)
(***************************************************************************)
EXTENDS MemoryStorage, TLC

CONSTANTS t1, t2, t3, a, aNul, b

MCCStr(s) == IF s = aNul THEN a ELSE s

MCSymmetry == Permutations({t1, t2, t3})
=============================================================================
