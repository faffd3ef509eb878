---------------------------- MODULE MCNumerator -----------------------------
(***************************************************************************)
(* Small instances of Numerator for TLC.                                   *)
(***************************************************************************)
EXTENDS Numerator, TLC

CONSTANTS w1, w2, w3, empty, a, aNul, b

TwoWorkers == {w1, w2}
ThreeWorkers == {w1, w2, w3}
Symmetry2 == Permutations(TwoWorkers)
Symmetry3 == Permutations(ThreeWorkers)

(***************************************************************************)
(* aNul is "a" followed by a NUL and something more: c_str() shows "a".    *)
(***************************************************************************)
MCStrings == {empty, a, aNul, b}
MCCStr == (aNul :> a) @@ [s \in MCStrings |-> s]

(***************************************************************************)
(* The order of a little-endian key of two digits.                         *)
(***************************************************************************)
Base == IF MaxId < 4 THEN 2 ELSE 3
MCKeyRank == [n \in MinId..MaxId |-> Base * (n % Base) + (n \div Base)]

Str2Id(strings) == [op |-> "STR2ID", strings |-> strings, ids |-> <<>>]
Id2Str(ids) == [op |-> "ID2STR", strings |-> <<>>, ids |-> ids]
Unknown == [op |-> "OTHER", strings |-> <<a>>, ids |-> <<1>>]

SmallRequests == {Str2Id(<<a>>), Str2Id(<<aNul, empty>>), Id2Str(<<1, 2>>)}
RaceRequests == {Str2Id(<<aNul, empty>>), Str2Id(<<b>>), Id2Str(<<1, 2>>)}
FaultRequests == {Str2Id(<<aNul, empty>>), Str2Id(<<b, a>>)}
FewRequests == {Str2Id(<<a>>), Id2Str(<<1>>), Unknown}

Fresh == [n \in MinId..MaxId |-> None]
FreshDisk == {Fresh}
MCDisks == {Fresh, [Fresh EXCEPT ![1] = empty]}
=============================================================================
