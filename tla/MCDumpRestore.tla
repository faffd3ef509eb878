--------------------------- MODULE MCDumpRestore ----------------------------
(***************************************************************************)
(* A small instance of DumpRestore for TLC.                                *)
(***************************************************************************)
EXTENDS DumpRestore, TLC

CONSTANTS empty, word

MCNumID == 0..2
MCWords == {empty, word}

Str(f) == <<<<f>>>>

(***************************************************************************)
(* word TAB empty, and word NEWLINE 1 TAB empty, which forges a record.    *)
(***************************************************************************)
Tabbed == <<<<word, empty>>>>
Forged == <<<<word>>, <<1, empty>>>>

MCStrings == {Str(f) : f \in MCWords \cup MCNumID} \cup {Tabbed, Forged}
MCEmptyString == Str(empty)

(***************************************************************************)
(* The order of a little-endian key is not the order of the ids.           *)
(***************************************************************************)
MCKeyRank == (0 :> 0) @@ (1 :> 2) @@ (2 :> 1)

Nothing == [n \in MCNumID |-> None]
One == [Nothing EXCEPT ![1] = Str(word)]
Three == (0 :> Str(empty)) @@ (1 :> Str(word)) @@ (2 :> Str(2))

MCSources ==
  {Nothing, One, Three,
   [Nothing EXCEPT ![0] = Tabbed, ![2] = Str(word)],
   [Nothing EXCEPT ![2] = Forged]}
NoSource == {Nothing}
MCTargets == {Nothing, [Nothing EXCEPT ![1] = Str(0)]}
=============================================================================
