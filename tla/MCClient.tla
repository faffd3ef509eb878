------------------------------ MODULE MCClient ------------------------------
(***************************************************************************)
(* A small instance of Client for TLC: two clients and one worker.         *)
(***************************************************************************)
EXTENDS Client, TLC

CONSTANTS c1, c2

MCIdOf(s) == CASE s = "a" -> 1 [] s = "b" -> 2 [] s = " a" -> 3 [] s = "1" -> 4

MCStringOf(i) == CASE i = 1 -> "a" [] i = 2 -> None

MCStrip(l) == IF l = " a" THEN "a" ELSE IF l = " 1" THEN "1" ELSE l

MCIdIn(l) == CASE l = "1" -> 1 [] l = "2" -> 2 [] OTHER -> None

MCLines == {"a", " a", "b", "1", " 1", "2"}

CliJob(type, size, data, garbage) ==
  [program |-> "cli", type |-> type, batch |-> size, fits |-> TRUE,
   files |-> <<data>>, pipe |-> FALSE, garbage |-> garbage]

PyJob(type, size, data) ==
  [CliJob(type, size, data, 0) EXCEPT !.program = "py"]

Pair(x, y) == [c \in Clients |-> IF c = c1 THEN x ELSE y]

(***************************************************************************)
(* Counts that begin well, early, full and at -1; files that end inside,   *)
(* at and just after a batch, of one line and of none; a line that is no   *)
(* id for one program and is for the other; a pipe; and jobs that fail.    *)
(***************************************************************************)
MCJobs ==
  { Pair(CliJob("s2i", 2, <<"a", " a", "b">>, 0), PyJob("i2s", 2, <<"2", " 1">>)),
    Pair(CliJob("i2s", 2, <<"1", "2", "1", "2">>, 1), PyJob("s2i", 0, <<" a", "b">>)),
    Pair(CliJob("i2s", 2, <<"2", "1", "1">>, 7), CliJob("s2i", 2, <<"b">>, 7)),
    Pair(CliJob("i2s", 2, <<"1", " 1">>, 0), CliJob("s2i", 2, <<>>, 5)),
    Pair([CliJob("s2i", 1, <<"a", "b">>, 0) EXCEPT !.pipe = TRUE],
         PyJob("s2i", 2, <<"b", "a", "a">>)),
    Pair([CliJob("i2s", 2, <<"1">>, 0) EXCEPT !.files = <<>>],
         CliJob("s2i", 0, <<"a">>, 0)),
    Pair([PyJob("s2i", 2, <<"a">>) EXCEPT !.fits = FALSE],
         PyJob("", 2, <<"a">>)) }
=============================================================================
