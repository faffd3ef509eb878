------------------------------- MODULE MCRpc --------------------------------
(***************************************************************************)
(* A small instance of Rpc for TLC: ids from -2 to 2 and a first one near  *)
(* the top, so that the numbering rolls over.                              *)
(***************************************************************************)
EXTENDS Rpc, TLC

CONSTANTS t1, t2, t3, t4, junk, str

MCStrings == {str}
MCNumID == 0..2
MCFailureIdx == 0..2
MCMinSeq == -2

ToId == [EmptyQuery EXCEPT !.op = Operation.STR2ID, !.strings = <<str>>]
ToStr == [EmptyQuery EXCEPT !.op = Operation.ID2STR, !.ids = <<1, 2>>]

MCRequests == {ToStr}

(***************************************************************************)
(* A query of ids is answered with a string and a failure.                 *)
(***************************************************************************)
MCAnswer(q) ==
  IF q.op = Operation.STR2ID THEN [EmptyQuery EXCEPT !.op = q.op, !.ids = <<1>>]
  ELSE [EmptyQuery EXCEPT !.op = q.op, !.strings = <<str, str>>, !.failures = <<1>>]

(***************************************************************************)
(* A field with an unknown id, and one with a type of its own.             *)
(***************************************************************************)
Newer == <<Field(7, "struct", junk), Field(1, "bool", junk)>>

(***************************************************************************)
(* The same inside the structures, next to fields 1 and 2 of this type.    *)
(***************************************************************************)
Inner == <<Field(5, "list", junk), Field(2, "i64", junk)>>

Program(client, users, uses, n, map, new, in, faults) ==
  [stub |-> client, threads |-> users, uses |-> uses, calls |-> n,
   processMap |-> map, newer |-> new, inner |-> in, faults |-> faults]

(***************************************************************************)
(* A program of one thread; programs whose threads query, or lose the      *)
(* connection; one with a thread more, so that one is woken for nothing;   *)
(* and one whose server is older and does not know disable_s2i.            *)
(***************************************************************************)
MCPrograms ==
  { Program("plain", {t1}, Methods, 2, Methods, Newer, Inner, FaultKinds),
    Program("concurrent", {t1, t2, t3}, {"query"}, 3, Methods, Newer, Inner, {}),
    Program("concurrent", {t1, t2, t3}, {"ping"}, 3, Methods, <<>>, <<>>, FaultKinds),
    Program("concurrent", {t1, t2, t3, t4}, {"ping"}, 4, Methods, <<>>, <<>>, {}),
    Program("concurrent", {t1, t2}, Methods \ {"ping"}, 2,
            Methods \ {"disable_s2i"}, Newer, Inner, FaultKinds) }
=============================================================================
