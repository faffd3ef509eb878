-------------------------------- MODULE Wire --------------------------------
(***************************************************************************)
(* The structures of numerator.thrift as they travel: what the generated   *)
(* read and write methods make of them.  A structure on the wire is the    *)
(* sequence of its fields, each with its id, its type and its value; the   *)
(* bytes of a field are TBinaryProtocol's concern and not modelled.        *)
(*                                                                         *)
(* A reader takes the fields it knows, skips those with another id or      *)
(* another type (a newer interface has sent them), and leaves what was not *)
(* sent as it was.  No writer sends a field twice.  A list's element type  *)
(* is not looked at by the readers.                                        *)
(***************************************************************************)
EXTENDS Integers, Sequences

CONSTANTS
  Strings,       (* the strings of queries                                 *)
  NumID,         (* i64                                                    *)
  FailureIdx     (* i32                                                    *)

(***************************************************************************)
(* The enums are cast from an i32 unchecked: 0 is what a constructor puts, *)
(* 3 stands for all that has no name.                                      *)
(***************************************************************************)
Operation == [STR2ID |-> 1, ID2STR |-> 2]
ErrorCode == [STR2ID_QUERIES_DISABLED |-> 1]

Query ==
  [op : 0..3, strings : Seq(Strings), ids : Seq(NumID),
   failures : Seq(FailureIdx)]

EmptyQuery == [op |-> 0, strings |-> <<>>, ids |-> <<>>, failures |-> <<>>]

RefusalText == "string -> id service disabled"

NumeratorException == [code : 0..3, message : {"", RefusalText}]

EmptyException == [code |-> 0, message |-> ""]

-----------------------------------------------------------------------------
(***************************************************************************)
(* The loop of every read method.                                          *)
(***************************************************************************)

Field(id, type, value) == [id |-> id, type |-> type, value |-> value]

Sent(fields, id, type) ==
  {k \in DOMAIN fields : fields[k].id = id /\ fields[k].type = type}

Read(fields, id, type, old) ==
  IF Sent(fields, id, type) = {} THEN old
  ELSE fields[CHOOSE k \in Sent(fields, id, type) : TRUE].value

(***************************************************************************)
(* What a read returns: the structure, and whether it threw INVALID_DATA   *)
(* because a required field is missing.                                    *)
(***************************************************************************)
Parsed(ok, value) == [ok |-> ok, value |-> value]

(***************************************************************************)
(* What a newer writer makes of the fields of a message: outer come before *)
(* them and inner before the fields of every structure in it.              *)
(***************************************************************************)
Extended(outer, inner, fields) ==
  outer \o [k \in DOMAIN fields |-> [fields[k] EXCEPT !.value = inner \o @]]

-----------------------------------------------------------------------------

WriteQueryLosesFailures(q) ==
  << Field(1, "i32", q.op), Field(2, "list", q.strings),
     Field(3, "list", q.ids) >>

WriteQuery(q) ==
  << Field(1, "i32", q.op), Field(2, "list", q.strings),
     Field(3, "list", q.ids), Field(4, "list", q.failures) >>

ReadQueryInOrder(old, fields) ==
  Parsed(Len(fields) >= 4,
         [ op       |-> fields[1].value, strings  |-> fields[2].value,
           ids      |-> fields[3].value, failures |-> fields[4].value ])

ReadQuery(old, fields) ==
  Parsed(Sent(fields, 1, "i32") # {},
         [ op       |-> Read(fields, 1, "i32", old.op),
           strings  |-> Read(fields, 2, "list", old.strings),
           ids      |-> Read(fields, 3, "list", old.ids),
           failures |-> Read(fields, 4, "list", old.failures) ])

WriteException(e) ==
  << Field(1, "i32", e.code), Field(2, "string", e.message) >>

ReadException(old, fields) ==
  Parsed(Sent(fields, 1, "i32") # {},
         [ code    |-> Read(fields, 1, "i32", old.code),
           message |-> Read(fields, 2, "string", old.message) ])

(***************************************************************************)
(* The argument of query.  Sent is the parameter structure of the client,  *)
(* read by the server into a fresh one: a call without the field asks the  *)
(* empty query.                                                            *)
(***************************************************************************)
WriteQueryArgs(q) == << Field(1, "struct", WriteQuery(q)) >>

ReadQueryArgs(fields) ==
  IF Sent(fields, 1, "struct") = {} THEN Parsed(TRUE, EmptyQuery)
  ELSE ReadQuery(EmptyQuery, Read(fields, 1, "struct", <<>>))

(***************************************************************************)
(* The result of query: success or exc, by the flags of __isset.  The      *)
(* client reads success into the query of its caller.                      *)
(***************************************************************************)
Success(q) == [isset |-> {"success"}, success |-> q, exc |-> EmptyException]
Exc(e) == [isset |-> {"exc"}, success |-> EmptyQuery, exc |-> e]

WriteQueryResult(r) ==
  IF "success" \in r.isset
  THEN << Field(0, "struct", WriteQuery(r.success)) >>
  ELSE IF "exc" \in r.isset
       THEN << Field(1, "struct", WriteException(r.exc)) >>
       ELSE <<>>

ReadQueryResult(caller, fields) ==
  LET s == ReadQuery(caller, Read(fields, 0, "struct", WriteQuery(caller)))
      e == ReadException(EmptyException,
             Read(fields, 1, "struct", WriteException(EmptyException)))
  IN  Parsed(s.ok /\ e.ok,
        [ isset |->
            {f \in {"success"} : Sent(fields, 0, "struct") # {}} \cup
            {f \in {"exc"}     : Sent(fields, 1, "struct") # {}},
          success |-> s.value,
          exc     |-> e.value ])

(***************************************************************************)
(* The other methods have neither arguments nor results: the writers send  *)
(* no field and the readers skip all they find.                            *)
(***************************************************************************)
NoFields == <<>>

PingFields == NoFields
DisableFields == NoFields
EnableFields == NoFields
=============================================================================
