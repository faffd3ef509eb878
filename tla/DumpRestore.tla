---------------------------- MODULE DumpRestore -----------------------------
(***************************************************************************)
(* The tools numexport and numimport: DiskStorage::dump writes a database  *)
(* to a file, as text or in binary, and DiskStorage::restore puts the      *)
(* records of a file into a database, kRestoreBatchSize at a time.         *)
(*                                                                         *)
(* One export is followed by any number of imports of its file into one    *)
(* target database: an operator who sees an import fail makes it again.    *)
(* LevelDB lets one process at a time open a database, so the tools do     *)
(* not run beside the server.                                              *)
(*                                                                         *)
(* The text form is read back by lines and by tabs.  What matters of a     *)
(* string is therefore where its newlines and tabs are: a string is a      *)
(* sequence of lines and a line is a sequence of fields.  A field may look *)
(* like a number.                                                          *)
(***************************************************************************)
EXTENDS Integers, Sequences, FiniteSets

CONSTANTS
  NumID,       (* the ids; also the fields that look like one              *)
  Words,       (* the fields that do not                                   *)
  Strings,     (* the strings of the databases                             *)
  EmptyString, (* a default-constructed std::string                        *)
  None,        (* no record                                                *)
  KeyRank,     (* LevelDB's order of the keys                              *)
  BatchSize,   (* kRestoreBatchSize                                        *)
  Sources,     (* databases to export                                      *)
  Targets,     (* databases to import into                                 *)
  Faults       (* what may go wrong: a subset of FaultKinds                *)

Fields == Words \cup NumID

Lines == Seq(Fields) \ {<<>>}

Records == [NumID -> Strings \cup {None}]

(***************************************************************************)
(* cut: the export ends early (a kill, a full disk that dump does not      *)
(* notice, an iterator error that ends its loop); write: LevelDB's Write   *)
(* returns an error; read: an I/O error on the file; kill: the import dies.*)
(***************************************************************************)
FaultKinds == {"cut", "write", "read", "kill"}

ASSUME StringAssumption ==
  /\ Strings \subseteq Seq(Lines) \ {<<>>}
  /\ \A f \in Fields : <<<<f>>>> \in Strings
  /\ EmptyString \in Strings
  /\ None \notin Strings

ASSUME IdAssumption ==
  /\ Words \cap NumID = {}
  /\ IsFiniteSet(NumID)
  /\ KeyRank \in [NumID -> Int]
  /\ \A m, n \in NumID : KeyRank[m] = KeyRank[n] => m = n

ASSUME EnvironmentAssumption ==
  /\ BatchSize \in Nat \ {0}
  /\ Sources \subseteq Records
  /\ Targets \subseteq Records
  /\ Faults \subseteq FaultKinds

-----------------------------------------------------------------------------

VARIABLES
  source,   (* the database that is exported                               *)
  db,       (* the target database                                         *)
  before,   (* history: db when the present import began                   *)
  file,     (* the dump                                                    *)
  pc,       (* which tool runs, or how the last one ended                  *)
  it,       (* dump: the records its iterator has still to show            *)
  binary,   (* restore: the -b switch of numimport                         *)
  stream,   (* restore: the state of the input stream                      *)
  rest,     (* restore: what is not read yet                               *)
  key,      (* restore: the local of that name                             *)
  value,    (* restore: the local of that name                             *)
  pairs,    (* restore: kv_pairs, by the last value under each key         *)
  count     (* restore: kv_pairs.size()                                    *)

databases == <<source, db, before>>
locals == <<binary, stream, rest, key, value, pairs, count>>
vars == <<databases, file, pc, it, locals>>

NoRecords == [n \in NumID |-> None]

(***************************************************************************)
(* An item of a dump is <<key, value>> in binary and a line in text.  Only *)
(* the last item can be cut.  whole is history: dump came to its end with  *)
(* nothing lost.                                                           *)
(***************************************************************************)
Contents(format) ==
  IF format = "binary" THEN Seq(NumID \X Strings) ELSE Seq(Lines)

TypeOK ==
  /\ source \in Records /\ db \in Records /\ before \in Records
  /\ file = [format |-> file.format, items |-> file.items,
             cut |-> file.cut, whole |-> file.whole]
  /\ file.format \in {"binary", "text"}
  /\ file.items \in Contents(file.format)
  /\ file.cut \in {"none", "magic", "key", "value", "line"}
  /\ file.whole \in BOOLEAN
  /\ pc \in {"idle", "dumping", "dumped", "reading", "failed", "done"}
  /\ it \in Records
  /\ binary \in BOOLEAN
  /\ stream \in {"good", "eof", "bad"}
  /\ rest \in Contents(file.format)
  /\ key \in NumID
  /\ value \in Strings
  /\ pairs \in Records
  /\ count \in 0..BatchSize - 1

Init ==
  /\ source \in Sources
  /\ db \in Targets
  /\ before = db
  /\ file = [format |-> "text", items |-> <<>>, cut |-> "none",
             whole |-> FALSE]
  /\ pc = "idle"
  /\ it = NoRecords
  /\ binary = FALSE
  /\ stream = "good"
  /\ rest = <<>>
  /\ key \in NumID
  /\ value = EmptyString
  /\ pairs = NoRecords
  /\ count = 0

-----------------------------------------------------------------------------
(***************************************************************************)
(* numexport: main and DiskStorage::dump.                                  *)
(***************************************************************************)

(***************************************************************************)
(* The -b switch is passed on only with -o: on standard output the dump    *)
(* is always text.                                                         *)
(***************************************************************************)
Export(b, toFile) ==
  /\ pc = "idle"
  /\ pc' = "dumping"
  /\ file' = [file EXCEPT !.format = IF b /\ toFile THEN "binary" ELSE "text"]
  /\ it' = source
  /\ UNCHANGED <<databases, locals>>

TextLines(n, v) ==
  [i \in 1..Len(v) |-> IF i = 1 THEN <<n>> \o v[1] ELSE v[i]]

Items(n, v) ==
  IF file.format = "binary" THEN <<<<n, v>>>> ELSE TextLines(n, v)

Remaining == {n \in NumID : it[n] # None}

IsNext(n) ==
  n \in Remaining /\ \A m \in Remaining : KeyRank[n] <= KeyRank[m]

DumpRecord ==
  /\ pc = "dumping"
  /\ \E n \in NumID :
       /\ IsNext(n)
       /\ file' = [file EXCEPT !.items = @ \o Items(n, it[n])]
       /\ it' = [it EXCEPT ![n] = None]
  /\ UNCHANGED <<databases, pc, locals>>

DumpDone ==
  /\ pc = "dumping"
  /\ Remaining = {}
  /\ pc' = "dumped"
  /\ file' = [file EXCEPT !.whole = TRUE]
  /\ UNCHANGED <<databases, it, locals>>

(***************************************************************************)
(* A line whose end was lost in its k-th field.                            *)
(***************************************************************************)
Cut(line) ==
  UNION {{SubSeq(line, 1, k - 1) \o <<f>> : f \in Fields} : k \in 1..Len(line)}

(***************************************************************************)
(* The file ends early: between two records, inside the magic number,      *)
(* inside a record (in its key, or after it in the size or the value), or  *)
(* inside a line.                                                          *)
(***************************************************************************)
DumpCut ==
  /\ "cut" \in Faults
  /\ pc = "dumping"
  /\ pc' = "dumped"
  /\ it' = NoRecords
  /\ \/ file' = file
     \/ /\ file.format = "binary"
        /\ file.items = <<>>
        /\ file' = [file EXCEPT !.cut = "magic"]
     \/ /\ file.format = "binary"
        /\ \E n \in NumID, c \in {"key", "value"} :
             /\ IsNext(n)
             /\ file' = [file EXCEPT !.items = Append(@, <<n, it[n]>>),
                                     !.cut = c]
     \/ /\ file.format = "text"
        /\ \E n \in NumID :
             /\ IsNext(n)
             /\ \E j \in 1..Len(it[n]) :
                  \E line \in Cut(TextLines(n, it[n])[j]) :
                    file' = [file EXCEPT
                      !.items = @ \o SubSeq(TextLines(n, it[n]), 1, j - 1)
                                  \o <<line>>,
                      !.cut = "line"]
  /\ UNCHANGED <<databases, locals>>

-----------------------------------------------------------------------------
(***************************************************************************)
(* numimport: main and DiskStorage::restore.                               *)
(***************************************************************************)

(***************************************************************************)
(* What restore throws at before it has a record: a wrong magic number,    *)
(* or a first line that begins with the magic number and not with an id.   *)
(***************************************************************************)
Refused(b) ==
  IF b THEN file.format # "binary" \/ file.cut = "magic"
       ELSE file.format = "binary"

(***************************************************************************)
(* Faulty variant: no magic number is checked, and what is left of a text  *)
(* is shorter than a record.                                               *)
(***************************************************************************)
ImportUnchecked(b) ==
  /\ pc \in {"dumped", "failed", "done"}
  /\ pc' = IF ~b /\ Refused(b) THEN "failed" ELSE "reading"
  /\ rest' = IF Refused(b) THEN <<>> ELSE file.items
  /\ binary' = b
  /\ before' = db
  /\ stream' = "good"
  /\ key' \in NumID
  /\ value' = EmptyString
  /\ pairs' = NoRecords
  /\ count' = 0
  /\ UNCHANGED <<source, db, file, it>>

(***************************************************************************)
(* key is not initialised.  A file that lost its end inside the magic      *)
(* number may be empty, and is then an empty text.                         *)
(***************************************************************************)
Import(b) ==
  /\ pc \in {"dumped", "failed", "done"}
  /\ \/ ~Refused(b) /\ pc' = "reading" /\ rest' = file.items
     \/ Refused(b) /\ pc' = "failed" /\ rest' = <<>>
     \/ ~b /\ file.cut = "magic" /\ pc' = "done" /\ rest' = <<>>
  /\ binary' = b
  /\ before' = db
  /\ stream' = "good"
  /\ key' \in NumID
  /\ value' = EmptyString
  /\ pairs' = NoRecords
  /\ count' = 0
  /\ UNCHANGED <<source, db, file, it>>

(***************************************************************************)
(* DiskStorage::write: one atomic batch, over what the database has.       *)
(***************************************************************************)
Put(d, p) == [n \in NumID |-> IF p[n] # None THEN p[n] ELSE d[n]]

(***************************************************************************)
(* Faulty variant: an error of write is ignored.                           *)
(***************************************************************************)
FlushGoesOn(p, next) ==
  /\ pairs' = NoRecords
  /\ count' = 0
  /\ pc' = next
  /\ \/ db' = Put(db, p)
     \/ "write" \in Faults /\ UNCHANGED db

Flush(p, next) ==
  /\ pairs' = NoRecords
  /\ count' = 0
  /\ \/ db' = Put(db, p) /\ pc' = next
     \/ "write" \in Faults /\ pc' = "failed" /\ UNCHANGED db

(***************************************************************************)
(* Faulty variant: > for >= in the test of the batch's size.               *)
(***************************************************************************)
PushLate(k, v) ==
  LET p == [pairs EXCEPT ![k] = v] IN
    /\ key' = k
    /\ value' = v
    /\ IF count + 1 <= BatchSize
       THEN pairs' = p /\ count' = count + 1 /\ UNCHANGED <<db, pc>>
       ELSE Flush(p, "reading")

Push(k, v) ==
  LET p == [pairs EXCEPT ![k] = v] IN
    /\ key' = k
    /\ value' = v
    /\ IF count + 1 < BatchSize
       THEN pairs' = p /\ count' = count + 1 /\ UNCHANGED <<db, pc>>
       ELSE Flush(p, "reading")

Reading(b) == pc = "reading" /\ binary = b

LastIsCut == Len(rest) = 1 /\ file.cut # "none"

ReadRecord ==
  /\ Reading(TRUE) /\ stream = "good"
  /\ rest # <<>> /\ ~LastIsCut
  /\ Push(Head(rest)[1], Head(rest)[2])
  /\ rest' = Tail(rest)
  /\ UNCHANGED <<source, before, file, it, binary, stream>>

(***************************************************************************)
(* A read that gets only part of its bytes.  In the key: some bytes of key *)
(* are new, and value_size and the buffer are those of the record before.  *)
(* After it: the value is made of what the buffer happens to hold.         *)
(***************************************************************************)
TornKey == \E k \in NumID : Push(k, value)

TornValue == rest # <<>> /\ \E v \in Strings : Push(Head(rest)[1], v)

ReadCutRecord ==
  /\ Reading(TRUE) /\ stream = "good"
  /\ LastIsCut
  /\ IF file.cut = "key" THEN TornKey ELSE TornValue
  /\ stream' = "eof"
  /\ rest' = <<>>
  /\ UNCHANGED <<source, before, file, it, binary>>

(***************************************************************************)
(* Faulty variant: the state of the stream is cleared after the read.      *)
(***************************************************************************)
ReadPastEndClears ==
  /\ Reading(TRUE) /\ stream = "good"
  /\ rest = <<>>
  /\ Push(key, value)
  /\ UNCHANGED <<source, before, file, it, binary, stream, rest>>

(***************************************************************************)
(* eof() is not set by reading the last byte: the loop runs once more,     *)
(* its reads fail, and it pushes what key and value hold.                  *)
(***************************************************************************)
ReadPastEnd ==
  /\ Reading(TRUE) /\ stream = "good"
  /\ rest = <<>>
  /\ Push(key, value)
  /\ stream' = "eof"
  /\ UNCHANGED <<source, before, file, it, binary, rest>>

(***************************************************************************)
(* An I/O error sets badbit and not eofbit.  The loop goes on: every read  *)
(* fails and the same pair is pushed and written for ever.                 *)
(***************************************************************************)
ReadError ==
  /\ "read" \in Faults
  /\ Reading(TRUE) /\ stream = "good"
  /\ TornKey \/ TornValue
  /\ stream' = "bad"
  /\ UNCHANGED <<source, before, file, it, binary, rest>>

Spin ==
  /\ Reading(TRUE) /\ stream = "bad"
  /\ Push(key, value)
  /\ UNCHANGED <<source, before, file, it, binary, stream, rest>>

Fail == pc' = "failed" /\ pairs' = NoRecords /\ count' = 0

(***************************************************************************)
(* A line of a text: the first field is converted, or an exception ends    *)
(* the import; the second is the value; others are dropped.  A line with   *)
(* one field has no items[1]: reading it crashes or yields some string.    *)
(***************************************************************************)
ReadLine ==
  /\ Reading(FALSE) /\ stream = "good"
  /\ rest # <<>>
  /\ LET line == Head(rest) IN
       \/ /\ line[1] \in NumID /\ Len(line) > 1
          /\ Push(line[1], <<<<line[2]>>>>)
       \/ /\ line[1] \in NumID /\ Len(line) = 1
          /\ \E v \in Strings : Push(line[1], v)
       \/ /\ line[1] \notin NumID \/ Len(line) = 1
          /\ Fail
          /\ UNCHANGED <<db, key, value>>
  /\ rest' = Tail(rest)
  /\ UNCHANGED <<source, before, file, it, binary, stream>>

(***************************************************************************)
(* getline returns a bad stream: the loop ends as at the end of the file.  *)
(***************************************************************************)
ReadLineError ==
  /\ "read" \in Faults
  /\ Reading(FALSE) /\ stream = "good"
  /\ stream' = "bad"
  /\ rest' = <<>>
  /\ UNCHANGED <<databases, file, pc, it, binary, key, value, pairs, count>>

AtEnd == IF binary THEN stream = "eof" ELSE rest = <<>>

(***************************************************************************)
(* Faulty variant: the last, smaller batch is forgotten.                   *)
(***************************************************************************)
FinishForgets ==
  /\ pc = "reading"
  /\ AtEnd
  /\ pc' = "done"
  /\ UNCHANGED <<databases, file, it, locals>>

Finish ==
  /\ pc = "reading"
  /\ AtEnd
  /\ IF count > 0
     THEN Flush(pairs, "done")
     ELSE pc' = "done" /\ UNCHANGED <<db, pairs, count>>
  /\ UNCHANGED <<source, before, file, it, binary, stream, rest, key, value>>

Kill ==
  /\ "kill" \in Faults
  /\ pc = "reading"
  /\ Fail
  /\ UNCHANGED <<databases, file, it, binary, stream, rest, key, value>>

-----------------------------------------------------------------------------

DumpStep == DumpRecord \/ DumpDone

ReadStep ==
  \/ ReadRecord \/ ReadCutRecord \/ ReadPastEnd \/ Spin
  \/ ReadLine
  \/ Finish

Next ==
  \/ \E b, toFile \in BOOLEAN : Export(b, toFile)
  \/ DumpRecord
  \/ DumpDone
  \/ DumpCut
  \/ \E b \in BOOLEAN : Import(b)
  \/ ReadRecord
  \/ ReadCutRecord
  \/ ReadPastEnd
  \/ ReadError
  \/ Spin
  \/ ReadLine
  \/ ReadLineError
  \/ Finish
  \/ Kill

Spec == Init /\ [][Next]_vars

(***************************************************************************)
(* A tool that runs goes on running.  Nobody has to start one.             *)
(***************************************************************************)
FairSpec == Spec /\ WF_vars(DumpStep) /\ WF_vars(ReadStep)

-----------------------------------------------------------------------------
(***************************************************************************)
(* Properties.                                                             *)
(***************************************************************************)

(***************************************************************************)
(* The strings that the text form can carry: one line of one field.        *)
(***************************************************************************)
Plain(v) == Len(v) = 1 /\ Len(v[1]) = 1

AllPlain == \A n \in NumID : source[n] # None => Plain(source[n])

(***************************************************************************)
(* The import is of the kind the file was made for, and the file's format  *)
(* can carry the database.                                                 *)
(***************************************************************************)
Suits ==
  /\ binary <=> file.format = "binary"
  /\ binary \/ AllPlain

(***************************************************************************)
(* A whole dump, of a database it can carry, is read with no I/O error.    *)
(***************************************************************************)
Undisturbed ==
  /\ file.whole /\ Suits /\ stream # "bad"
  /\ binary => source # NoRecords

(***************************************************************************)
(* restore after dump gives the database that was dumped, over what the    *)
(* target had: whatever the order of the keys, the size of the last batch, *)
(* the loop's extra turn at the end of a binary dump, and the imports that *)
(* failed before.  (An empty binary dump is excepted: see RestoreOfAny.)   *)
(***************************************************************************)
RoundTrip == pc = "done" /\ Undisturbed => db = Put(before, source)

(***************************************************************************)
(* The same without the exception.  numimport's usage: "-b       restore   *)
(* from binary dump".  False: the extra turn of the loop pushes a key that *)
(* was never set.                                                          *)
(***************************************************************************)
RestoreOfAny ==
  pc = "done" /\ file.whole /\ Suits /\ stream # "bad"
  => db = Put(before, source)

(***************************************************************************)
(* An item of a dump shows a record of the source src as it is.            *)
(***************************************************************************)
Shown(item, format) == IF format = "binary" THEN item[2] ELSE <<<<item[2]>>>>

Shows(item, format, src) ==
  /\ Len(item) = 2
  /\ item[1] \in NumID
  /\ src[item[1]] = Shown(item, format)

Listed(items, n) == \E i \in 1..Len(items) : items[i][1] = n

(***************************************************************************)
(* The inductive invariant behind RoundTrip.  While dump runs, a record of *)
(* the source is still in the iterator or already in the file.  restore    *)
(* gets as far as reading only in the file's own format.                   *)
(***************************************************************************)
DumpInv ==
  /\ pc \in {"idle", "dumping"} => ~file.whole /\ file.cut = "none"
  /\ pc = "idle" => file.items = <<>> /\ rest = <<>>
  /\ pc = "reading" => (binary <=> file.format = "binary")
  /\ file.whole => file.cut = "none"
  /\ pc = "dumping" =>
       \A n \in NumID :
         /\ it[n] # None => it[n] = source[n]
         /\ source[n] # None => it[n] # None \/ Listed(file.items, n)
  /\ file.whole => \A n \in NumID : source[n] # None => Listed(file.items, n)
  /\ file.cut = "none" /\ (file.format = "binary" \/ AllPlain) =>
       \A i \in 1..Len(file.items) : Shows(file.items[i], file.format, source)

(***************************************************************************)
(* While restore runs, a record of the source is still to be read, or in   *)
(* the batch, or in the target; the target and the batch have nothing else *)
(* that is new; and at the end of a binary dump key and value hold a       *)
(* record, because one was read.                                           *)
(***************************************************************************)
ReadInv ==
  /\ \A i \in 1..Len(rest) : Shows(rest[i], file.format, source)
  /\ \A n \in NumID :
       /\ pairs[n] \in {None, source[n]}
       /\ db[n] \in {before[n], source[n]}
       /\ source[n] = None => db[n] = before[n]
       /\ source[n] # None =>
            Put(db, pairs)[n] = source[n] \/ Listed(rest, n)
  /\ count = 0 => pairs = NoRecords
  /\ stream = "eof" => rest = <<>>
  /\ binary => rest # <<>> \/ source[key] = value

CopyInv ==
  /\ DumpInv
  /\ pc = "reading" /\ Undisturbed => ReadInv
  /\ RoundTrip

(***************************************************************************)
(* The source's records that the first j items of the dump stand for.      *)
(***************************************************************************)
FirstItems(j) ==
  [n \in NumID |-> IF \E i \in 1..j : file.items[i][1] = n
                   THEN source[n] ELSE None]

(***************************************************************************)
(* An import at any point, a failed or killed one, and one of a file that  *)
(* lost its end have put a prefix of the dump, with at most one id wrong:  *)
(* restore neither skips a record nor damages a second one, even when it   *)
(* runs on after an I/O error.  While all is well the prefix is exact and, *)
(* before the end, a whole number of batches.                              *)
(***************************************************************************)
PrefixRestored ==
  pc \in {"reading", "failed", "done"} /\ Suits =>
    \E j \in 0..Len(file.items) :
      LET expected == Put(before, FirstItems(j)) IN
        /\ Cardinality({n \in NumID : db[n] # expected[n]}) <= 1
        /\ file.whole /\ stream = "good" =>
             /\ db = expected
             /\ pc # "done" => j % BatchSize = 0

(***************************************************************************)
(* A dump of the other format is refused before anything is written: a     *)
(* "numexport -b" to standard output, which is text, cannot harm the       *)
(* database it is imported into.                                           *)
(***************************************************************************)
WrongFormatWritesNothing ==
  (binary <=> file.format # "binary") /\ pc \in {"reading", "failed", "done"}
  => db = before

(***************************************************************************)
(* dump and restore come to an end, except a binary restore after an I/O   *)
(* error on its file.                                                      *)
(***************************************************************************)
ToolsEnd ==
  pc \in {"dumping", "reading"} ~>
    \/ pc \notin {"dumping", "reading"}
    \/ binary /\ stream = "bad"
=============================================================================
