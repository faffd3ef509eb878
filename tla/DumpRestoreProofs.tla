------------------------- MODULE DumpRestoreProofs --------------------------
(***************************************************************************)
(* Theorems about DumpRestore, for every database, batch size, key order   *)
(* and set of faults.                                                      *)
(***************************************************************************)
EXTENDS DumpRestore, TLAPS

(***************************************************************************)
(* Types.                                                                  *)
(***************************************************************************)

(***************************************************************************)
(* A string has a first line, and each of its lines a first field.         *)
(***************************************************************************)
LEMMA StringType ==
  ASSUME NEW v \in Strings
  PROVE  /\ v \in Seq(Lines)
         /\ Len(v) \in Nat \ {0}
         /\ \A i \in 1..Len(v) : v[i] \in Seq(Fields) /\ Len(v[i]) \in Nat \ {0}
  <1>1. v \in Seq(Lines) /\ v # <<>>
    BY StringAssumption
  <1>2. \A i \in 1..Len(v) : v[i] \in Lines
    BY <1>1
  <1>3. \A l \in Lines : l \in Seq(Fields) /\ Len(l) \in Nat \ {0}
    BY DEF Lines
  <1>. QED
    BY <1>1, <1>2, <1>3

(***************************************************************************)
(* What dump makes of a record in text is a sequence of lines.             *)
(***************************************************************************)
LEMMA TextLinesType ==
  ASSUME NEW n \in NumID, NEW v \in Strings
  PROVE  /\ TextLines(n, v) \in Seq(Lines)
         /\ Len(TextLines(n, v)) = Len(v)
  <1>1. \A i \in 1..Len(v) : TextLines(n, v)[i] \in Lines
    <2>. TAKE i \in 1..Len(v)
    <2>1. v[i] \in Seq(Fields) /\ Len(v[i]) \in Nat \ {0}
      BY StringType
    <2>2. v[1] \in Seq(Fields) /\ Len(v[1]) \in Nat
      BY StringType
    <2>3. <<n>> \in Seq(Fields) /\ Len(<<n>>) = 1
      BY DEF Fields
    <2>4. <<n>> \o v[1] \in Seq(Fields) /\ Len(<<n>> \o v[1]) = 1 + Len(v[1])
      BY <2>2, <2>3
    <2>5. <<n>> \o v[1] \in Lines
      BY <2>2, <2>4 DEF Lines
    <2>6. v[i] \in Lines
      BY <2>1 DEF Lines
    <2>. QED
      BY <2>5, <2>6 DEF TextLines
  <1>2. Len(v) \in Nat
    BY StringType
  <1>. QED
    BY <1>1, <1>2 DEF TextLines

(***************************************************************************)
(* What is left of a line is a line.                                       *)
(***************************************************************************)
LEMMA CutType ==
  ASSUME NEW line \in Lines, NEW l \in Cut(line)
  PROVE  l \in Lines
  <1>1. PICK k \in 1..Len(line), f \in Fields :
          l = SubSeq(line, 1, k - 1) \o <<f>>
    BY DEF Cut
  <1>2. line \in Seq(Fields) /\ Len(line) \in Nat
    BY DEF Lines
  <1>3. SubSeq(line, 1, k - 1) \in Seq(Fields)
    BY <1>2
  <1>4. <<f>> \in Seq(Fields) /\ Len(<<f>>) = 1
    OBVIOUS
  <1>5. l \in Seq(Fields) /\ Len(l) = Len(SubSeq(line, 1, k - 1)) + 1
    BY <1>1, <1>3, <1>4
  <1>6. Len(SubSeq(line, 1, k - 1)) \in Nat
    BY <1>3
  <1>7. Len(l) # 0
    BY <1>5, <1>6
  <1>8. l = <<>> => Len(l) = 0
    OBVIOUS
  <1>. QED
    BY <1>5, <1>7, <1>8 DEF Lines

Pushed ==
  /\ key \in NumID /\ value \in Strings
  /\ db \in Records /\ pairs \in Records
  /\ count \in 0..BatchSize - 1
  /\ pc \in {"reading", "failed"}

(***************************************************************************)
(* Pushing a pair keeps the batch below its size: a full one is written.   *)
(***************************************************************************)
LEMMA PushType ==
  ASSUME TypeOK, pc = "reading", NEW k \in NumID, NEW v \in Strings, Push(k, v)
  PROVE  Pushed'
  <1>1. [pairs EXCEPT ![k] = v] \in Records
    BY DEF TypeOK, Records
  <1>2. NoRecords \in Records
    BY DEF NoRecords, Records
  <1>3. Put(db, [pairs EXCEPT ![k] = v]) \in Records
    BY <1>1 DEF Put, TypeOK, Records
  <1>. QED
    BY <1>1, <1>2, <1>3, EnvironmentAssumption DEF Push, Flush, TypeOK, Pushed

(***************************************************************************)
(* What restore reads is typed by the format of the file.                  *)
(***************************************************************************)
LEMMA RestType ==
  ASSUME TypeOK, rest # <<>>
  PROVE  /\ Tail(rest) \in Contents(file.format)
         /\ file.format = "binary" =>
              Head(rest)[1] \in NumID /\ Head(rest)[2] \in Strings
         /\ file.format = "text" => Head(rest) \in Lines
  <1>1. CASE file.format = "binary"
    <2>1. rest \in Seq(NumID \X Strings)
      BY <1>1 DEF TypeOK, Contents
    <2>2. Head(rest) \in NumID \X Strings /\ Tail(rest) \in Seq(NumID \X Strings)
      BY <2>1
    <2>. QED
      BY <1>1, <2>2 DEF Contents
  <1>2. CASE file.format = "text"
    <2>1. rest \in Seq(Lines)
      BY <1>2 DEF TypeOK, Contents
    <2>2. Head(rest) \in Lines /\ Tail(rest) \in Seq(Lines)
      BY <2>1
    <2>. QED
      BY <1>2, <2>2 DEF Contents
  <1>. QED
    BY <1>1, <1>2 DEF TypeOK

(***************************************************************************)
(* The items dump writes for a record.                                     *)
(***************************************************************************)
LEMMA ItemsType ==
  ASSUME TypeOK, NEW n \in NumID, NEW v \in Strings
  PROVE  /\ Items(n, v) \in Contents(file.format)
         /\ Len(Items(n, v)) \in Nat \ {0}
         /\ Items(n, v)[1][1] = n
  <1>1. CASE file.format = "binary"
    BY <1>1 DEF Items, Contents
  <1>2. CASE file.format = "text"
    <2>1. Items(n, v) = TextLines(n, v)
      BY <1>2 DEF Items
    <2>2. TextLines(n, v) \in Seq(Lines) /\ Len(TextLines(n, v)) \in Nat \ {0}
      BY TextLinesType, StringType
    <2>3. TextLines(n, v)[1] = <<n>> \o v[1]
      BY StringType DEF TextLines
    <2>4. v[1] \in Seq(Fields) /\ Len(v[1]) \in Nat
      BY StringType
    <2>5. <<n>> \in Seq(Fields) /\ Len(<<n>>) = 1 /\ <<n>>[1] = n
      BY DEF Fields
    <2>6. (<<n>> \o v[1])[1] = n
      BY <2>4, <2>5
    <2>. QED
      BY <1>2, <2>1, <2>2, <2>3, <2>6 DEF Contents
  <1>. QED
    BY <1>1, <1>2 DEF TypeOK

(***************************************************************************)
(* The contents of a dump can be put together and cut off.                 *)
(***************************************************************************)
LEMMA ContentsAreSequences ==
  ASSUME NEW format
  PROVE  /\ <<>> \in Contents(format)
         /\ \A s, t \in Contents(format) : s \o t \in Contents(format)
         /\ \A s \in Contents(format) :
              /\ Len(s) \in Nat
              /\ \A j \in Nat : j <= Len(s) => SubSeq(s, 1, j) \in Contents(format)
  <1>. DEFINE S == IF format = "binary" THEN NumID \X Strings ELSE Lines
  <1>1. Contents(format) = Seq(S)
    BY DEF Contents
  <1>. HIDE DEF S
  <1>. QED
    BY <1>1

(***************************************************************************)
(* A text that is cut inside a string is a text.                           *)
(***************************************************************************)
LEMMA CutItemType ==
  ASSUME TypeOK, file.format = "text",
         NEW n \in NumID, NEW v \in Strings, NEW j \in 1..Len(v),
         NEW line \in Cut(TextLines(n, v)[j])
  PROVE  file.items \o SubSeq(TextLines(n, v), 1, j - 1) \o <<line>>
           \in Contents("text")
  <1>1. TextLines(n, v) \in Seq(Lines) /\ Len(TextLines(n, v)) = Len(v)
    BY TextLinesType
  <1>2. Len(v) \in Nat
    BY StringType
  <1>3. TextLines(n, v)[j] \in Lines
    BY <1>1, <1>2
  <1>4. <<line>> \in Seq(Lines)
    BY <1>3, CutType
  <1>5. SubSeq(TextLines(n, v), 1, j - 1) \in Seq(Lines)
    BY <1>1, <1>2
  <1>6. file.items \in Seq(Lines)
    BY DEF TypeOK, Contents
  <1>. QED
    BY <1>4, <1>5, <1>6 DEF Contents

(***************************************************************************)
(* The types at the start.                                                 *)
(***************************************************************************)
LEMMA TypeInit == Init => TypeOK
  <1>. SUFFICES ASSUME Init PROVE TypeOK
    OBVIOUS
  <1>1. NoRecords \in Records
    BY DEF NoRecords, Records
  <1>2. source \in Records /\ db \in Records /\ before \in Records
    BY EnvironmentAssumption DEF Init
  <1>3. file.items \in Contents(file.format) /\ rest \in Contents(file.format)
    BY ContentsAreSequences DEF Init
  <1>4. count \in 0..BatchSize - 1
    BY EnvironmentAssumption DEF Init
  <1>. QED
    BY <1>1, <1>2, <1>3, <1>4, StringAssumption DEF Init, TypeOK

(***************************************************************************)
(* No step, whatever fails, leaves the types.                              *)
(***************************************************************************)
LEMMA TypeStep ==
  TypeOK /\ DumpInv /\ [Next]_vars => TypeOK'
  <1>. SUFFICES ASSUME TypeOK, DumpInv, [Next]_vars PROVE TypeOK'
    OBVIOUS
  <1>0. NoRecords \in Records
    BY DEF NoRecords, Records
  <1>1. ASSUME NEW b \in BOOLEAN, NEW toFile \in BOOLEAN, Export(b, toFile)
        PROVE  TypeOK'
    <2>1. file.items = <<>> /\ rest = <<>>
      BY <1>1 DEF Export, DumpInv
    <2>2. /\ file'.format \in {"binary", "text"}
          /\ file'.items = <<>>
          /\ file'.cut = file.cut /\ file'.whole = file.whole
          /\ file' = [format |-> file'.format, items |-> file'.items,
                      cut |-> file'.cut, whole |-> file'.whole]
      BY <1>1, <2>1 DEF Export, TypeOK
    <2>3. file'.items \in Contents(file'.format)
          /\ rest' \in Contents(file'.format)
      BY <1>1, <2>1, <2>2, ContentsAreSequences DEF Export, locals
    <2>. QED
      BY <1>1, <2>2, <2>3 DEF Export, databases, locals, TypeOK
  <1>2. ASSUME DumpRecord PROVE TypeOK'
    <2>1. PICK n \in NumID :
            /\ IsNext(n)
            /\ file' = [file EXCEPT !.items = @ \o Items(n, it[n])]
            /\ it' = [it EXCEPT ![n] = None]
      BY <1>2 DEF DumpRecord
    <2>2. it[n] \in Strings
      BY <2>1 DEF IsNext, Remaining, TypeOK, Records
    <2>3. file.items \o Items(n, it[n]) \in Contents(file.format)
      BY <2>2, ItemsType, ContentsAreSequences DEF TypeOK
    <2>4. it' \in Records
      BY <2>1 DEF TypeOK, Records
    <2>5. /\ file'.format = file.format
          /\ file'.items = file.items \o Items(n, it[n])
          /\ file'.cut = file.cut /\ file'.whole = file.whole
          /\ file' = [format |-> file'.format, items |-> file'.items,
                      cut |-> file'.cut, whole |-> file'.whole]
      BY <2>1 DEF TypeOK
    <2>. QED
      BY <1>2, <2>3, <2>4, <2>5 DEF DumpRecord, databases, locals, TypeOK
  <1>3. ASSUME DumpDone PROVE TypeOK'
    <2>1. /\ file'.format = file.format /\ file'.items = file.items
          /\ file'.cut = file.cut /\ file'.whole = TRUE
          /\ file' = [format |-> file'.format, items |-> file'.items,
                      cut |-> file'.cut, whole |-> file'.whole]
      BY <1>3 DEF DumpDone, TypeOK
    <2>. QED
      BY <1>3, <2>1 DEF DumpDone, databases, locals, TypeOK
  <1>4. ASSUME DumpCut PROVE TypeOK'
    <2>. DEFINE Cuts == {"none", "magic", "key", "value", "line"}
    <2>1. PICK c \in Cuts, items \in Contents(file.format) :
            file' = [file EXCEPT !.items = items, !.cut = c]
      <3>1. CASE file' = file
        BY <3>1 DEF TypeOK
      <3>2. CASE file' = [file EXCEPT !.cut = "magic"]
        BY <3>2 DEF TypeOK
      <3>3. ASSUME file.format = "binary",
                   NEW n \in NumID, NEW c \in {"key", "value"}, IsNext(n),
                   file' = [file EXCEPT !.items = Append(@, <<n, it[n]>>),
                                        !.cut = c]
            PROVE  \E cc \in Cuts, items \in Contents(file.format) :
                     file' = [file EXCEPT !.items = items, !.cut = cc]
        <4>1. <<n, it[n]>> \in NumID \X Strings
          BY <3>3 DEF IsNext, Remaining, TypeOK, Records
        <4>2. file.items \in Seq(NumID \X Strings)
          BY <3>3 DEF TypeOK, Contents
        <4>3. Append(file.items, <<n, it[n]>>) \in Contents(file.format)
          BY <3>3, <4>1, <4>2 DEF Contents
        <4>. QED
          BY <3>3, <4>3
      <3>4. ASSUME file.format = "text", NEW n \in NumID, IsNext(n),
                   NEW j \in 1..Len(it[n]),
                   NEW line \in Cut(TextLines(n, it[n])[j]),
                   file' = [file EXCEPT
                     !.items = @ \o SubSeq(TextLines(n, it[n]), 1, j - 1)
                                 \o <<line>>,
                     !.cut = "line"]
            PROVE  \E cc \in Cuts, items \in Contents(file.format) :
                     file' = [file EXCEPT !.items = items, !.cut = cc]
        <4>1. it[n] \in Strings
          BY <3>4 DEF IsNext, Remaining, TypeOK, Records
        <4>2. file.items \o SubSeq(TextLines(n, it[n]), 1, j - 1) \o <<line>>
                \in Contents(file.format)
          BY <3>4, <4>1, CutItemType
        <4>. QED
          BY <3>4, <4>2
      <3>. QED
        BY <1>4, <3>1, <3>2, <3>3, <3>4 DEF DumpCut
    <2>2. /\ file'.format = file.format /\ file'.items = items
          /\ file'.cut = c /\ file'.whole = file.whole
          /\ file' = [format |-> file'.format, items |-> file'.items,
                      cut |-> file'.cut, whole |-> file'.whole]
      BY <2>1 DEF TypeOK
    <2>. QED
      BY <1>0, <1>4, <2>1, <2>2 DEF DumpCut, databases, locals, TypeOK
  <1>5. ASSUME NEW b \in BOOLEAN, Import(b) PROVE TypeOK'
    <2>1. /\ rest' \in Contents(file.format)
          /\ pc' \in {"reading", "failed", "done"}
      BY <1>5, ContentsAreSequences DEF Import, TypeOK
    <2>2. count' \in 0..BatchSize - 1
      BY <1>5, EnvironmentAssumption DEF Import
    <2>. QED
      BY <1>0, <1>5, <2>1, <2>2, StringAssumption DEF Import, TypeOK
  <1>6. ASSUME ReadRecord PROVE TypeOK'
    <2>1. /\ pc = "reading" /\ rest # <<>> /\ file.format = "binary"
          /\ Push(Head(rest)[1], Head(rest)[2])
      BY <1>6 DEF ReadRecord, Reading, DumpInv
    <2>2. Head(rest)[1] \in NumID /\ Head(rest)[2] \in Strings
      BY <2>1, RestType
    <2>3. Pushed'
      BY <2>1, <2>2, PushType
    <2>. QED
      BY <1>6, <2>1, <2>3, RestType DEF ReadRecord, TypeOK, Pushed
  <1>7. ASSUME pc = "reading", TornKey PROVE Pushed'
    BY <1>7, PushType DEF TornKey, TypeOK
  <1>8. ASSUME pc = "reading", file.format = "binary", TornValue
        PROVE  Pushed'
    BY <1>8, RestType, PushType DEF TornValue
  <1>9. ASSUME ReadCutRecord PROVE TypeOK'
    <2>1. pc = "reading" /\ file.format = "binary"
      BY <1>9 DEF ReadCutRecord, Reading, DumpInv
    <2>2. Pushed'
      BY <1>7, <1>8, <1>9, <2>1 DEF ReadCutRecord
    <2>. QED
      BY <1>9, <2>2, ContentsAreSequences DEF ReadCutRecord, TypeOK, Pushed
  <1>10. ASSUME ReadPastEnd \/ Spin PROVE TypeOK'
    <2>1. Pushed'
      BY <1>10, PushType DEF ReadPastEnd, Spin, Reading, TypeOK
    <2>. QED
      BY <1>10, <2>1 DEF ReadPastEnd, Spin, TypeOK, Pushed
  <1>11. ASSUME ReadError PROVE TypeOK'
    <2>1. pc = "reading" /\ file.format = "binary"
      BY <1>11 DEF ReadError, Reading, DumpInv
    <2>2. Pushed'
      BY <1>7, <1>8, <1>11, <2>1 DEF ReadError
    <2>. QED
      BY <1>11, <2>2 DEF ReadError, TypeOK, Pushed
  <1>12. ASSUME ReadLine PROVE TypeOK'
    <2>. DEFINE line == Head(rest)
    <2>1. pc = "reading" /\ rest # <<>> /\ file.format = "text"
      BY <1>12 DEF ReadLine, Reading, DumpInv, TypeOK
    <2>2. line \in Lines /\ Tail(rest) \in Contents(file.format)
      BY <2>1, RestType
    <2>3. ASSUME line[1] \in NumID, Len(line) > 1, Push(line[1], <<<<line[2]>>>>)
          PROVE  Pushed'
      <3>1. line[2] \in Fields
        BY <2>2, <2>3 DEF Lines
      <3>2. <<<<line[2]>>>> \in Strings
        BY <3>1, StringAssumption
      <3>. QED
        BY <2>1, <2>3, <3>2, PushType
    <2>4. ASSUME line[1] \in NumID, \E v \in Strings : Push(line[1], v)
          PROVE  Pushed'
      BY <2>1, <2>4, PushType
    <2>5. ASSUME Fail, UNCHANGED <<db, key, value>>
          PROVE  Pushed'
      BY <1>0, <2>5, EnvironmentAssumption DEF Fail, TypeOK, Pushed
    <2>6. Pushed'
      BY <1>12, <2>3, <2>4, <2>5 DEF ReadLine
    <2>. QED
      BY <1>12, <2>2, <2>6 DEF ReadLine, TypeOK, Pushed
  <1>13. ASSUME ReadLineError PROVE TypeOK'
    BY <1>13, ContentsAreSequences DEF ReadLineError, databases, TypeOK
  <1>14. ASSUME Finish PROVE TypeOK'
    <2>1. Put(db, pairs) \in Records
      BY DEF Put, TypeOK, Records
    <2>2. /\ db' \in Records /\ pairs' \in Records
          /\ count' \in 0..BatchSize - 1 /\ pc' \in {"done", "failed"}
      BY <1>0, <1>14, <2>1, EnvironmentAssumption DEF Finish, Flush, TypeOK
    <2>. QED
      BY <1>14, <2>2 DEF Finish, TypeOK
  <1>15. ASSUME Kill PROVE TypeOK'
    BY <1>0, <1>15, EnvironmentAssumption DEF Kill, Fail, databases, TypeOK
  <1>16. CASE UNCHANGED vars
    BY <1>16 DEF vars, databases, locals, TypeOK
  <1>. QED
    BY <1>1, <1>2, <1>3, <1>4, <1>5, <1>6, <1>9, <1>10, <1>11, <1>12, <1>13,
       <1>14, <1>15, <1>16 DEF Next

(***************************************************************************)
(* numexport.                                                              *)
(***************************************************************************)

(***************************************************************************)
(* The items dump writes for a record show it, if the format can.          *)
(***************************************************************************)
LEMMA ItemsShow ==
  ASSUME TypeOK, file.format = "binary" \/ AllPlain,
         NEW n \in NumID, source[n] # None
  PROVE  /\ Len(Items(n, source[n])) = 1
         /\ Shows(Items(n, source[n])[1], file.format, source)
  <1>. DEFINE v == source[n]
  <1>0. v \in Strings
    BY DEF TypeOK, Records
  <1>1. CASE file.format = "binary"
    BY <1>1 DEF Items, Shows, Shown
  <1>2. CASE file.format = "text"
    <2>1. Len(v) = 1 /\ Len(v[1]) = 1
      BY <1>2 DEF AllPlain, Plain
    <2>2. v \in Seq(Lines) /\ v[1] \in Seq(Fields)
      BY <1>0, <2>1, StringType
    <2>3. v[1] = <<v[1][1]>>
      BY <2>1, <2>2
    <2>4. v = <<v[1]>>
      BY <2>1, <2>2
    <2>5. TextLines(n, v) = <<<<n>> \o v[1]>>
      BY <2>1 DEF TextLines
    <2>6. <<n>> \o v[1] = <<n, v[1][1]>>
      <3>1. PICK f \in Fields : f = v[1][1]
        BY <2>1, <2>2
      <3>2. <<n>> \in Seq(Fields) /\ <<f>> \in Seq(Fields)
        BY DEF Fields
      <3>3. /\ <<n>> \o <<f>> \in Seq(Fields)
            /\ Len(<<n>> \o <<f>>) = 2
            /\ (<<n>> \o <<f>>)[1] = n /\ (<<n>> \o <<f>>)[2] = f
        BY <3>2
      <3>. HIDE DEF v
      <3>4. \A s \in Seq(Fields) : Len(s) = 2 => s = <<s[1], s[2]>>
        OBVIOUS
      <3>5. <<n>> \o <<f>> = <<n, f>>
        BY <3>3, <3>4
      <3>. QED
        BY <2>3, <3>1, <3>5
    <2>7. Items(n, v) = <<<<n, v[1][1]>>>>
      BY <1>2, <2>5, <2>6 DEF Items
    <2>. HIDE DEF v
    <2>8. v = <<<<v[1][1]>>>>
      BY <2>3, <2>4
    <2>. QED
      BY <1>2, <2>7, <2>8 DEF v, Shows, Shown
  <1>. QED
    BY <1>1, <1>2 DEF TypeOK

(***************************************************************************)
(* What a dump shows and lists is not changed by adding items to it.       *)
(***************************************************************************)
LEMMA DumpRecordKeeps ==
  ASSUME TypeOK, DumpInv, DumpRecord
  PROVE  DumpInv'
  <1>1. PICK n \in NumID :
          /\ IsNext(n)
          /\ file' = [file EXCEPT !.items = @ \o Items(n, it[n])]
          /\ it' = [it EXCEPT ![n] = None]
    BY DEF DumpRecord
  <1>2. pc = "dumping" /\ pc' = pc /\ source' = source /\ rest' = rest
    BY DEF DumpRecord, databases, locals
  <1>3. it[n] # None /\ it[n] \in Strings /\ it[n] = source[n]
    BY <1>1, <1>2 DEF IsNext, Remaining, TypeOK, Records, DumpInv
  <1>. DEFINE new == Items(n, it[n])
  <1>4. /\ new \in Contents(file.format) /\ Len(new) \in Nat \ {0}
        /\ new[1][1] = n
    BY <1>3, ItemsType
  <1>5. /\ file'.items = file.items \o new /\ file'.format = file.format
        /\ file'.cut = file.cut /\ file'.whole = file.whole
    BY <1>1 DEF TypeOK
  <1>. HIDE DEF new
  <1>6. /\ Len(file.items) \in Nat
        /\ Len(file'.items) = Len(file.items) + Len(new)
        /\ \A i \in 1..Len(file.items) : file'.items[i] = file.items[i]
        /\ \A i \in 1..Len(new) : file'.items[Len(file.items) + i] = new[i]
    BY <1>4, <1>5 DEF TypeOK, Contents
  <1>7. \A m \in NumID : Listed(file.items, m) => Listed(file'.items, m)
    BY <1>4, <1>6 DEF Listed
  <1>8. Listed(file'.items, n)
    <2>1. file'.items[Len(file.items) + 1][1] = n
      BY <1>4, <1>6
    <2>2. Len(file.items) + 1 \in 1..Len(file'.items)
      BY <1>4, <1>6
    <2>. QED
      BY <2>1, <2>2 DEF Listed
  <1>9. \A m \in NumID :
          /\ it'[m] # None => it'[m] = source[m]
          /\ source[m] # None => it'[m] # None \/ Listed(file'.items, m)
    BY <1>1, <1>2, <1>7, <1>8 DEF DumpInv, TypeOK, Records
  <1>10. ASSUME file.cut = "none", file.format = "binary" \/ AllPlain
         PROVE  \A i \in 1..Len(file'.items) : Shows(file'.items[i], file.format, source)
    <2>1. Len(new) = 1 /\ Shows(new[1], file.format, source)
      BY <1>3, <1>10, ItemsShow DEF new
    <2>2. \A i \in 1..Len(file.items) : Shows(file.items[i], file.format, source)
      BY <1>10 DEF DumpInv
    <2>. QED
      BY <1>6, <2>1, <2>2
  <1>11. AllPlain' <=> AllPlain
    BY <1>2 DEF AllPlain
  <1>. QED
    BY <1>2, <1>5, <1>9, <1>10, <1>11 DEF DumpInv

(***************************************************************************)
(* A dump that ends early is not whole, and DumpInv asks nothing of it.    *)
(***************************************************************************)
LEMMA DumpCutLoses ==
  ASSUME TypeOK, DumpInv, DumpCut
  PROVE  DumpInv'
  <1>1. /\ pc = "dumping" /\ pc' = "dumped" /\ source' = source /\ rest' = rest
        /\ ~file.whole
    BY DEF DumpCut, DumpInv, databases, locals
  <1>2. /\ file'.whole = file.whole /\ file'.format = file.format
        /\ file' = file \/ file'.cut # "none"
    BY DEF DumpCut, TypeOK
  <1>3. AllPlain' <=> AllPlain
    BY <1>1 DEF AllPlain
  <1>. QED
    BY <1>1, <1>2, <1>3 DEF DumpInv

(***************************************************************************)
(* Every step keeps DumpInv.                                               *)
(***************************************************************************)
LEMMA DumpInvStep ==
  TypeOK /\ DumpInv /\ [Next]_vars => DumpInv'
  <1>. SUFFICES ASSUME TypeOK, DumpInv, [Next]_vars PROVE DumpInv'
    OBVIOUS
  <1>0. ASSUME source' = source PROVE AllPlain' <=> AllPlain
    BY <1>0 DEF AllPlain
  <1>1. ASSUME NEW b \in BOOLEAN, NEW toFile \in BOOLEAN, Export(b, toFile)
        PROVE  DumpInv'
    <2>1. /\ pc = "idle" /\ pc' = "dumping" /\ it' = source /\ source' = source
          /\ file.items = <<>> /\ ~file.whole /\ file.cut = "none"
      BY <1>1 DEF Export, DumpInv, databases
    <2>2. file'.items = <<>> /\ ~file'.whole /\ file'.cut = "none"
      BY <1>1, <2>1 DEF Export, TypeOK
    <2>. QED
      BY <2>1, <2>2 DEF DumpInv
  <1>2. ASSUME DumpDone PROVE DumpInv'
    <2>1. /\ pc = "dumping" /\ pc' = "dumped" /\ source' = source
          /\ \A n \in NumID : it[n] = None
      BY <1>2 DEF DumpDone, Remaining, databases
    <2>2. /\ file'.items = file.items /\ file'.format = file.format
          /\ file'.cut = file.cut /\ file.cut = "none"
      BY <1>2, <2>1 DEF DumpDone, TypeOK, DumpInv
    <2>. QED
      BY <1>0, <2>1, <2>2 DEF DumpInv
  <1>3. ASSUME NEW b \in BOOLEAN, Import(b) PROVE DumpInv'
    <2>1. /\ file' = file /\ source' = source /\ binary' = b
          /\ pc' \in {"reading", "failed", "done"}
          /\ pc' = "reading" => ~Refused(b)
      BY <1>3 DEF Import
    <2>2. pc' = "reading" => (binary' <=> file.format = "binary")
      BY <2>1 DEF Refused
    <2>. QED
      BY <1>0, <2>1, <2>2 DEF DumpInv
  <1>4. ASSUME pc = "reading", pc' \in {"reading", "failed", "done"},
               UNCHANGED <<source, file, binary>>
        PROVE  DumpInv'
    BY <1>0, <1>4 DEF DumpInv
  <1>5. ASSUME NEW k, NEW v, Push(k, v), pc = "reading"
        PROVE  pc' \in {"reading", "failed"}
    BY <1>5 DEF Push, Flush
  <1>6. CASE ReadRecord \/ ReadPastEnd \/ Spin
    BY <1>4, <1>5, <1>6 DEF ReadRecord, ReadPastEnd, Spin, Reading
  <1>7. CASE ReadCutRecord \/ ReadError
    BY <1>4, <1>5, <1>7 DEF ReadCutRecord, ReadError, Reading, TornKey, TornValue
  <1>8. CASE ReadLine
    BY <1>4, <1>5, <1>8 DEF ReadLine, Reading, Fail
  <1>9. CASE ReadLineError \/ Finish \/ Kill
    BY <1>4, <1>9
    DEF ReadLineError, Finish, Kill, Reading, Flush, Fail, databases
  <1>10. CASE UNCHANGED vars
    BY <1>0, <1>10 DEF DumpInv, vars, databases, locals
  <1>. QED
    BY <1>1, <1>2, <1>3, <1>6, <1>7, <1>8, <1>9, <1>10,
       DumpRecordKeeps, DumpCutLoses DEF Next

(***************************************************************************)
(* numimport.                                                              *)
(***************************************************************************)

(***************************************************************************)
(* Pushing a record of the source, with or without the write of a full     *)
(* batch, keeps every record in the target, the batch or the rest.         *)
(***************************************************************************)
LEMMA PushKeeps ==
  ASSUME TypeOK, ReadInv, NEW k \in NumID, source[k] \in Strings,
         Push(k, source[k]), pc' = "reading",
         UNCHANGED <<source, before, file, binary>>,
         \A i \in 1..Len(rest') : Shows(rest'[i], file.format, source),
         \A n \in NumID : Listed(rest, n) => n = k \/ Listed(rest', n),
         stream' = "eof" => rest' = <<>>
  PROVE  ReadInv'
  <1>. DEFINE p == [pairs EXCEPT ![k] = source[k]]
  <1>1. \A n \in NumID : p[n] = IF n = k THEN source[k] ELSE pairs[n]
    BY DEF TypeOK, Records
  <1>2. None \notin Strings
    BY StringAssumption
  <1>3. count' \in Nat
    BY EnvironmentAssumption DEF Push, Flush, TypeOK
  <1>4. \A n \in NumID :
          /\ p[n] \in {None, source[n]}
          /\ source[n] # None => Put(db, p)[n] = source[n] \/ Listed(rest', n)
    BY <1>1, <1>2 DEF ReadInv, Put
  <1>5. key' = k /\ value' = source[k]
    BY DEF Push
  <1>. HIDE DEF p
  <1>6. CASE pairs' = p /\ count' = count + 1 /\ db' = db
    <2>1. count' # 0
      BY <1>6, EnvironmentAssumption DEF TypeOK
    <2>. QED
      BY <1>4, <1>5, <1>6, <2>1 DEF ReadInv, Put
  <1>7. CASE pairs' = NoRecords /\ db' = Put(db, p)
    <2>1. \A n \in NumID : db'[n] = IF p[n] # None THEN p[n] ELSE db[n]
      BY <1>7 DEF Put
    <2>2. \A n \in NumID : Put(db', pairs')[n] = Put(db, p)[n]
      BY <1>7 DEF Put, NoRecords
    <2>3. \A n \in NumID :
            /\ pairs'[n] = None
            /\ db'[n] \in {before[n], source[n]}
            /\ source[n] = None => db'[n] = before[n]
      BY <1>4, <1>7, <2>1 DEF ReadInv, NoRecords
    <2>4. \A n \in NumID :
            source[n] # None => Put(db', pairs')[n] = source[n] \/ Listed(rest', n)
      BY <1>4, <2>2
    <2>. QED
      BY <1>5, <1>7, <2>3, <2>4 DEF ReadInv, Put
  <1>. QED
    BY <1>6, <1>7 DEF Push, Flush, p

(***************************************************************************)
(* What reading one item leaves to be read.                                *)
(***************************************************************************)
LEMMA RestKeeps ==
  ASSUME TypeOK, rest # <<>>,
         \A i \in 1..Len(rest) : Shows(rest[i], file.format, source)
  PROVE  /\ Shows(Head(rest), file.format, source)
         /\ \A i \in 1..Len(Tail(rest)) :
              Shows(Tail(rest)[i], file.format, source)
         /\ \A n \in NumID :
              Listed(rest, n) => n = Head(rest)[1] \/ Listed(Tail(rest), n)
  <1>. DEFINE S == IF file.format = "binary" THEN NumID \X Strings ELSE Lines
  <1>1. rest \in Seq(S)
    BY DEF TypeOK, Contents
  <1>. HIDE DEF S
  <1>2. /\ Len(rest) \in Nat \ {0} /\ Head(rest) = rest[1]
        /\ Len(Tail(rest)) = Len(rest) - 1
        /\ \A i \in 1..Len(Tail(rest)) : Tail(rest)[i] = rest[i + 1]
    BY <1>1
  <1>3. \A n \in NumID :
          Listed(rest, n) => n = Head(rest)[1] \/ Listed(Tail(rest), n)
    <2>. TAKE n \in NumID
    <2>. SUFFICES ASSUME Listed(rest, n), n # Head(rest)[1]
                  PROVE  Listed(Tail(rest), n)
      OBVIOUS
    <2>1. PICK i \in 1..Len(rest) : rest[i][1] = n
      BY DEF Listed
    <2>2. i # 1
      BY <1>2, <2>1
    <2>3. i - 1 \in 1..Len(Tail(rest)) /\ Tail(rest)[i - 1] = rest[(i - 1) + 1]
      BY <1>2, <2>2
    <2>4. (i - 1) + 1 = i
      OBVIOUS
    <2>. QED
      BY <2>1, <2>3, <2>4 DEF Listed
  <1>. QED
    BY <1>2, <1>3

(***************************************************************************)
(* The invariant of the reading loop is there when it begins.              *)
(***************************************************************************)
LEMMA ImportBegins ==
  ASSUME TypeOK, DumpInv, NEW b \in BOOLEAN, Import(b), pc' = "reading",
         Undisturbed'
  PROVE  ReadInv'
  <1>1. /\ rest' = file.items /\ before' = db /\ db' = db /\ source' = source
        /\ file' = file /\ pairs' = NoRecords /\ count' = 0 /\ binary' = b
        /\ stream' = "good"
    BY DEF Import
  <1>2. file.whole /\ (file.format = "binary" \/ AllPlain)
        /\ (b => source # NoRecords)
    BY <1>1 DEF Undisturbed, Suits, AllPlain
  <1>3. \A i \in 1..Len(file.items) : Shows(file.items[i], file.format, source)
    BY <1>2 DEF DumpInv
  <1>4. \A n \in NumID : source[n] # None => Listed(file.items, n)
    BY <1>2 DEF DumpInv
  <1>5. b => file.items # <<>>
    <2>. SUFFICES ASSUME b PROVE file.items # <<>>
      OBVIOUS
    <2>1. PICK n \in NumID : source[n] # None
      BY <1>2 DEF NoRecords, TypeOK, Records
    <2>2. PICK i \in 1..Len(file.items) : file.items[i][1] = n
      BY <1>4, <2>1 DEF Listed
    <2>3. file.items = <<>> => Len(file.items) = 0
      OBVIOUS
    <2>. QED
      BY <2>2, <2>3
  <1>. QED
    BY <1>1, <1>3, <1>4, <1>5 DEF ReadInv, NoRecords, Put

(***************************************************************************)
(* The end of the loop: the last batch makes the target complete.          *)
(***************************************************************************)
LEMMA FinishCompletes ==
  ASSUME TypeOK, ReadInv, Finish, pc' = "done"
  PROVE  db' = Put(before, source)
  <1>1. rest = <<>>
    BY DEF Finish, AtEnd, ReadInv
  <1>2. \A n \in NumID : ~Listed(rest, n)
    BY <1>1 DEF Listed
  <1>3. db' = Put(db, pairs)
    <2>1. CASE count > 0
      BY <2>1 DEF Finish, Flush
    <2>2. CASE count = 0
      <3>1. pairs = NoRecords /\ db' = db
        BY <2>2 DEF Finish, ReadInv
      <3>. QED
        BY <3>1 DEF Put, NoRecords, TypeOK, Records
    <2>. QED
      BY <2>1, <2>2, EnvironmentAssumption DEF TypeOK
  <1>4. \A n \in NumID : Put(db, pairs)[n] = Put(before, source)[n]
    <2>. TAKE n \in NumID
    <2>1. CASE source[n] = None
      BY <2>1 DEF ReadInv, Put
    <2>2. CASE source[n] # None
      BY <1>2, <2>2 DEF ReadInv, Put
    <2>. QED
      BY <2>1, <2>2
  <1>. QED
    BY <1>3, <1>4 DEF Put

(***************************************************************************)
(* One step of the loop that reads.                                        *)
(***************************************************************************)
LEMMA ReadStepKeeps ==
  ASSUME TypeOK, DumpInv, ReadInv, Undisturbed, pc = "reading",
         ReadRecord \/ ReadCutRecord \/ ReadPastEnd \/ ReadLine,
         pc' = "reading"
  PROVE  ReadInv'
  <1>0. /\ UNCHANGED <<source, before, file, binary>>
        /\ binary <=> file.format = "binary"
        /\ file.cut = "none"
    BY DEF ReadRecord, ReadCutRecord, ReadPastEnd, ReadLine, DumpInv, Undisturbed
  <1>1. CASE ReadRecord
    <2>1. /\ rest # <<>> /\ file.format = "binary" /\ rest' = Tail(rest)
          /\ stream' = "good"
          /\ Push(Head(rest)[1], Head(rest)[2])
      BY <1>0, <1>1 DEF ReadRecord, Reading
    <2>2. Shows(Head(rest), file.format, source)
      BY <2>1, RestKeeps DEF ReadInv
    <2>3. /\ Head(rest)[1] \in NumID /\ Head(rest)[2] \in Strings
          /\ source[Head(rest)[1]] = Head(rest)[2]
      BY <2>1, <2>2, RestType DEF Shows, Shown
    <2>. QED
      BY <1>0, <2>1, <2>3, RestKeeps, PushKeeps DEF ReadInv
  <1>2. CASE ReadCutRecord
    BY <1>0, <1>2 DEF ReadCutRecord, LastIsCut
  <1>3. CASE ReadPastEnd
    <2>1. /\ rest = <<>> /\ rest' = rest /\ Push(key, value)
          /\ binary
      BY <1>0, <1>3 DEF ReadPastEnd, Reading
    <2>2. source[key] = value /\ key \in NumID /\ value \in Strings
      BY <2>1 DEF ReadInv, TypeOK
    <2>. QED
      BY <1>0, <2>1, <2>2, PushKeeps DEF ReadInv
  <1>4. CASE ReadLine
    <2>. DEFINE line == Head(rest)
    <2>1. /\ rest # <<>> /\ file.format = "text" /\ rest' = Tail(rest)
          /\ stream' = "good"
      BY <1>0, <1>4 DEF ReadLine, Reading, TypeOK
    <2>2. Shows(line, file.format, source)
      BY <2>1, RestKeeps DEF ReadInv
    <2>3. Len(line) = 2 /\ line[1] \in NumID /\ source[line[1]] = <<<<line[2]>>>>
      BY <2>1, <2>2 DEF Shows, Shown
    <2>4. line \in Lines
      BY <2>1, RestType
    <2>5. <<<<line[2]>>>> \in Strings
      BY <2>3, <2>4, StringAssumption DEF Lines
    <2>6. Push(line[1], <<<<line[2]>>>>)
      BY <1>4, <2>3 DEF ReadLine
    <2>. QED
      BY <1>0, <2>1, <2>3, <2>5, <2>6, RestKeeps, PushKeeps DEF ReadInv
  <1>. QED
    BY <1>1, <1>2, <1>3, <1>4

(***************************************************************************)
(* Every step keeps CopyInv.                                               *)
(***************************************************************************)
LEMMA CopyStep ==
  TypeOK /\ CopyInv /\ [Next]_vars => CopyInv'
  <1>. SUFFICES ASSUME TypeOK, CopyInv, [Next]_vars
                PROVE  /\ pc' = "reading" /\ Undisturbed' => ReadInv'
                       /\ RoundTrip'
    BY DumpInvStep DEF CopyInv
  <1>. USE DEF CopyInv
  <1>. DEFINE Goal == /\ pc' = "reading" /\ Undisturbed' => ReadInv'
                      /\ RoundTrip'
  <1>1. ASSUME pc' \notin {"reading", "done"} PROVE Goal
    BY <1>1 DEF RoundTrip
  <1>2. CASE \E b, toFile \in BOOLEAN : Export(b, toFile)
    BY <1>1, <1>2 DEF Export
  <1>3. CASE DumpRecord \/ DumpDone \/ DumpCut
    BY <1>1, <1>3 DEF DumpRecord, DumpDone, DumpCut
  <1>4. ASSUME NEW b \in BOOLEAN, Import(b) PROVE Goal
    <2>1. ASSUME pc' = "done" PROVE ~Undisturbed'
      BY <1>4, <2>1 DEF Import, DumpInv, Undisturbed, Refused
    <2>. QED
      BY <1>4, <2>1, ImportBegins DEF RoundTrip
  <1>5. ASSUME UNCHANGED <<source, file, binary>>, Undisturbed', stream # "bad"
        PROVE  Undisturbed
    BY <1>5 DEF Undisturbed, Suits, AllPlain
  <1>6. CASE ReadRecord \/ ReadCutRecord \/ ReadPastEnd \/ ReadLine
    <2>1. /\ UNCHANGED <<source, file, binary>> /\ stream # "bad"
          /\ pc = "reading" /\ pc' # "done"
      BY <1>6 DEF ReadRecord, ReadCutRecord, ReadPastEnd, ReadLine, Reading,
                  Push, Flush, TornKey, TornValue, Fail
    <2>. QED
      BY <1>5, <1>6, <2>1, ReadStepKeeps DEF RoundTrip
  <1>7. CASE ReadError \/ Spin \/ ReadLineError
    <2>1. stream' = "bad"
      BY <1>7 DEF ReadError, Spin, ReadLineError
    <2>. QED
      BY <2>1 DEF Undisturbed, RoundTrip
  <1>8. CASE Finish
    <2>1. /\ UNCHANGED <<source, before, file, binary, stream>> /\ pc = "reading"
          /\ pc' # "reading"
      BY <1>8 DEF Finish, Flush
    <2>2. ASSUME Undisturbed' PROVE Undisturbed
      BY <2>1, <2>2 DEF Undisturbed, Suits, AllPlain
    <2>. QED
      BY <1>8, <2>1, <2>2, FinishCompletes DEF RoundTrip, Put
  <1>9. CASE Kill
    BY <1>1, <1>9 DEF Kill, Fail
  <1>10. CASE UNCHANGED vars
    BY <1>10 DEF vars, databases, locals, Undisturbed, Suits, AllPlain, ReadInv,
                 RoundTrip, Put
  <1>. QED
    BY <1>2, <1>3, <1>4, <1>6, <1>7, <1>8, <1>9, <1>10 DEF Next

(***************************************************************************)
(* It holds at the start, when nothing is dumped.                          *)
(***************************************************************************)
LEMMA CopyInit == Init => CopyInv
  <1>. SUFFICES ASSUME Init PROVE CopyInv
    OBVIOUS
  <1>1. file.items = <<>> /\ ~file.whole /\ file.cut = "none" /\ pc = "idle"
    BY DEF Init
  <1>2. \A i \in 1..Len(file.items) : FALSE
    BY <1>1
  <1>. QED
    BY <1>1, <1>2 DEF Init, CopyInv, DumpInv, RoundTrip

(***************************************************************************)
(* The records an undisturbed import has not put into the target yet are   *)
(* in the batch or in the rest of the file, whatever went wrong before it. *)
(***************************************************************************)
THEOREM CopyInvKept == Spec => [](TypeOK /\ CopyInv)
  <1>1. Init => TypeOK /\ CopyInv
    BY TypeInit, CopyInit
  <1>2. TypeOK /\ CopyInv /\ [Next]_vars => (TypeOK /\ CopyInv)'
    BY TypeStep, CopyStep DEF CopyInv
  <1>. QED
    BY <1>1, <1>2, PTL DEF Spec

(***************************************************************************)
(* The tools keep their types whatever fails.                              *)
(***************************************************************************)
THEOREM TypeCorrect == Spec => []TypeOK
  BY CopyInvKept, PTL

(***************************************************************************)
(* restore after dump: every database that is not empty comes back from a  *)
(* binary dump, and every database of plain strings from a text, for every *)
(* batch size, key order and target, after any failed attempts.            *)
(***************************************************************************)
THEOREM DumpRestored == Spec => []RoundTrip
  <1>1. CopyInv => RoundTrip
    BY DEF CopyInv
  <1>. QED
    BY <1>1, CopyInvKept, PTL

(***************************************************************************)
(* A file of the other format changes nothing in the target.               *)
(***************************************************************************)
THEOREM WrongFormatHarmless == Spec => []WrongFormatWritesNothing
  <1>1. Init => TypeOK /\ CopyInv /\ WrongFormatWritesNothing
    BY TypeInit, CopyInit DEF Init, WrongFormatWritesNothing
  <1>2. DumpInv /\ WrongFormatWritesNothing /\ [Next]_vars
        => WrongFormatWritesNothing'
    <2>. SUFFICES ASSUME DumpInv, WrongFormatWritesNothing, [Next]_vars
                  PROVE  WrongFormatWritesNothing'
      OBVIOUS
    <2>1. CASE pc \in {"idle", "dumping"}
      BY <2>1
      DEF Next, vars, databases, locals, Export, DumpRecord, DumpDone, DumpCut,
          Import, ReadRecord, ReadCutRecord, ReadPastEnd, ReadError, Spin, ReadLine,
          ReadLineError, Finish, Kill, Reading, WrongFormatWritesNothing
    <2>2. ASSUME NEW b \in BOOLEAN, Import(b) PROVE WrongFormatWritesNothing'
      BY <2>2 DEF Import, WrongFormatWritesNothing
    <2>3. CASE pc = "reading"
      <3>1. /\ UNCHANGED <<binary, file>>
            /\ binary <=> file.format = "binary"
        BY <2>3
        DEF Next, vars, databases, locals, Export, DumpRecord, DumpDone, DumpCut,
            Import, ReadRecord, ReadCutRecord, ReadPastEnd, ReadError, Spin,
            ReadLine, ReadLineError, Finish, Kill, DumpInv
      <3>. QED
        BY <3>1 DEF WrongFormatWritesNothing
    <2>4. CASE pc \notin {"idle", "dumping", "reading"} /\ UNCHANGED vars
      BY <2>4 DEF vars, databases, locals, WrongFormatWritesNothing
    <2>. QED
      BY <2>1, <2>2, <2>3, <2>4
      DEF Next, Export, DumpRecord, DumpDone, DumpCut, ReadRecord, ReadCutRecord,
          ReadPastEnd, ReadError, Spin, ReadLine, ReadLineError, Finish, Kill,
          Reading, vars, databases, locals, WrongFormatWritesNothing
  <1>3. TypeOK /\ CopyInv /\ [Next]_vars => (TypeOK /\ CopyInv)'
    BY TypeStep, CopyStep DEF CopyInv
  <1>4. CopyInv => DumpInv
    BY DEF CopyInv
  <1>. QED
    BY <1>1, <1>2, <1>3, <1>4, PTL DEF Spec

(***************************************************************************)
(* What the usage of numimport says holds for every database with a record *)
(* in it: the extra turn of the loop harms an empty dump alone.            *)
(***************************************************************************)
THEOREM AnyRestored ==
  ASSUME NoRecords \notin Sources
  PROVE  Spec => []RestoreOfAny
  <1>1. Init => source \in Sources
    BY DEF Init
  <1>2. source \in Sources /\ [Next]_vars => (source \in Sources)'
    BY DEF Next, vars, databases, Export, DumpRecord, DumpDone, DumpCut, Import,
           ReadRecord, ReadCutRecord, ReadPastEnd, ReadError, Spin, ReadLine,
           ReadLineError, Finish, Kill
  <1>3. CopyInv /\ source \in Sources => RestoreOfAny
    BY DEF CopyInv, RoundTrip, Undisturbed, RestoreOfAny
  <1>. QED
    BY <1>1, <1>2, <1>3, CopyInvKept, PTL DEF Spec

=============================================================================
