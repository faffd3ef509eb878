---------------------------- MODULE PrefixProofs ----------------------------
(***************************************************************************)
(* What an import that does not come to its end leaves in the target:      *)
(* PrefixRestored, for every database, batch size, key order and set of    *)
(* faults.                                                                 *)
(***************************************************************************)
EXTENDS DumpRestoreProofs, FiniteSetTheorems

(***************************************************************************)
(* The database d with the records of the source src that the first j      *)
(* items stand for.                                                        *)
(***************************************************************************)
Restored(d, items, src, j) ==
  [n \in NumID |-> IF (\E i \in 1..j : items[i][1] = n) /\ src[n] # None
                   THEN src[n] ELSE d[n]]

Expected(j) == Restored(before, file.items, source, j)

(***************************************************************************)
(* Of the ids in S the target has the first w items, and the target and    *)
(* the batch together have the first j.                                    *)
(***************************************************************************)
Agree(a, b, S) ==
  \A n \in S : db[n] = a[n] /\ Put(db, pairs)[n] = b[n]

Has(w, j, S) == Agree(Expected(w), Expected(j), S)

(***************************************************************************)
(* c is b with v under k, as far as S goes.                                *)
(***************************************************************************)
With(b, k, v, c, S) == \A n \in S : c[n] = IF n = k THEN v ELSE b[n]

(***************************************************************************)
(* Nothing went wrong: the target has a whole number of batches and the    *)
(* rest begins where the batch ends.                                       *)
(***************************************************************************)
InStep ==
  \E w, j \in 0..Len(file.items) :
    /\ Len(rest) = Len(file.items) - j
    /\ \A i \in 1..Len(rest) : rest[i] = file.items[j + i]
    /\ w = j - count
    /\ w % BatchSize = 0
    /\ Has(w, j, NumID)

(***************************************************************************)
(* Whatever went wrong, only the id in the local key can be affected.      *)
(***************************************************************************)
OneOff == \E w, j \in 0..Len(file.items) : Has(w, j, NumID \ {key})

TextCut == file.format = "text" /\ file.cut # "none"

LoopInv ==
  /\ count = 0 => pairs = NoRecords
  /\ stream = "good" /\ (TextCut => rest # <<>>) => InStep
  /\ OneOff

(***************************************************************************)
(* Only the last line of a cut text can be something else than a record of *)
(* the source.                                                             *)
(***************************************************************************)
ItemsTrue ==
  file.format = "binary" \/ AllPlain =>
    \A i \in 1..Len(file.items) :
      \/ TextCut /\ i = Len(file.items)
      \/ Shows(file.items[i], file.format, source)

(***************************************************************************)
(* PrefixRestored by the number w of items and the id x that is wrong.     *)
(***************************************************************************)
Landed ==
  \E w \in 0..Len(file.items), x \in NumID :
    /\ \A n \in NumID \ {x} : db[n] = Expected(w)[n]
    /\ file.whole /\ stream = "good" =>
         /\ \A n \in NumID : db[n] = Expected(w)[n]
         /\ pc # "done" => w % BatchSize = 0

(***************************************************************************)
(* The inductive invariant behind PrefixRestored.                          *)
(***************************************************************************)
PrefixInv ==
  /\ ItemsTrue
  /\ pc = "reading" /\ Suits => LoopInv
  /\ pc \in {"failed", "done"} /\ Suits => Landed

-----------------------------------------------------------------------------

(***************************************************************************)
(* The property's way to say what is expected.                             *)
(***************************************************************************)
LEMMA ExpectedIsPut ==
  ASSUME NEW j
  PROVE  Put(before, FirstItems(j)) = Expected(j)
  BY DEF Put, FirstItems, Expected, Restored

(***************************************************************************)
(* No items change nothing.                                                *)
(***************************************************************************)
LEMMA RestoredNone ==
  ASSUME NEW d \in Records, NEW items, NEW src
  PROVE  Restored(d, items, src, 0) = d
  <1>1. \A i \in 1..0 : FALSE
    OBVIOUS
  <1>. QED
    BY <1>1 DEF Restored, Records

(***************************************************************************)
(* One item more is one record more.                                       *)
(***************************************************************************)
LEMMA RestoredNext ==
  ASSUME NEW d, NEW items, NEW src, NEW j \in Nat, NEW k \in NumID,
         NEW m, m = j + 1, items[m][1] = k, src[k] # None
  PROVE  With(Restored(d, items, src, j), k, src[k], Restored(d, items, src, m),
              NumID)
  <1>1. \A i : i \in 1..m <=> i \in 1..j \/ i = m
    OBVIOUS
  <1>2. \A n \in NumID :
          (\E i \in 1..m : items[i][1] = n)
          <=> (\E i \in 1..j : items[i][1] = n) \/ n = k
    BY <1>1
  <1>. QED
    BY <1>2 DEF Restored, With

(***************************************************************************)
(* Databases that agree but on x differ in at most one id.                 *)
(***************************************************************************)
LEMMA AtMostOne ==
  ASSUME NEW d, NEW e, NEW x \in NumID,
         \A n \in NumID \ {x} : d[n] = e[n]
  PROVE  Cardinality({n \in NumID : d[n] # e[n]}) <= 1
  <1>1. {n \in NumID : d[n] # e[n]} \subseteq {x}
    OBVIOUS
  <1>2. IsFiniteSet({x}) /\ Cardinality({x}) = 1
    BY FS_Singleton
  <1>. QED
    BY <1>1, <1>2, FS_Subset

(***************************************************************************)
(* What PrefixRestored asks for.                                           *)
(***************************************************************************)
LEMMA LandedIsPrefix ==
  ASSUME TypeOK, Landed
  PROVE  PrefixRestored
  <1>1. PICK w \in 0..Len(file.items), x \in NumID :
          /\ \A n \in NumID \ {x} : db[n] = Expected(w)[n]
          /\ file.whole /\ stream = "good" =>
               /\ \A n \in NumID : db[n] = Expected(w)[n]
               /\ pc # "done" => w % BatchSize = 0
    BY DEF Landed
  <1>2. Cardinality({n \in NumID : db[n] # Expected(w)[n]}) <= 1
    BY <1>1, AtMostOne
  <1>3. ASSUME \A n \in NumID : db[n] = Expected(w)[n] PROVE db = Expected(w)
    BY <1>3 DEF TypeOK, Records, Expected, Restored
  <1>. QED
    BY <1>1, <1>2, <1>3, ExpectedIsPut DEF PrefixRestored

(***************************************************************************)
(* While restore reads, its loop's invariant is enough.                    *)
(***************************************************************************)
LEMMA LoopLands ==
  ASSUME TypeOK, DumpInv, LoopInv
  PROVE  Landed
  <1>1. CASE file.whole /\ stream = "good"
    <2>1. PICK w, j \in 0..Len(file.items) :
            w % BatchSize = 0 /\ Has(w, j, NumID)
      BY <1>1 DEF LoopInv, InStep, DumpInv, TextCut
    <2>. QED
      BY <2>1 DEF Has, Agree, TypeOK, Landed
  <1>2. CASE ~(file.whole /\ stream = "good")
    <2>1. PICK w, j \in 0..Len(file.items) : Has(w, j, NumID \ {key})
      BY DEF LoopInv, OneOff
    <2>. QED
      BY <1>2, <2>1 DEF Has, Agree, TypeOK, Landed
  <1>. QED
    BY <1>1, <1>2

(***************************************************************************)
(* An import that ends and leaves the target as it is stays where it was.  *)
(***************************************************************************)
LEMMA LandedStays ==
  ASSUME Landed, UNCHANGED <<source, db, before, file>>,
         stream' = "good" => stream = "good",
         pc' = pc \/ (pc' = "failed" /\ pc = "reading")
  PROVE  Landed'
  <1>1. \A w : Expected(w)' = Expected(w)
    BY DEF Expected
  <1>. QED
    BY <1>1 DEF Landed

-----------------------------------------------------------------------------

(***************************************************************************)
(* What pushing a pair does to the target and the batch, on the ids in S:  *)
(* the pair joins the batch, or the batch is written, or the import ends.  *)
(***************************************************************************)
LEMMA PushOutcome ==
  ASSUME TypeOK, NEW k \in NumID, NEW v \in Strings, Push(k, v),
         pc = "reading",
         NEW S \in SUBSET NumID, NEW a, NEW b, NEW c,
         Agree(a, b, S), With(b, k, v, c, S)
  PROVE  \/ /\ pc' = "reading" /\ count' = count + 1
            /\ Agree(a, c, S)'
         \/ /\ pc' = "reading" /\ count' = 0 /\ count + 1 = BatchSize
            /\ Agree(c, c, S)'
         \/ pc' = "failed" /\ db' = db
  <1>. DEFINE p == [pairs EXCEPT ![k] = v]
  <1>1. \A n \in NumID : p[n] = IF n = k THEN v ELSE pairs[n]
    BY DEF TypeOK, Records
  <1>2. None \notin Strings
    BY StringAssumption
  <1>3. \A n \in S : Put(db, p)[n] = c[n]
    <2>. TAKE n \in S
    <2>1. CASE n = k
      BY <1>1, <1>2, <2>1 DEF Put, With
    <2>2. CASE n # k
      <3>1. p[n] = pairs[n] /\ c[n] = Put(db, pairs)[n]
        BY <1>1, <2>2 DEF Agree, With
      <3>. QED
        BY <3>1 DEF Put
    <2>. QED
      BY <2>1, <2>2
  <1>4. count + 1 <= BatchSize /\ count \in Nat
    BY EnvironmentAssumption DEF TypeOK
  <1>. HIDE DEF p
  <1>5. CASE count + 1 < BatchSize
    <2>1. pairs' = p /\ count' = count + 1 /\ db' = db /\ pc' = pc
      BY <1>5 DEF Push, p
    <2>. QED
      BY <1>3, <2>1 DEF Put, Agree
  <1>6. CASE ~(count + 1 < BatchSize)
    <2>1. pairs' = NoRecords /\ count' = 0 /\ count + 1 = BatchSize
      BY <1>4, <1>6, EnvironmentAssumption DEF Push, Flush
    <2>2. (db' = Put(db, p) /\ pc' = "reading") \/ (pc' = "failed" /\ db' = db)
      BY <1>6 DEF Push, Flush, p
    <2>3. \A n \in NumID : Put(db', pairs')[n] = db'[n]
      BY <2>1 DEF Put, NoRecords
    <2>. QED
      BY <1>3, <2>1, <2>2, <2>3 DEF Agree
  <1>. QED
    BY <1>5, <1>6

(***************************************************************************)
(* The batch a push leaves is empty only when it has no records.           *)
(***************************************************************************)
LEMMA PushCount ==
  ASSUME TypeOK, NEW k, NEW v, Push(k, v), count' = 0
  PROVE  pairs' = NoRecords
  BY EnvironmentAssumption DEF Push, Flush, TypeOK

(***************************************************************************)
(* Pushing whatever there is under a key damages no other id.              *)
(***************************************************************************)
LEMMA PushOneOff ==
  ASSUME TypeOK, NEW k \in NumID, NEW v \in Strings, Push(k, v),
         pc = "reading", UNCHANGED <<source, before, file>>,
         NEW w \in 0..Len(file.items), NEW j \in 0..Len(file.items),
         Has(w, j, NumID \ {k}), pc' = "reading"
  PROVE  OneOff'
  <1>1. PICK a, b : a = Expected(w) /\ b = Expected(j)
    OBVIOUS
  <1>2. a = Expected(w)' /\ b = Expected(j)'
    BY <1>1 DEF Expected
  <1>3. PICK S \in SUBSET NumID : S = NumID \ {k}
    OBVIOUS
  <1>4. Agree(a, b, S) /\ With(b, k, v, b, S)
    BY <1>1, <1>3 DEF Has, With
  <1>5. Agree(a, b, S)' \/ Agree(b, b, S)'
    BY <1>4, PushOutcome
  <1>6. key' = k
    BY DEF Push
  <1>. QED
    BY <1>2, <1>3, <1>5, <1>6 DEF OneOff, Has, Agree

(***************************************************************************)
(* A batch that is written at its size keeps the target at a whole number  *)
(* of batches.                                                             *)
(***************************************************************************)
LEMMA WholeBatches ==
  ASSUME NEW w \in Nat, w % BatchSize = 0
  PROVE  (w + BatchSize) % BatchSize = 0
  <1>1. PICK q \in Nat : w = BatchSize * q
    <2>1. w \div BatchSize \in Nat /\ w = BatchSize * (w \div BatchSize)
      BY EnvironmentAssumption
    <2>. QED
      BY <2>1
  <1>2. w + BatchSize = BatchSize * (q + 1)
    BY <1>1, EnvironmentAssumption
  <1>3. \A m \in Nat : (BatchSize * m) % BatchSize = 0
    BY EnvironmentAssumption
  <1>. QED
    BY <1>2, <1>3

(***************************************************************************)
(* Pushing the next item, which shows a record, keeps everything in step.  *)
(***************************************************************************)
LEMMA PushInStep ==
  ASSUME TypeOK, InStep, rest # <<>>, pc = "reading", pc' = "reading",
         Head(rest)[1] \in NumID, source[Head(rest)[1]] \in Strings,
         Push(Head(rest)[1], source[Head(rest)[1]]),
         rest' = Tail(rest), UNCHANGED <<source, before, file>>
  PROVE  InStep' /\ OneOff'
  <1>1. PICK w, j \in 0..Len(file.items) :
          /\ Len(rest) = Len(file.items) - j
          /\ \A i \in 1..Len(rest) : rest[i] = file.items[j + i]
          /\ w = j - count
          /\ w % BatchSize = 0
          /\ Has(w, j, NumID)
    BY DEF InStep
  <1>2. PICK k \in NumID : k = Head(rest)[1]
    OBVIOUS
  <1>3. PICK S : rest \in Seq(S)
    BY DEF TypeOK, Contents
  <1>4. /\ Len(rest) \in Nat \ {0} /\ Head(rest) = rest[1]
        /\ Len(Tail(rest)) = Len(rest) - 1
        /\ \A i \in 1..Len(Tail(rest)) : Tail(rest)[i] = rest[i + 1]
    BY <1>3
  <1>5. Len(file.items) \in Nat /\ j + 1 \in 0..Len(file.items)
    BY <1>1, <1>4, ContentsAreSequences DEF TypeOK
  <1>6. file.items[j + 1][1] = k
    <2>1. 1 \in 1..Len(rest)
      BY <1>4
    <2>2. rest[1] = file.items[j + 1]
      BY <1>1, <2>1
    <2>. QED
      BY <1>2, <1>4, <2>2
  <1>7. source[k] # None
    BY <1>2, StringAssumption
  <1>8. PICK a, b, c :
          a = Expected(w) /\ b = Expected(j) /\ c = Expected(j + 1)
    OBVIOUS
  <1>9. a = Expected(w)' /\ c = Expected(j + 1)'
    BY <1>8 DEF Expected
  <1>10. Agree(a, b, NumID) /\ With(b, k, source[k], c, NumID)
    <2>1. PICK m \in Nat : m = j + 1 /\ j \in Nat
      BY <1>5
    <2>2. file.items[m][1] = k
      BY <1>6, <2>1
    <2>3. With(Expected(j), k, source[k], Expected(m), NumID)
      BY <1>7, <2>1, <2>2, RestoredNext DEF Expected
    <2>. QED
      BY <1>1, <1>8, <2>1, <2>3 DEF Has
  <1>11. /\ Len(rest') = Len(file'.items) - (j + 1)
         /\ \A i \in 1..Len(rest') : rest'[i] = file'.items[(j + 1) + i]
    <2>1. Len(rest') = Len(file'.items) - (j + 1)
      BY <1>1, <1>4, <1>5
    <2>2. ASSUME NEW i \in 1..Len(rest')
          PROVE  rest'[i] = file'.items[(j + 1) + i]
      <3>1. i + 1 \in 1..Len(rest) /\ rest'[i] = rest[i + 1]
        BY <1>4, <2>2
      <3>2. rest[i + 1] = file.items[j + (i + 1)]
        BY <1>1, <3>1
      <3>3. j + (i + 1) = (j + 1) + i
        OBVIOUS
      <3>. QED
        BY <3>1, <3>2, <3>3
    <2>. QED
      BY <2>1, <2>2
  <1>12. count \in Nat /\ w \in Nat
    BY EnvironmentAssumption DEF TypeOK
  <1>13. \E u \in {w, j + 1} :
           /\ u = (j + 1) - count'
           /\ u % BatchSize = 0
           /\ Has(u, j + 1, NumID)'
    <2>1. CASE count' = count + 1 /\ Agree(a, c, NumID)'
      <3>1. w = (j + 1) - count'
        BY <1>1, <1>12, <2>1
      <3>2. Has(w, j + 1, NumID)'
        BY <1>9, <2>1 DEF Has, Agree
      <3>. QED
        BY <1>1, <3>1, <3>2
    <2>2. CASE count' = 0 /\ count + 1 = BatchSize /\ Agree(c, c, NumID)'
      <3>1. j + 1 = (j + 1) - count' /\ j + 1 = w + BatchSize
        <4>1. w = j - count /\ j \in Nat /\ count + 1 = BatchSize /\ count' = 0
          BY <1>1, <1>5, <2>2
        <4>. QED
          BY <1>12, <4>1
      <3>2. (j + 1) % BatchSize = 0
        BY <1>1, <1>12, <3>1, WholeBatches
      <3>3. Has(j + 1, j + 1, NumID)'
        BY <1>9, <2>2 DEF Has, Agree
      <3>. QED
        BY <3>1, <3>2, <3>3
    <2>3. PICK v \in Strings : v = source[k]
      BY <1>2
    <2>4. Push(k, v) /\ With(b, k, v, c, NumID) /\ NumID \in SUBSET NumID
      BY <1>2, <1>10, <2>3
    <2>5. \/ count' = count + 1 /\ Agree(a, c, NumID)'
          \/ count' = 0 /\ count + 1 = BatchSize /\ Agree(c, c, NumID)'
      BY <1>10, <2>4, PushOutcome
    <2>. QED
      BY <2>1, <2>2, <2>5
  <1>14. PICK u \in {w, j + 1} :
           /\ u = (j + 1) - count'
           /\ u % BatchSize = 0
           /\ Has(u, j + 1, NumID)'
    BY <1>13
  <1>15. u \in 0..Len(file'.items) /\ j + 1 \in 0..Len(file'.items)
    BY <1>5
  <1>16. InStep'
    BY <1>11, <1>14, <1>15 DEF InStep
  <1>17. OneOff'
    BY <1>14, <1>15 DEF OneOff, Has, Agree
  <1>. QED
    BY <1>16, <1>17

-----------------------------------------------------------------------------

(***************************************************************************)
(* A dump that ends early has true items before its last line.             *)
(***************************************************************************)
LEMMA CutItemsTrue ==
  ASSUME TypeOK, DumpInv, DumpCut, file.format = "binary" \/ AllPlain,
         NEW i \in 1..Len(file'.items)
  PROVE  \/ TextCut' /\ i = Len(file'.items)
         \/ Shows(file'.items[i], file'.format, source)
  <1>1. /\ pc = "dumping" /\ file.cut = "none" /\ Len(file.items) \in Nat
        /\ \A m \in 1..Len(file.items) : Shows(file.items[m], file.format, source)
    BY ContentsAreSequences DEF DumpCut, DumpInv, TypeOK
  <1>2. CASE file' = file
    BY <1>1, <1>2
  <1>3. CASE file.items = <<>> /\ file' = [file EXCEPT !.cut = "magic"]
    <2>1. file'.items = <<>>
      BY <1>3 DEF TypeOK
    <2>. QED
      BY <2>1
  <1>4. ASSUME file.format = "binary",
               NEW n \in NumID, NEW c, IsNext(n),
               file' = [file EXCEPT !.items = Append(@, <<n, it[n]>>), !.cut = c]
        PROVE  Shows(file'.items[i], file'.format, source)
    <2>1. it[n] = source[n] /\ file.items \in Seq(NumID \X Strings)
          /\ <<n, it[n]>> \in NumID \X Strings
      BY <1>1, <1>4 DEF IsNext, Remaining, DumpInv, TypeOK, Records, Contents
    <2>2. file'.items = Append(file.items, <<n, it[n]>>) /\ file'.format = "binary"
      BY <1>4 DEF TypeOK
    <2>3. /\ Len(file'.items) = Len(file.items) + 1
          /\ \A m \in 1..Len(file.items) : file'.items[m] = file.items[m]
          /\ file'.items[Len(file.items) + 1] = <<n, source[n]>>
      BY <2>1, <2>2
    <2>4. Shows(<<n, source[n]>>, "binary", source)
      BY DEF Shows, Shown
    <2>5. CASE i \in 1..Len(file.items)
      BY <1>1, <1>4, <2>2, <2>3, <2>5
    <2>6. CASE i = Len(file.items) + 1
      BY <2>2, <2>3, <2>4, <2>6
    <2>. QED
      BY <1>1, <2>3, <2>5, <2>6
  <1>5. ASSUME file.format = "text", NEW n \in NumID, IsNext(n),
               NEW j \in 1..Len(it[n]),
               NEW line \in Cut(TextLines(n, it[n])[j]),
               file' = [file EXCEPT
                 !.items = @ \o SubSeq(TextLines(n, it[n]), 1, j - 1)
                             \o <<line>>,
                 !.cut = "line"],
               i # Len(file'.items)
        PROVE  Shows(file'.items[i], file'.format, source)
    <2>1. it[n] = source[n] /\ it[n] \in Strings
      BY <1>1, <1>5 DEF IsNext, Remaining, DumpInv, TypeOK, Records
    <2>2. j = 1
      <3>1. source[n] # None
        BY <2>1, StringAssumption
      <3>2. Len(source[n]) = 1
        BY <1>5, <3>1 DEF AllPlain, Plain
      <3>. QED
        BY <1>5, <2>1, <3>2
    <2>3. PICK lines \in Seq(Lines) : lines = TextLines(n, it[n])
      BY <2>1, TextLinesType
    <2>4. PICK none \in Seq(Lines) : none = SubSeq(lines, 1, 0) /\ Len(none) = 0
      <3>1. SubSeq(lines, 1, 0) \in Seq(Lines) /\ Len(SubSeq(lines, 1, 0)) = 0
        OBVIOUS
      <3>. QED
        BY <3>1
    <2>5. file'.items = file.items \o none \o <<line>> /\ file'.format = "text"
      BY <1>5, <2>2, <2>3, <2>4 DEF TypeOK
    <2>6. PICK items \in Seq(Lines) : items = file.items
      BY <1>5 DEF TypeOK, Contents
    <2>7. PICK new : new = items \o none \o <<line>>
      OBVIOUS
    <2>8. /\ Len(new) = Len(items) + 1
          /\ \A m \in 1..Len(items) : new[m] = items[m]
      <3>1. line \in Lines
        <4>1. Len(lines) = Len(it[n])
          BY <2>1, <2>3, TextLinesType
        <4>2. lines[j] \in Lines
          BY <1>5, <2>1, <4>1, StringType
        <4>. QED
          BY <1>5, <2>3, <4>2, CutType
      <3>2. <<line>> \in Seq(Lines) /\ Len(<<line>>) = 1
        BY <3>1
      <3>3. PICK most \in Seq(Lines) : most = items \o none
        <4>1. items \o none \in Seq(Lines)
          OBVIOUS
        <4>. QED
          BY <4>1
      <3>4. Len(most) = Len(items) /\ \A m \in 1..Len(items) : most[m] = items[m]
        BY <2>4, <3>3
      <3>. QED
        BY <2>7, <3>2, <3>3, <3>4
    <2>9. i \in 1..Len(items)
      BY <1>1, <1>5, <2>5, <2>6, <2>7, <2>8
    <2>. QED
      BY <1>1, <1>5, <2>5, <2>6, <2>7, <2>8, <2>9
  <1>6. file'.format = file.format
    BY DEF DumpCut, TypeOK
  <1>7. ASSUME file' = [file EXCEPT !.items = file'.items, !.cut = "line"],
               file.format = "text"
        PROVE  TextCut'
    BY <1>7 DEF TextCut, TypeOK
  <1>. QED
    BY <1>2, <1>3, <1>4, <1>5, <1>6, <1>7 DEF DumpCut

(***************************************************************************)
(* Every step keeps the items true.                                        *)
(***************************************************************************)
LEMMA ItemsTrueStep ==
  TypeOK /\ DumpInv /\ ItemsTrue /\ [Next]_vars => ItemsTrue'
  <1>. SUFFICES ASSUME TypeOK, DumpInv, ItemsTrue, [Next]_vars PROVE ItemsTrue'
    OBVIOUS
  <1>0. source' = source /\ (AllPlain' <=> AllPlain)
    BY DEF Next, vars, databases, Export, DumpRecord, DumpDone, DumpCut, Import,
           ReadRecord, ReadCutRecord, ReadPastEnd, ReadError, Spin, ReadLine,
           ReadLineError, Finish, Kill, AllPlain
  <1>1. CASE DumpCut
    <2>1. file'.format = file.format
      BY <1>1 DEF DumpCut, TypeOK
    <2>. QED
      BY <1>0, <1>1, <2>1, CutItemsTrue DEF ItemsTrue
  <1>2. ASSUME file'.cut = "none" PROVE ItemsTrue'
    BY <1>2, DumpInvStep DEF DumpInv, ItemsTrue
  <1>3. CASE DumpRecord \/ DumpDone \/ \E b, toFile \in BOOLEAN : Export(b, toFile)
    <2>1. file'.cut = "none"
      BY <1>3 DEF DumpRecord, DumpDone, Export, DumpInv, TypeOK
    <2>. QED
      BY <1>2, <2>1
  <1>4. CASE file' = file
    BY <1>0, <1>4 DEF ItemsTrue, TextCut
  <1>. QED
    BY <1>1, <1>3, <1>4
    DEF Next, vars, databases, Import, ReadRecord, ReadCutRecord, ReadPastEnd,
        ReadError, Spin, ReadLine, ReadLineError, Finish, Kill

-----------------------------------------------------------------------------

(***************************************************************************)
(* Every new import begins in step, with nothing restored.                 *)
(***************************************************************************)
LEMMA ImportInStep ==
  ASSUME TypeOK, NEW b \in BOOLEAN, Import(b)
  PROVE  /\ pc' = "reading" => LoopInv'
         /\ pc' # "reading" => Landed'
  <1>1. /\ before' = db /\ db' = db /\ source' = source /\ file' = file
        /\ pairs' = NoRecords /\ count' = 0 /\ key' \in NumID
    BY DEF Import
  <1>2. Restored(db, file.items, source, 0) = db
    BY RestoredNone DEF TypeOK
  <1>3. Expected(0)' = db
    BY <1>1, <1>2 DEF Expected
  <1>4. PICK zero \in Nat : zero = 0
    OBVIOUS
  <1>5. /\ zero \in 0..Len(file'.items) /\ zero % BatchSize = 0
        /\ zero = zero - count'
    BY <1>1, <1>4, ContentsAreSequences, EnvironmentAssumption DEF TypeOK
  <1>6. \A n \in NumID : db'[n] = Expected(zero)'[n]
    BY <1>1, <1>3, <1>4
  <1>7. Has(zero, zero, NumID)'
    BY <1>1, <1>6 DEF Has, Agree, Put, NoRecords
  <1>8. ASSUME pc' = "reading" PROVE InStep'
    <2>1. rest' = file'.items
      BY <1>1, <1>8 DEF Import
    <2>2. Len(rest') = Len(file'.items) - zero
      BY <1>1, <1>4, <2>1, ContentsAreSequences DEF TypeOK
    <2>3. \A i \in 1..Len(rest') : rest'[i] = file'.items[zero + i]
      BY <1>4, <2>1
    <2>. QED
      BY <1>5, <1>7, <2>2, <2>3 DEF InStep
  <1>9. OneOff'
    BY <1>5, <1>7 DEF OneOff, Has, Agree
  <1>10. Landed'
    BY <1>1, <1>5, <1>6 DEF Landed
  <1>. QED
    BY <1>1, <1>8, <1>9, <1>10 DEF LoopInv

(***************************************************************************)
(* In step, the next item shows a record of the source, unless it is the   *)
(* cut line at the end of a text.                                          *)
(***************************************************************************)
LEMMA HeadShows ==
  ASSUME TypeOK, ItemsTrue, file.format = "binary" \/ AllPlain,
         InStep, rest # <<>>
  PROVE  \/ Shows(Head(rest), file.format, source)
         \/ TextCut /\ Tail(rest) = <<>>
  <1>1. PICK j \in 0..Len(file.items) :
          /\ Len(rest) = Len(file.items) - j
          /\ \A i \in 1..Len(rest) : rest[i] = file.items[j + i]
    BY DEF InStep
  <1>2. PICK S : rest \in Seq(S)
    BY DEF TypeOK, Contents
  <1>3. /\ Len(rest) \in Nat \ {0} /\ Head(rest) = rest[1]
        /\ Len(rest) = 1 => Tail(rest) = <<>>
    <2>1. /\ Len(rest) \in Nat \ {0} /\ Head(rest) = rest[1]
          /\ Tail(rest) \in Seq(S) /\ Len(Tail(rest)) = Len(rest) - 1
      BY <1>2
    <2>2. \A s \in Seq(S) : Len(s) = 0 => s = <<>>
      OBVIOUS
    <2>3. Len(rest) = 1 => Len(Tail(rest)) = 0
      BY <2>1
    <2>. QED
      BY <2>1, <2>2, <2>3
  <1>4. Len(file.items) \in Nat
    BY ContentsAreSequences DEF TypeOK
  <1>5. j + 1 \in 1..Len(file.items) /\ Head(rest) = file.items[j + 1]
    <2>1. 1 \in 1..Len(rest)
      BY <1>3
    <2>2. rest[1] = file.items[j + 1]
      BY <1>1, <2>1
    <2>3. j + 1 \in 1..Len(file.items)
      BY <1>1, <1>3, <1>4
    <2>. QED
      BY <1>3, <2>2, <2>3
  <1>6. j + 1 = Len(file.items) => Len(rest) = 1
    BY <1>1, <1>3, <1>4
  <1>. QED
    BY <1>3, <1>5, <1>6 DEF ItemsTrue

(***************************************************************************)
(* While everything is in step no id is off.                               *)
(***************************************************************************)
LEMMA InStepOneOff ==
  ASSUME InStep, NEW k \in NumID
  PROVE  \E w, j \in 0..Len(file.items) : Has(w, j, NumID \ {k})
  BY DEF InStep, Has, Agree

(***************************************************************************)
(* After a push of anything at all, when nothing more is asked of the      *)
(* order of the items.                                                     *)
(***************************************************************************)
LEMMA PushAnything ==
  ASSUME TypeOK, NEW k \in NumID, NEW v \in Strings, Push(k, v),
         pc = "reading", pc' = "reading", UNCHANGED <<source, before, file>>,
         InStep \/ (OneOff /\ k = key),
         stream' # "good" \/ (TextCut' /\ rest' = <<>>)
  PROVE  LoopInv'
  <1>1. PICK w, j \in 0..Len(file.items) : Has(w, j, NumID \ {k})
    BY InStepOneOff DEF OneOff
  <1>2. OneOff'
    BY <1>1, PushOneOff
  <1>3. count' = 0 => pairs' = NoRecords
    BY PushCount
  <1>. QED
    BY <1>2, <1>3 DEF LoopInv

(***************************************************************************)
(* After a push of the next item as it is.                                 *)
(***************************************************************************)
LEMMA PushNext ==
  ASSUME TypeOK, InStep, rest # <<>>, pc = "reading", pc' = "reading",
         Head(rest)[1] \in NumID, source[Head(rest)[1]] \in Strings,
         Push(Head(rest)[1], source[Head(rest)[1]]),
         rest' = Tail(rest), UNCHANGED <<source, before, file>>
  PROVE  LoopInv'
  <1>1. count' = 0 => pairs' = NoRecords
    BY PushCount
  <1>. QED
    BY <1>1, PushInStep DEF LoopInv

(***************************************************************************)
(* A step of the loop that goes on reading.                                *)
(***************************************************************************)
LEMMA LoopGoesOn ==
  ASSUME TypeOK, DumpInv, ItemsTrue, LoopInv, Suits, pc = "reading",
         Next, pc' = "reading"
  PROVE  LoopInv'
  <1>0. /\ binary <=> file.format = "binary"
        /\ file.format = "binary" \/ AllPlain
        /\ file.format \in {"binary", "text"}
    BY DEF Suits, TypeOK
  <1>1. ASSUME stream = "good", binary \/ rest # <<>> PROVE InStep
    BY <1>0, <1>1 DEF LoopInv, TextCut
  <1>2. CASE ReadRecord
    <2>1. /\ rest # <<>> /\ file.format = "binary" /\ rest' = Tail(rest)
          /\ UNCHANGED <<source, before, file>>
          /\ Push(Head(rest)[1], Head(rest)[2])
          /\ InStep
      BY <1>0, <1>1, <1>2 DEF ReadRecord, Reading
    <2>2. Shows(Head(rest), file.format, source)
      BY <1>0, <2>1, HeadShows DEF TextCut
    <2>3. /\ Head(rest)[1] \in NumID /\ Head(rest)[2] \in Strings
          /\ source[Head(rest)[1]] = Head(rest)[2]
      BY <2>1, <2>2, RestType DEF Shows, Shown
    <2>. QED
      BY <2>1, <2>3, PushNext
  <1>3. ASSUME TornKey \/ TornValue, binary, stream = "good", stream' # "good",
               UNCHANGED <<source, before, file>>
        PROVE  LoopInv'
    <2>1. InStep
      BY <1>1, <1>3
    <2>2. PICK k \in NumID, v \in Strings : Push(k, v)
      BY <1>0, <1>3, RestType DEF TornKey, TornValue, TypeOK
    <2>. QED
      BY <1>3, <2>1, <2>2, PushAnything
  <1>4. CASE ReadCutRecord \/ ReadError
    BY <1>3, <1>4 DEF ReadCutRecord, ReadError, Reading
  <1>5. CASE ReadPastEnd \/ Spin
    <2>1. /\ Push(key, value) /\ UNCHANGED <<source, before, file>>
          /\ stream' # "good" /\ OneOff
      BY <1>5 DEF ReadPastEnd, Spin, LoopInv
    <2>. QED
      BY <2>1, PushAnything DEF TypeOK
  <1>6. CASE ReadLine
    <2>. DEFINE line == Head(rest)
    <2>1. /\ rest # <<>> /\ file.format = "text" /\ rest' = Tail(rest)
          /\ UNCHANGED <<source, before, file>> /\ InStep
      BY <1>0, <1>1, <1>6 DEF ReadLine, Reading
    <2>2. line \in Lines
      BY <2>1, RestType
    <2>3. CASE Shows(line, file.format, source)
      <3>1. Len(line) = 2 /\ line[1] \in NumID
            /\ source[line[1]] = <<<<line[2]>>>>
        BY <2>1, <2>3 DEF Shows, Shown
      <3>2. <<<<line[2]>>>> \in Strings
        BY <2>2, <3>1, StringAssumption DEF Lines
      <3>3. Push(line[1], <<<<line[2]>>>>)
        BY <1>6, <3>1 DEF ReadLine
      <3>. QED
        BY <2>1, <3>1, <3>2, <3>3, PushNext
    <2>4. CASE TextCut /\ Tail(rest) = <<>>
      <3>1. PICK k \in NumID, v \in Strings : Push(k, v)
        <4>1. ASSUME line[1] \in NumID, Len(line) > 1,
                     Push(line[1], <<<<line[2]>>>>)
              PROVE  \E k \in NumID, v \in Strings : Push(k, v)
          <5>1. line[2] \in Fields
            BY <2>2, <4>1 DEF Lines
          <5>. QED
            BY <4>1, <5>1, StringAssumption
        <4>. QED
          BY <1>6, <4>1 DEF ReadLine, Fail
      <3>2. TextCut' /\ rest' = <<>>
        BY <2>1, <2>4 DEF TextCut
      <3>. QED
        BY <2>1, <3>1, <3>2, PushAnything
    <2>. QED
      BY <1>0, <2>1, <2>3, <2>4, HeadShows
  <1>7. CASE ReadLineError
    <2>1. /\ UNCHANGED <<source, db, before, file, key, pairs, count>>
          /\ stream' = "bad"
      BY <1>7 DEF ReadLineError, databases
    <2>2. \A w : Expected(w)' = Expected(w)
      BY <2>1 DEF Expected
    <2>. QED
      BY <2>1, <2>2 DEF LoopInv, OneOff, Has, Agree, Put
  <1>. QED
    BY <1>2, <1>4, <1>5, <1>6, <1>7
    DEF Next, Export, DumpRecord, DumpDone, DumpCut, Import, Finish, Flush,
        Kill, Fail

(***************************************************************************)
(* A step that ends the loop: an exception, a failed write or a kill leave *)
(* the target as it was, and the end of the file adds the last batch.      *)
(***************************************************************************)
LEMMA LoopEnds ==
  ASSUME TypeOK, DumpInv, LoopInv, pc = "reading", Next, pc' # "reading"
  PROVE  Landed'
  <1>1. ASSUME db' = db, UNCHANGED <<source, before, file>>,
               stream' = "good" => stream = "good", pc' = "failed"
        PROVE  Landed'
    BY <1>1, LoopLands, LandedStays
  <1>2. ASSUME NEW k, NEW v, Push(k, v) PROVE db' = db /\ pc' = "failed"
    BY <1>2 DEF Push, Flush
  <1>3. CASE ReadRecord \/ ReadPastEnd \/ Spin
    BY <1>1, <1>2, <1>3 DEF ReadRecord, ReadPastEnd, Spin
  <1>4. CASE ReadCutRecord \/ ReadError
    BY <1>1, <1>2, <1>4 DEF ReadCutRecord, ReadError, TornKey, TornValue
  <1>5. CASE ReadLine
    BY <1>1, <1>2, <1>5 DEF ReadLine, Fail
  <1>6. CASE Kill
    BY <1>1, <1>6 DEF Kill, Fail, databases
  <1>7. CASE Finish
    <2>1. UNCHANGED <<source, before, file, stream, key>>
          /\ pc' \in {"failed", "done"}
      BY <1>7 DEF Finish, Flush
    <2>2. CASE pc' = "failed"
      <3>1. db' = db
        BY <1>7, <2>2 DEF Finish, Flush
      <3>. QED
        BY <1>1, <2>1, <2>2, <3>1
    <2>3. CASE pc' = "done"
      <3>1. \A n \in NumID : db'[n] = Put(db, pairs)[n]
        <4>1. CASE count > 0
          BY <1>7, <2>3, <4>1 DEF Finish, Flush
        <4>2. CASE ~(count > 0)
          <5>1. db' = db /\ count = 0
            BY <1>7, <4>2, EnvironmentAssumption DEF Finish, TypeOK
          <5>. QED
            BY <5>1 DEF LoopInv, Put, NoRecords
        <4>. QED
          BY <4>1, <4>2
      <3>2. \A w : Expected(w)' = Expected(w)
        BY <2>1 DEF Expected
      <3>3. CASE file.whole /\ stream = "good"
        <4>1. PICK w, j \in 0..Len(file.items) : Has(w, j, NumID)
          BY <3>3 DEF LoopInv, InStep, DumpInv, TextCut
        <4>2. \A n \in NumID : db'[n] = Expected(j)'[n]
          BY <3>1, <3>2, <4>1 DEF Has, Agree
        <4>. QED
          BY <2>1, <2>3, <4>2 DEF Landed, TypeOK
      <3>4. CASE ~(file.whole /\ stream = "good")
        <4>1. PICK w, j \in 0..Len(file.items) : Has(w, j, NumID \ {key})
          BY DEF LoopInv, OneOff
        <4>2. \A n \in NumID \ {key} : db'[n] = Expected(j)'[n]
          BY <3>1, <3>2, <4>1 DEF Has, Agree
        <4>. QED
          BY <2>1, <3>4, <4>2 DEF Landed, TypeOK
      <3>. QED
        BY <3>3, <3>4
    <2>. QED
      BY <2>1, <2>2, <2>3
  <1>. QED
    BY <1>3, <1>4, <1>5, <1>6, <1>7
    DEF Next, Export, DumpRecord, DumpDone, DumpCut, Import, ReadLineError

(***************************************************************************)
(* Every step keeps PrefixInv.                                             *)
(***************************************************************************)
LEMMA PrefixStep ==
  TypeOK /\ DumpInv /\ PrefixInv /\ [Next]_vars => PrefixInv'
  <1>. SUFFICES ASSUME TypeOK, DumpInv, PrefixInv, [Next]_vars
                PROVE  /\ pc' = "reading" /\ Suits' => LoopInv'
                       /\ pc' \in {"failed", "done"} /\ Suits' => Landed'
    BY ItemsTrueStep DEF PrefixInv
  <1>1. CASE \E b \in BOOLEAN : Import(b)
    BY <1>1, ImportInStep
  <1>2. CASE pc = "reading" /\ Next
    <2>1. UNCHANGED <<source, file, binary>>
      BY <1>2
      DEF Next, databases, Export, DumpRecord, DumpDone, DumpCut, Import,
          ReadRecord, ReadCutRecord, ReadPastEnd, ReadError, Spin, ReadLine,
          ReadLineError, Finish, Kill
    <2>2. Suits' => Suits
      BY <2>1 DEF Suits, AllPlain
    <2>. QED
      BY <1>2, <2>2, LoopGoesOn, LoopEnds DEF PrefixInv
  <1>3. CASE Next /\ pc # "reading" /\ ~(\E b \in BOOLEAN : Import(b))
    <2>1. pc' \in {"dumping", "dumped"}
      BY <1>3
      DEF Next, Export, DumpRecord, DumpDone, DumpCut, ReadRecord,
          ReadCutRecord, ReadPastEnd, ReadError, Spin, ReadLine, ReadLineError,
          Finish, Kill, Reading
    <2>. QED
      BY <2>1
  <1>4. CASE UNCHANGED vars
    <2>1. \A w : Expected(w)' = Expected(w)
      BY <1>4 DEF Expected, vars, databases
    <2>2. Suits' => Suits
      BY <1>4 DEF Suits, AllPlain, vars, databases, locals
    <2>3. LoopInv => LoopInv'
      <3>1. /\ UNCHANGED <<file, rest, key, stream, count, pairs>>
            /\ UNCHANGED <<source, before, db>>
        BY <1>4 DEF vars, databases, locals
      <3>2. \A w, j, S : Has(w, j, S)' <=> Has(w, j, S)
        BY <2>1, <3>1 DEF Has, Agree, Put
      <3>3. InStep => InStep'
        BY <3>1, <3>2 DEF InStep
      <3>4. OneOff => OneOff'
        BY <3>1, <3>2 DEF OneOff
      <3>. QED
        BY <3>1, <3>3, <3>4 DEF LoopInv, TextCut
    <2>4. Landed => Landed'
      BY <1>4, <2>1 DEF Landed, vars, databases, locals
    <2>. QED
      BY <1>4, <2>2, <2>3, <2>4 DEF PrefixInv, vars
  <1>. QED
    BY <1>1, <1>2, <1>3, <1>4

(***************************************************************************)
(* Before the first import there is nothing to show.                       *)
(***************************************************************************)
LEMMA PrefixInit == Init => PrefixInv
  <1>. SUFFICES ASSUME Init PROVE PrefixInv
    OBVIOUS
  <1>1. file.items = <<>> /\ pc = "idle"
    BY DEF Init
  <1>2. \A i \in 1..Len(file.items) : FALSE
    BY <1>1
  <1>. QED
    BY <1>1, <1>2 DEF PrefixInv, ItemsTrue

(***************************************************************************)
(* An import that fails, is killed, or reads a file that lost its end or   *)
(* cannot be read has put a prefix of the dump into the target, with at    *)
(* most one id wrong; and exactly a whole number of batches as long as     *)
(* nothing is wrong with the file: whatever goes wrong, and when.          *)
(***************************************************************************)
THEOREM PrefixAlwaysRestored == Spec => []PrefixRestored
  <1>1. Init => TypeOK /\ CopyInv /\ PrefixInv
    BY TypeInit, CopyInit, PrefixInit
  <1>2. TypeOK /\ CopyInv /\ PrefixInv /\ [Next]_vars
        => (TypeOK /\ CopyInv /\ PrefixInv)'
    BY TypeStep, CopyStep, PrefixStep DEF CopyInv
  <1>3. TypeOK /\ CopyInv /\ PrefixInv => PrefixRestored
    <2>. SUFFICES ASSUME TypeOK, CopyInv, PrefixInv,
                         pc \in {"reading", "failed", "done"}, Suits
                  PROVE  PrefixRestored
      BY DEF PrefixRestored
    <2>1. Landed
      BY LoopLands DEF PrefixInv, CopyInv
    <2>. QED
      BY <2>1, LandedIsPrefix
  <1>. QED
    BY <1>1, <1>2, <1>3, PTL DEF Spec

=============================================================================
