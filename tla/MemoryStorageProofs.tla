------------------------ MODULE MemoryStorageProofs -------------------------
(***************************************************************************)
(* Theorems about MemoryStorage, for any number of threads, strings and    *)
(* ids and any bound on finds.                                             *)
(***************************************************************************)
EXTENDS MemoryStorage, SequenceTheorems, TLAPS

-----------------------------------------------------------------------------
(***************************************************************************)
(* The key a thread is born with is one, and so is that of every string.   *)
(***************************************************************************)
LEMMA KeysExist == AnyKey \in Keys /\ \A s \in Strings : CStr(s) \in Keys
BY MemoryAssumption DEF AnyKey, Keys

(***************************************************************************)
(* A pointer that dangles, or none, is no key.                             *)
(***************************************************************************)
LEMMA NotKeys == NULL \notin Keys /\ Dangling \notin Keys /\ NULL # Dangling
BY MemoryAssumption

(***************************************************************************)
(* Pointers stay pointers when words move.                                 *)
(***************************************************************************)
LEMMA MovedPointer ==
  ASSUME NEW p \in Pointers, NEW moved
  PROVE  /\ Moved(p, moved) \in Pointers
         /\ Moved(p, moved) \in Keys => Moved(p, moved) = p /\ p \notin moved
BY NotKeys DEF Moved, Pointers

(***************************************************************************)
(* Every step keeps the types of the variables and the pointers good.      *)
(***************************************************************************)
LEMMA InitTypes == Init => TypeOK /\ Pointing
<1>1. SUFFICES ASSUME Init PROVE TypeOK /\ Pointing
  OBVIOUS
<1>2. data \in [Keys -> Int \cup {Absent}] /\ counter \in Int
  BY <1>1, MemoryAssumption DEF Init
<1>3. value \in Pointers /\ rv \in [Threads -> Pointers]
  BY <1>1 DEF Init, Pointers
<1>4. /\ pc \in [Threads -> {"idle", "called", "found", "missing", "inserted",
                            "pointed", "counted"}]
      /\ op \in [Threads -> {"find", "insert"}]
      /\ key \in [Threads -> Keys]
      /\ id \in [Threads -> Int]
      /\ made \in [Threads -> BOOLEAN]
  BY <1>1, KeysExist DEF Init
<1>5. given \in Seq(Int)
  BY <1>1, EmptySeq DEF Init
<1>6. Pointing
  BY <1>1, NotKeys DEF Init, Pointing
<1>7. QED
  BY <1>1, <1>2, <1>3, <1>4, <1>5, <1>6 DEF Init, TypeOK

(***************************************************************************)
(* A call that returns leaves its thread idle and the rest as it was.      *)
(***************************************************************************)
LEMMA ReturnTypes ==
  ASSUME TypeOK, NEW t \in Threads, Return(t)
  PROVE  /\ pc' \in [Threads -> {"idle", "called", "found", "missing", "inserted",
                         "pointed", "counted"}]
         /\ op' \in [Threads -> {"find", "insert"}]
         /\ key' \in [Threads -> Keys]
         /\ rv' \in [Threads -> Pointers]
         /\ id' \in [Threads -> Int]
         /\ made' \in [Threads -> BOOLEAN]
BY KeysExist DEF TypeOK, Return, Pointers

(***************************************************************************)
(* Every step keeps the types, and with them that a pointer that does not  *)
(* dangle points to a word.                                                *)
(***************************************************************************)
LEMMA StepTypes ==
  ASSUME TypeOK, Pointing, [Next]_vars
  PROVE  TypeOK' /\ Pointing'
<1>1. ASSUME NEW t \in Threads, NEW s \in Strings, CallFind(t, s)
      PROVE  TypeOK' /\ Pointing'
  BY <1>1, KeysExist DEF TypeOK, Pointing, CallFind, Call
<1>2. ASSUME NEW t \in Threads, NEW s \in Strings, NEW n \in LoadIds,
             CallInsert(t, s, n)
      PROVE  TypeOK' /\ Pointing'
  BY <1>2, KeysExist, MemoryAssumption DEF TypeOK, Pointing, CallInsert, Call
<1>3. ASSUME NEW t \in Threads, Get(t)
      PROVE  TypeOK' /\ Pointing'
  <2>1. PICK p \in {key[t], NULL} :
          /\ rv' = [rv EXCEPT ![t] = p]
          /\ p \in Keys => data[p] # Absent
    BY <1>3, NotKeys DEF Get
  <2>2. p \in Pointers
    BY DEF TypeOK, Pointers
  <2>3. rv' \in [Threads -> Pointers]
    BY <2>1, <2>2 DEF TypeOK
  <2>4. pc' \in [Threads -> {"idle", "called", "found", "missing", "inserted",
                            "pointed", "counted"}]
    BY <1>3 DEF TypeOK, Get
  <2>5. TypeOK'
    BY <1>3, <2>3, <2>4 DEF TypeOK, Get
  <2>6. Pointing'
    BY <1>3, <2>1 DEF TypeOK, Pointing, Get
  <2>7. QED BY <2>5, <2>6
<1>4. ASSUME NEW t \in Threads, Throw(t)
      PROVE  TypeOK' /\ Pointing'
  <2>1. TypeOK'
    BY <1>4, ReturnTypes DEF TypeOK, Throw
  <2>2. Pointing'
    BY <1>4, NotKeys DEF TypeOK, Pointing, Throw, Return
  <2>3. QED BY <2>1, <2>2
<1>5. ASSUME NEW t \in Threads, ReadId(t)
      PROVE  TypeOK' /\ Pointing'
  <2>1. PICK n \in IF rv[t] \in Keys THEN {data[rv[t]]} ELSE LoadIds :
               returned' = Returned(key[t], FALSE, n)
    BY <1>5 DEF ReadId
  <2>2. n \in Int
    BY <2>1, MemoryAssumption DEF TypeOK, Pointing
  <2>3. returned' \in [key : Keys, inserted : BOOLEAN, id : Int]
    BY <2>1, <2>2 DEF TypeOK, Returned
  <2>4. TypeOK'
    BY <1>5, <2>3, ReturnTypes DEF TypeOK, ReadId
  <2>5. Pointing'
    BY <1>5, NotKeys DEF TypeOK, Pointing, ReadId, Return
  <2>6. QED BY <2>4, <2>5
<1>6. ASSUME NEW t \in Threads, Ins(t)
      PROVE  TypeOK' /\ Pointing'
  <2>1. PICK moved \in SUBSET (IF data[key[t]] = Absent THEN Keys \ {key[t]} ELSE {}) :
          /\ rv' = [u \in Threads |-> IF u = t THEN key[t] ELSE Moved(rv[u], moved)]
          /\ value' = Moved(value, moved)
    BY <1>6 DEF Ins
  <2>2. /\ data' \in [Keys -> Int \cup {Absent}]
        /\ data'[key[t]] # Absent
        /\ \A k \in Keys : data[k] # Absent => data'[k] # Absent
    BY <1>6, MemoryAssumption DEF TypeOK, Ins
  <2>3. /\ value' \in Pointers
        /\ value' \in Keys => data'[value'] # Absent
    BY <2>1, <2>2, MovedPointer DEF TypeOK, Pointing
  <2>4. rv' \in [Threads -> Pointers]
    BY <2>1, MovedPointer DEF TypeOK, Pointers
  <2>5. \A u \in Threads : rv'[u] \in Keys => data'[rv'[u]] # Absent
    <3>1. SUFFICES ASSUME NEW u \in Threads, rv'[u] \in Keys
                   PROVE  data'[rv'[u]] # Absent
      OBVIOUS
    <3>2. CASE u = t
      BY <2>1, <2>2, <3>2
    <3>3. CASE u # t
      BY <2>1, <2>2, <3>1, <3>3, MovedPointer DEF TypeOK, Pointing
    <3>4. QED BY <3>2, <3>3
  <2>6. QED
    BY <1>6, <2>2, <2>3, <2>4, <2>5 DEF TypeOK, Pointing, Ins
<1>7. ASSUME NEW t \in Threads, Point(t)
      PROVE  TypeOK' /\ Pointing'
  BY <1>7 DEF TypeOK, Pointing, Point
<1>8. ASSUME NEW t \in Threads, Count(t)
      PROVE  TypeOK' /\ Pointing'
  BY <1>8 DEF TypeOK, Pointing, Count
<1>9. ASSUME NEW t \in Threads, Store(t)
      PROVE  TypeOK' /\ Pointing'
  <2>1. /\ data' \in [Keys -> Int \cup {Absent}]
        /\ \A k \in Keys : data[k] # Absent => data'[k] # Absent
    <3>1. PICK k \in Keys : \/ UNCHANGED data
                            \/ data' = [data EXCEPT ![k] = id[t]]
      BY <1>9, KeysExist DEF Store
    <3>2. id[t] \in Int
      BY DEF TypeOK
    <3>3. id[t] # Absent
      BY <3>2, MemoryAssumption
    <3>4. QED
      BY <3>1, <3>2, <3>3 DEF TypeOK
  <2>2. returned' \in [key : Keys, inserted : BOOLEAN, id : Int]
    BY <1>9 DEF TypeOK, Store, Returned
  <2>3. given' \in Seq(Int)
    BY <1>9, AppendProperties DEF TypeOK, Store
  <2>4. TypeOK'
    BY <1>9, <2>1, <2>2, <2>3, ReturnTypes DEF TypeOK, Store
  <2>5. Pointing'
    BY <1>9, <2>1, NotKeys DEF TypeOK, Pointing, Store, Return
  <2>6. QED BY <2>4, <2>5
<1>10. ASSUME NEW t \in Threads, Unload(t)
       PROVE  TypeOK' /\ Pointing'
  BY <1>10, MovedPointer DEF TypeOK, Pointing, Unload
<1>11. CASE UNCHANGED vars
  BY <1>11 DEF TypeOK, Pointing, vars
<1>12. QED
  BY <1>1, <1>2, <1>3, <1>4, <1>5, <1>6, <1>7, <1>8, <1>9, <1>10, <1>11 DEF Next

(***************************************************************************)
(* The variables keep their types whatever runs beside whatever.           *)
(***************************************************************************)
THEOREM TypeCorrect == Spec => []TypeOK
<1>1. Init => TypeOK /\ Pointing
  BY InitTypes
<1>2. TypeOK /\ Pointing /\ [Next]_vars => TypeOK' /\ Pointing'
  BY StepTypes
<1>3. QED
  BY <1>1, <1>2, PTL DEF Spec

-----------------------------------------------------------------------------
(***************************************************************************)
(* A step that neither counts nor stores what was counted, and that brings *)
(* no thread into find, leaves the numbering alone.                        *)
(***************************************************************************)
LEMMA NumberingKept ==
  ASSUME Numbering,
         UNCHANGED <<counter, given>>,
         \A u \in Threads : pc'[u] = "counted" <=> pc[u] = "counted",
         \A u \in Threads : pc[u] = "counted" => op'[u] = op[u] /\ id'[u] = id[u],
         \A u \in Threads : pc'[u] # "idle" /\ op'[u] = "find"
                              => pc[u] # "idle" /\ op[u] = "find"
  PROVE  Numbering'
<1>1. \A u, v \in Finders' : u = v
  BY DEF Numbering, Finders
<1>2. \A u \in Threads :
        pc'[u] = "counted" => op'[u] = "find" /\ id'[u] = FirstId + Len(given')
  BY DEF Numbering
<1>3. counter' = FirstId + Len(given')
                   + (IF \E u \in Threads : pc'[u] = "counted" THEN 1 ELSE 0)
  BY DEF Numbering
<1>4. QED
  BY <1>1, <1>2, <1>3 DEF Numbering

(***************************************************************************)
(* No id has been given at the start.                                      *)
(***************************************************************************)
LEMMA InitNumbering == Init => Numbering
BY MemoryAssumption DEF Init, Numbering, Finders

(***************************************************************************)
(* Only a thread that is in find has counted.                              *)
(***************************************************************************)
LEMMA StepNumbering ==
  ASSUME TypeOK, Numbering, [Next]_vars
  PROVE  Numbering'
<1>1. ASSUME NEW t \in Threads, NEW s \in Strings, CallFind(t, s)
      PROVE  Numbering'
  <2>1. \A u \in Threads : pc[u] # "counted" /\ pc'[u] # "counted"
    BY <1>1 DEF TypeOK, Numbering, CallFind, Call, Finders
  <2>2. \A u, v \in Finders' : u = v
    BY <1>1 DEF TypeOK, CallFind, Call, Finders
  <2>3. QED
    BY <1>1, <2>1, <2>2 DEF Numbering, CallFind, Call
<1>2. ASSUME NEW t \in Threads, NEW s \in Strings, NEW n \in LoadIds,
             CallInsert(t, s, n)
      PROVE  Numbering'
  BY <1>2, NumberingKept DEF TypeOK, CallInsert, Call
<1>3. ASSUME NEW t \in Threads, Get(t)
      PROVE  Numbering'
  BY <1>3, NumberingKept DEF TypeOK, Get
<1>4. ASSUME NEW t \in Threads, Throw(t)
      PROVE  Numbering'
  BY <1>4, NumberingKept DEF TypeOK, Throw, Return
<1>5. ASSUME NEW t \in Threads, ReadId(t)
      PROVE  Numbering'
  BY <1>5, NumberingKept DEF TypeOK, ReadId, Return
<1>6. ASSUME NEW t \in Threads, Ins(t)
      PROVE  Numbering'
  BY <1>6, NumberingKept DEF TypeOK, Ins
<1>7. ASSUME NEW t \in Threads, Point(t)
      PROVE  Numbering'
  BY <1>7, NumberingKept DEF TypeOK, Point
<1>8. ASSUME NEW t \in Threads, Count(t)
      PROVE  Numbering'
  <2>1. /\ pc[t] = "pointed" /\ op[t] = "find" /\ t \in Finders
        /\ pc' = [pc EXCEPT ![t] = "counted"]
        /\ id' = [id EXCEPT ![t] = counter]
        /\ counter' = counter + 1
        /\ UNCHANGED <<op, given>>
    BY <1>8 DEF Count, Finders
  <2>2. \A u \in Threads : pc[u] # "counted"
    BY <2>1 DEF Numbering, Finders
  <2>3. counter = FirstId + Len(given)
    BY <2>2, MemoryAssumption, LenProperties DEF Numbering, TypeOK
  <2>4. \A u \in Threads : pc'[u] = "counted" => u = t
    BY <2>1, <2>2 DEF TypeOK
  <2>5. \A u, v \in Finders' : u = v
    BY <2>1 DEF TypeOK, Numbering, Finders
  <2>6. pc'[t] = "counted" /\ id'[t] = counter /\ op'[t] = "find"
    BY <2>1 DEF TypeOK
  <2>7. QED
    BY <2>1, <2>3, <2>4, <2>5, <2>6 DEF Numbering
<1>9. ASSUME NEW t \in Threads, Store(t)
      PROVE  Numbering'
  <2>1. /\ pc' = [pc EXCEPT ![t] = "idle"]
        /\ op' = [op EXCEPT ![t] = "find"]
        /\ id' = [id EXCEPT ![t] = 0]
        /\ counter' = counter
        /\ given' = IF op[t] = "find" THEN Append(given, id[t]) ELSE given
    BY <1>9 DEF Store, Return
  <2>2. CASE op[t] = "find"
    <3>1. pc[t] = "counted" /\ t \in Finders
      BY <1>9, <2>2 DEF Store, Finders
    <3>2. id[t] = FirstId + Len(given) /\ counter = FirstId + Len(given) + 1
      BY <3>1 DEF Numbering
    <3>3. \A u \in Threads : pc'[u] # "counted"
      BY <2>1, <3>1 DEF TypeOK, Numbering, Finders
    <3>4. \A u, v \in Finders' : u = v
      BY <2>1 DEF TypeOK, Numbering, Finders
    <3>5. /\ Len(given') = Len(given) + 1
          /\ given'[Len(given) + 1] = id[t]
          /\ \A i \in 1..Len(given) : given'[i] = given[i]
      BY <2>1, <2>2, AppendProperties DEF TypeOK
    <3>6. Len(given) \in Nat /\ DOMAIN given = 1..Len(given)
      BY LenProperties DEF TypeOK
    <3>7. given' \in Seq(Int)
      BY <2>1, <2>2, AppendProperties DEF TypeOK
    <3>8. DOMAIN given' = 1..(Len(given) + 1)
      BY <3>5, <3>7, LenProperties
    <3>9. \A i \in DOMAIN given' : given'[i] = FirstId + i - 1
      BY <3>2, <3>5, <3>6, <3>8, MemoryAssumption DEF Numbering
    <3>10. counter' = FirstId + Len(given')
      BY <2>1, <3>2, <3>5, <3>6, MemoryAssumption
    <3>11. FirstId + Len(given') \in Int
      BY <3>5, <3>6, MemoryAssumption
    <3>12. QED
      BY <3>3, <3>4, <3>9, <3>10, <3>11 DEF Numbering
  <2>3. CASE op[t] # "find"
    <3>1. pc[t] # "counted"
      BY <2>3 DEF Numbering
    <3>2. QED
      BY <2>1, <2>3, <3>1, NumberingKept DEF TypeOK
  <2>4. QED BY <2>2, <2>3
<1>10. ASSUME NEW t \in Threads, Unload(t)
       PROVE  Numbering'
  BY <1>10, NumberingKept DEF Unload
<1>11. CASE UNCHANGED vars
  BY <1>11, NumberingKept DEF vars
<1>12. QED
  BY <1>1, <1>2, <1>3, <1>4, <1>5, <1>6, <1>7, <1>8, <1>9, <1>10, <1>11 DEF Next

(***************************************************************************)
(* No id is given to two new strings: find counts on from the last id it   *)
(* gave, whatever enable_s2i and disable_s2i do to the array beside it.    *)
(***************************************************************************)
THEOREM FreshIdsKept == Spec => []FreshIds
<1>1. Init => TypeOK /\ Pointing /\ Numbering
  BY InitTypes, InitNumbering
<1>2. TypeOK /\ Pointing /\ Numbering /\ [Next]_vars
        => TypeOK' /\ Pointing' /\ Numbering'
  BY StepTypes, StepNumbering
<1>3. ASSUME TypeOK, Numbering PROVE FreshIds
  <2>1. SUFFICES ASSUME NEW i \in DOMAIN given, NEW j \in DOMAIN given,
                        given[i] = given[j]
                 PROVE  i = j
    BY DEF FreshIds
  <2>2. i \in Int /\ j \in Int
    BY <1>3, LenProperties DEF TypeOK
  <2>3. FirstId + i - 1 = FirstId + j - 1
    BY <1>3, <2>1 DEF Numbering
  <2>4. QED
    BY <2>2, <2>3, MemoryAssumption
<1>4. QED
  BY <1>1, <1>2, <1>3, PTL DEF Spec

-----------------------------------------------------------------------------
(***************************************************************************)
(* A thread that is in no call stays in place.                             *)
(***************************************************************************)
LEMMA IdleInPlace ==
  ASSUME NEW u \in Threads, InPlace(u), pc[u] = "idle",
         pc'[u] = pc[u], op'[u] = op[u], id'[u] = id[u], made'[u] = made[u]
  PROVE  InPlace(u)'
BY DEF InPlace

(***************************************************************************)
(* While calls take turns, a step of the one thread at work leaves every   *)
(* thread in place if it leaves that thread there.                         *)
(***************************************************************************)
LEMMA OneAtWork ==
  ASSUME Turns, ~overlapped,
         NEW t \in Threads,
         \A u \in Threads \ {t} :
           /\ pc[u] = "idle"
           /\ pc'[u] = pc[u] /\ op'[u] = op[u] /\ id'[u] = id[u] /\ made'[u] = made[u],
         InPlace(t)'
  PROVE  Turns'
<1>1. \A u \in Threads \ {t} : InPlace(u)' /\ pc'[u] = "idle"
  BY IdleInPlace DEF Turns
<1>2. \A u \in Threads : InPlace(u)'
  BY <1>1
<1>3. \A u, v \in Working' : u = v
  BY <1>1 DEF Working
<1>4. QED
  BY <1>2, <1>3 DEF Turns

(***************************************************************************)
(* No call is under way at the start.                                      *)
(***************************************************************************)
LEMMA InitTurns == Init => Turns
BY DEF Init, Turns, Working, InPlace

(***************************************************************************)
(* Every step keeps Turns: as long as no call overlaps another, nobody     *)
(* moves the word a thread points to.                                      *)
(***************************************************************************)
LEMMA StepTurns ==
  ASSUME TypeOK, Turns, [Next]_vars
  PROVE  Turns'
<1>1. SUFFICES ASSUME ~overlapped' PROVE Turns'
  BY DEF Turns
<1>2. ~overlapped
  BY <1>1 DEF Next, CallFind, CallInsert, Call, Get, Throw, ReadId, Ins, Point, Count,
              Store, Unload, vars, TypeOK
<1>3. \A u \in Threads : InPlace(u)
  BY <1>2 DEF Turns
<1>4. \A t \in Threads : pc[t] # "idle" => \A u \in Threads \ {t} : pc[u] = "idle"
  BY <1>2 DEF Turns, Working
<1>5. ASSUME NEW t \in Threads, NEW s \in Strings,
             CallFind(t, s) \/ \E n \in LoadIds : CallInsert(t, s, n)
      PROVE  Turns'
  <2>1. Call(t, "find", s) \/ (Call(t, "insert", s) /\ id'[t] \in LoadIds)
    BY <1>5 DEF CallFind, CallInsert, TypeOK
  <2>2. \A u \in Threads \ {t} : pc[u] = "idle"
    BY <1>1, <2>1 DEF Call, Others
  <2>3. \A u \in Threads \ {t} :
          pc'[u] = pc[u] /\ op'[u] = op[u] /\ id'[u] = id[u] /\ made'[u] = made[u]
    BY <1>5 DEF CallFind, CallInsert, Call, TypeOK
  <2>4. InPlace(t)'
    BY <1>3, <2>1 DEF Call, InPlace, TypeOK
  <2>5. QED BY <1>2, <2>2, <2>3, <2>4, OneAtWork
<1>6. ASSUME NEW t \in Threads, Get(t)
      PROVE  Turns'
  <2>1. \A u \in Threads \ {t} :
          /\ pc[u] = "idle"
          /\ pc'[u] = pc[u] /\ op'[u] = op[u] /\ id'[u] = id[u] /\ made'[u] = made[u]
    BY <1>4, <1>6 DEF Get, TypeOK
  <2>2. InPlace(t)'
    BY <1>3, <1>6 DEF Get, InPlace, HasWord, TypeOK
  <2>3. QED BY <1>2, <2>1, <2>2, OneAtWork
<1>7. ASSUME NEW t \in Threads, Return(t), pc[t] # "idle"
      PROVE  Turns'
  <2>1. \A u \in Threads \ {t} :
          /\ pc[u] = "idle"
          /\ pc'[u] = pc[u] /\ op'[u] = op[u] /\ id'[u] = id[u] /\ made'[u] = made[u]
    BY <1>4, <1>7 DEF Return, TypeOK
  <2>2. InPlace(t)'
    BY <1>7 DEF Return, InPlace, TypeOK
  <2>3. QED BY <1>2, <2>1, <2>2, OneAtWork
<1>8. ASSUME NEW t \in Threads, Ins(t)
      PROVE  Turns'
  <2>1. \A u \in Threads \ {t} :
          /\ pc[u] = "idle"
          /\ pc'[u] = pc[u] /\ op'[u] = op[u] /\ id'[u] = id[u] /\ made'[u] = made[u]
    BY <1>4, <1>8 DEF Ins, TypeOK
  <2>2. data'[key[t]] # Absent /\ rv'[t] = key[t] /\ made'[t] /\ pc'[t] = "inserted"
    BY <1>8, MemoryAssumption DEF Ins, TypeOK
  <2>3. InPlace(t)'
    BY <1>3, <1>8, <2>2 DEF Ins, InPlace, HasWord
  <2>4. QED BY <1>2, <2>1, <2>3, OneAtWork
<1>9. ASSUME NEW t \in Threads, Point(t)
      PROVE  Turns'
  <2>1. \A u \in Threads \ {t} :
          /\ pc[u] = "idle"
          /\ pc'[u] = pc[u] /\ op'[u] = op[u] /\ id'[u] = id[u] /\ made'[u] = made[u]
    BY <1>4, <1>9 DEF Point, TypeOK
  <2>2. InPlace(t)'
    BY <1>3, <1>9 DEF Point, InPlace, HasWord, TypeOK
  <2>3. QED BY <1>2, <2>1, <2>2, OneAtWork
<1>10. ASSUME NEW t \in Threads, Count(t)
       PROVE  Turns'
  <2>1. \A u \in Threads \ {t} :
          /\ pc[u] = "idle"
          /\ pc'[u] = pc[u] /\ op'[u] = op[u] /\ id'[u] = id[u] /\ made'[u] = made[u]
    BY <1>4, <1>10 DEF Count, TypeOK
  <2>2. InPlace(t)'
    BY <1>3, <1>10 DEF Count, InPlace, HasWord, TypeOK
  <2>3. QED BY <1>2, <2>1, <2>2, OneAtWork
<1>11. ASSUME NEW t \in Threads, Unload(t)
       PROVE  Turns'
  <2>1. \A u \in Threads : pc[u] = "idle"
    BY <1>1, <1>11 DEF Unload, Others
  <2>2. UNCHANGED <<pc, op, id, made>>
    BY <1>11 DEF Unload
  <2>3. InPlace(t)'
    BY <1>3, <2>1, <2>2, IdleInPlace
  <2>4. QED BY <1>2, <2>1, <2>2, <2>3, OneAtWork
<1>12. CASE UNCHANGED vars
  BY <1>12 DEF vars, Turns, Working, InPlace, HasWord
<1>13. \A t \in Threads : Throw(t) \/ ReadId(t) \/ Store(t) => Return(t) /\ pc[t] # "idle"
  BY DEF Throw, ReadId, Store
<1>14. QED
  BY <1>5, <1>6, <1>7, <1>8, <1>9, <1>10, <1>11, <1>12, <1>13 DEF Next

(***************************************************************************)
(* The invariant that the other theorems rest on, of which Turns says that *)
(* while calls take turns, a pointer points where its thread believes.     *)
(***************************************************************************)
THEOREM IndInvKept == Spec => []IndInv
<1>1. Init => IndInv
  BY InitTypes, InitNumbering, InitTurns DEF IndInv
<1>2. IndInv /\ [Next]_vars => IndInv'
  BY StepTypes, StepNumbering, StepTurns DEF IndInv
<1>3. QED
  BY <1>1, <1>2, PTL DEF Spec

-----------------------------------------------------------------------------
(***************************************************************************)
(* What the map hides and what it counts while only t is at work, before a *)
(* step and after it.                                                      *)
(***************************************************************************)
LEMMA OneHides ==
  ASSUME Turns, Turns', ~overlapped, ~overlapped',
         NEW t \in Threads,
         \A u \in Threads \ {t} : pc[u] = "idle" /\ pc'[u] = "idle"
  PROVE  /\ Hidden = IF made[t] THEN {key[t]} ELSE {}
         /\ Hidden' = IF made'[t] THEN {key'[t]} ELSE {}
         /\ (\E u \in Threads : pc[u] = "counted") <=> (pc[t] = "counted")
         /\ (\E u \in Threads : pc'[u] = "counted") <=> (pc'[t] = "counted")
<1>1. \A u \in Threads \ {t} : ~made[u] /\ ~made'[u]
  BY DEF Turns, InPlace
<1>2. QED
  BY <1>1 DEF Hidden

(***************************************************************************)
(* The start is a start of the atomic map.                                 *)
(***************************************************************************)
LEMMA InitImplements == Init => Atomic!Init
<1>1. SUFFICES ASSUME Init PROVE Atomic!Init
  OBVIOUS
<1>2. Hidden = {} /\ ~\E t \in Threads : pc[t] = "counted"
  BY <1>1 DEF Init, Hidden
<1>3. QED
  BY <1>1, <1>2 DEF Init, Atomic!Init

(***************************************************************************)
(* Calls that have met still count: what the map has counted is what find  *)
(* gave, whoever else was in the array.                                    *)
(***************************************************************************)
LEMMA TornImplements ==
  ASSUME TypeOK, Numbering, Numbering', [Next]_vars, overlapped'
  PROVE  [Atomic!Next]_(Atomic!vars)
<1> DEFINE Counted == IF \E t \in Threads : pc[t] = "counted" THEN counter - 1
                      ELSE counter
<1>1. Len(given) \in Nat /\ given \in Seq(Int)
  BY LenProperties DEF TypeOK
<1>2. Counted = FirstId + Len(given)
  BY <1>1, MemoryAssumption DEF Numbering
<1>3. ASSUME UNCHANGED <<given, returned>>
      PROVE  Atomic!Torn
  <2>1. Counted' = FirstId + Len(given)
    BY <1>1, <1>3, MemoryAssumption DEF Numbering
  <2> QED BY <1>2, <1>3, <2>1 DEF Atomic!Torn
<1>4. ASSUME NEW t \in Threads, ReadId(t)
      PROVE  Atomic!Torn
  <2>1. UNCHANGED given
    BY <1>4 DEF ReadId
  <2>2. Counted' = FirstId + Len(given)
    BY <1>1, <2>1, MemoryAssumption DEF Numbering
  <2>3. PICK k \in Keys, n \in IF rv[t] \in Keys THEN {data[rv[t]]} ELSE LoadIds :
               k = key[t] /\ returned' = Returned(k, FALSE, n)
    BY <1>4 DEF ReadId, TypeOK
  <2>4. returned' = Atomic!Call(k, FALSE, returned'.id)
    BY <2>3 DEF Returned, Atomic!Call
  <2> QED BY <1>2, <2>2, <2>4 DEF Atomic!Torn
<1>5. ASSUME NEW t \in Threads, Store(t)
      PROVE  Atomic!Torn
  <2>1. PICK k \in Keys : k = key[t] /\ returned' = Returned(k, op[t] = "find", id[t])
    BY <1>5 DEF Store, TypeOK
  <2>2. CASE op[t] = "find"
    <3>1. pc[t] = "counted" /\ given' = Append(given, id[t])
      BY <1>5, <2>2 DEF Store
    <3>2. id[t] = FirstId + Len(given)
      BY <3>1 DEF Numbering
    <3>3. Len(given') = Len(given) + 1
      BY <1>1, <3>1, AppendProperties DEF TypeOK
    <3>4. Counted' = FirstId + Len(given) + 1
      <4>1. Counted' = FirstId + Len(given')
        <5>1. Len(given') \in Int /\ FirstId \in Int
          BY <1>1, <3>3, MemoryAssumption
        <5> QED BY <5>1 DEF Numbering
      <4> QED BY <1>1, <3>3, <4>1, MemoryAssumption
    <3>5. returned' = Atomic!Call(k, TRUE, Counted) /\ Counted' = Counted + 1
      BY <1>1, <1>2, <2>1, <2>2, <3>2, <3>4, MemoryAssumption
         DEF Returned, Atomic!Call
    <3> QED BY <3>5 DEF Atomic!Torn
  <2>3. CASE op[t] # "find"
    <3>1. UNCHANGED given
      BY <1>5, <2>3 DEF Store
    <3>2. Counted' = FirstId + Len(given)
      BY <1>1, <3>1, MemoryAssumption DEF Numbering
    <3>3. returned' = Atomic!Call(k, FALSE, returned'.id)
      BY <2>1, <2>3 DEF Returned, Atomic!Call
    <3> QED BY <1>2, <3>2, <3>3 DEF Atomic!Torn
  <2> QED BY <2>2, <2>3
<1>6. ASSUME NEW t \in Threads,
             \/ \E s \in Strings : CallFind(t, s) \/ \E n \in LoadIds : CallInsert(t, s, n)
             \/ Get(t) \/ Throw(t) \/ Ins(t) \/ Point(t) \/ Count(t) \/ Unload(t)
      PROVE  UNCHANGED <<given, returned>>
  BY <1>6 DEF CallFind, CallInsert, Call, Get, Throw, Ins, Point, Count, Unload
<1>7. QED
  BY <1>3, <1>4, <1>5, <1>6 DEF Next, vars, Atomic!Next

(***************************************************************************)
(* A known id is read when *rv is; a new one is in the map, and counted,   *)
(* when it is stored and not when its word is made or the counter moves.   *)
(***************************************************************************)
LEMMA StepImplements ==
  ASSUME TypeOK, Numbering, Numbering', Turns, Turns', [Next]_vars
  PROVE  [Atomic!Next]_(Atomic!vars)
<1> DEFINE Map == [k \in Keys |-> IF k \in Hidden THEN Absent ELSE data[k]]
           Counted == IF \E t \in Threads : pc[t] = "counted" THEN counter - 1
                      ELSE counter
<1>1. SUFFICES ASSUME ~overlapped' PROVE [Atomic!Next]_(Atomic!vars)
  BY TornImplements
<1>2. ~overlapped
  BY <1>1 DEF Next, CallFind, CallInsert, Call, Get, Throw, ReadId, Ins, Point, Count,
              Store, Unload, vars, TypeOK
<1>3. \A u \in Threads : InPlace(u) /\ InPlace(u)'
  BY <1>1, <1>2 DEF Turns
<1>4. \A t \in Threads : pc[t] # "idle" => \A u \in Threads \ {t} : pc[u] = "idle"
  BY <1>2 DEF Turns, Working
<1>5. UNCHANGED overlapped
  BY <1>1, <1>2 DEF TypeOK, Next, CallFind, CallInsert, Call, Get, Throw, ReadId, Ins,
                    Point, Count, Store, Unload, vars
<1>6. ASSUME UNCHANGED <<Map, Counted, returned>>
      PROVE  UNCHANGED Atomic!vars
  BY <1>5, <1>6 DEF Atomic!vars
<1>7. ASSUME NEW t \in Threads, NEW s \in Strings,
             CallFind(t, s) \/ \E n \in LoadIds : CallInsert(t, s, n)
      PROVE  UNCHANGED Atomic!vars
  <2>1. /\ pc[t] = "idle" /\ pc' = [pc EXCEPT ![t] = "called"]
        /\ UNCHANGED <<data, counter, returned, made>>
        /\ \A u \in Threads \ {t} : pc[u] = "idle"
    BY <1>1, <1>7 DEF CallFind, CallInsert, Call, Others
  <2>2. ~made[t]
    BY <1>3, <2>1 DEF InPlace
  <2>3. /\ Hidden' = Hidden
        /\ ~\E u \in Threads : pc[u] = "counted"
        /\ ~\E u \in Threads : pc'[u] = "counted"
    BY <1>1, <1>2, <2>1, <2>2, OneHides DEF TypeOK
  <2>4. Map' = Map
    BY <2>1, <2>3
  <2>5. Counted' = Counted
    BY <2>1, <2>3
  <2>6. QED BY <1>6, <2>1, <2>4, <2>5
<1>8. ASSUME NEW t \in Threads,
             \/ Get(t) \/ Point(t)
             \/ Throw(t)
      PROVE  UNCHANGED Atomic!vars
  <2>1. /\ pc[t] # "idle"
        /\ pc[t] # "counted" /\ pc'[t] # "counted"
        /\ \A u \in Threads \ {t} : pc'[u] = pc[u]
        /\ UNCHANGED <<data, counter, returned>>
    BY <1>8 DEF Get, Point, Throw, Return, TypeOK
  <2>2. (made'[t] <=> made[t]) /\ (made[t] => key'[t] = key[t])
    <3>1. CASE Get(t) \/ Point(t)
      BY <3>1 DEF Get, Point
    <3>2. CASE Throw(t)
      <4>1. ~made[t]
        BY <1>3, <3>2 DEF Throw, InPlace
      <4>2. ~made'[t]
        BY <3>2 DEF Throw, Return, TypeOK
      <4>3. QED BY <4>1, <4>2 DEF TypeOK, Throw, Return
    <3>3. QED BY <1>8, <3>1, <3>2
  <2>3. /\ Hidden' = Hidden
        /\ ~\E u \in Threads : pc[u] = "counted"
        /\ ~\E u \in Threads : pc'[u] = "counted"
    BY <1>1, <1>2, <1>4, <2>1, <2>2, OneHides
  <2>4. Map' = Map
    BY <2>1, <2>3
  <2>5. Counted' = Counted
    BY <2>1, <2>3
  <2>6. QED BY <1>6, <2>1, <2>4, <2>5
<1>9. ASSUME NEW t \in Threads, ReadId(t)
      PROVE  Atomic!Next
  <2>1. /\ pc[t] = "found" /\ pc'[t] = "idle"
        /\ \A u \in Threads \ {t} : pc[u] = "idle" /\ pc'[u] = pc[u]
        /\ ~made'[t] /\ key[t] \in Keys
        /\ UNCHANGED <<data, counter>>
    BY <1>4, <1>9 DEF ReadId, Return, TypeOK
  <2>2. ~made[t] /\ rv[t] = key[t] /\ data[key[t]] # Absent
    BY <1>3, <2>1 DEF InPlace, HasWord
  <2>3. returned' = Returned(key[t], FALSE, data[key[t]])
    BY <1>9, <2>1, <2>2 DEF ReadId
  <2>4. /\ Hidden = {} /\ Hidden' = {}
        /\ ~\E u \in Threads : pc[u] = "counted"
        /\ ~\E u \in Threads : pc'[u] = "counted"
    BY <1>1, <1>2, <2>1, <2>2, OneHides
  <2>5. Map' = Map /\ Map[key[t]] = data[key[t]]
    BY <2>1, <2>4
  <2>6. Counted' = Counted
    BY <2>1, <2>4
  <2>7. PICK k \in Keys : k = key[t]
    BY <2>1
  <2>8. Atomic!FindKnown(k)
    BY <2>2, <2>3, <2>5, <2>6, <2>7 DEF Atomic!FindKnown, Atomic!Call, Returned
  <2>9. QED BY <1>2, <1>5, <2>8 DEF Atomic!Next
<1>10. ASSUME NEW t \in Threads, Ins(t)
       PROVE  UNCHANGED Atomic!vars
  <2>1. /\ pc[t] = "missing" /\ pc'[t] = "inserted"
        /\ \A u \in Threads \ {t} : pc[u] = "idle" /\ pc'[u] = pc[u]
        /\ made'[t] /\ key'[t] = key[t] /\ key[t] \in Keys
        /\ UNCHANGED <<counter, returned>>
    BY <1>4, <1>10 DEF Ins, TypeOK
  <2>2. ~made[t] /\ data[key[t]] = Absent
    BY <1>3, <2>1 DEF InPlace, HasWord
  <2>3. data' = [data EXCEPT ![key[t]] = 0]
    BY <1>10, <2>2 DEF Ins
  <2>4. /\ Hidden = {} /\ Hidden' = {key[t]}
        /\ ~\E u \in Threads : pc[u] = "counted"
        /\ ~\E u \in Threads : pc'[u] = "counted"
    BY <1>1, <1>2, <2>1, <2>2, OneHides
  <2>5. Map' = Map
    BY <2>2, <2>3, <2>4 DEF TypeOK
  <2>6. Counted' = Counted
    BY <2>1, <2>4
  <2>7. QED BY <1>6, <2>1, <2>5, <2>6
<1>11. ASSUME NEW t \in Threads, Count(t)
       PROVE  UNCHANGED Atomic!vars
  <2>1. /\ pc[t] = "pointed" /\ pc'[t] = "counted"
        /\ \A u \in Threads \ {t} : pc[u] = "idle" /\ pc'[u] = pc[u]
        /\ counter' = counter + 1
        /\ UNCHANGED <<data, returned, made, key>>
    BY <1>4, <1>11 DEF Count, TypeOK
  <2>2. /\ Hidden' = Hidden
        /\ ~\E u \in Threads : pc[u] = "counted"
        /\ \E u \in Threads : pc'[u] = "counted"
    BY <1>1, <1>2, <2>1, OneHides
  <2>3. Map' = Map
    BY <2>1, <2>2
  <2>4. Counted = counter /\ Counted' = counter' - 1
    BY <2>2
  <2>5. Counted' = Counted
    BY <2>1, <2>4 DEF TypeOK
  <2>6. QED BY <1>6, <2>1, <2>3, <2>5
<1>12. ASSUME NEW t \in Threads, Store(t)
       PROVE  Atomic!Next
  <2>1. /\ pc[t] # "idle" /\ pc'[t] = "idle"
        /\ \A u \in Threads \ {t} : pc[u] = "idle" /\ pc'[u] = pc[u]
        /\ ~made'[t] /\ key[t] \in Keys
        /\ UNCHANGED counter
    BY <1>4, <1>12 DEF Store, Return, TypeOK
  <2>2. value = key[t]
    BY <1>3, <1>12 DEF Store, InPlace
  <2>3. /\ data' = [data EXCEPT ![key[t]] = id[t]]
        /\ returned' = Returned(key[t], op[t] = "find", id[t])
    BY <1>12, <2>1, <2>2 DEF Store
  <2>4. /\ Hidden = IF made[t] THEN {key[t]} ELSE {}
        /\ Hidden' = {}
        /\ (\E u \in Threads : pc[u] = "counted") <=> (pc[t] = "counted")
        /\ ~\E u \in Threads : pc'[u] = "counted"
    BY <1>1, <1>2, <2>1, OneHides
  <2>5. Map' = [Map EXCEPT ![key[t]] = id[t]]
    BY <2>1, <2>3, <2>4 DEF TypeOK
  <2>6. PICK k \in Keys : k = key[t]
    BY <2>1
  <2>7. CASE op[t] = "find"
    <3>1. pc[t] = "counted" /\ made[t]
      BY <1>3, <1>12, <2>7 DEF Store, InPlace
    <3>2. Map[key[t]] = Absent
      BY <2>1, <2>4, <3>1
    <3>3. Counted = counter - 1 /\ Counted' = counter
      BY <2>1, <2>4, <3>1
    <3>4. Len(given) \in Nat
      BY LenProperties DEF TypeOK
    <3>5. counter = FirstId + Len(given) + 1 /\ id[t] = FirstId + Len(given)
      BY <3>1 DEF Numbering
    <3>6. Counted = id[t] /\ Counted' = Counted + 1
      BY <3>3, <3>4, <3>5, MemoryAssumption
    <3>7. returned' = Returned(key[t], TRUE, id[t])
      BY <2>3, <2>7
    <3>8. Atomic!FindNew(k)
      BY <2>6, <2>5, <3>2, <3>6, <3>7 DEF Atomic!FindNew, Atomic!Call, Returned
    <3>9. QED BY <1>2, <1>5, <3>8 DEF Atomic!Next
  <2>8. CASE op[t] = "insert"
    <3>1. pc[t] # "counted" /\ id[t] \in LoadIds
      BY <1>3, <2>8 DEF Numbering, InPlace
    <3>2. Counted' = Counted
      BY <2>1, <2>4, <3>1
    <3>3. returned' = Returned(key[t], FALSE, id[t])
      BY <2>3, <2>8
    <3>4. Atomic!Insert(k)
      BY <2>6, <2>5, <3>1, <3>2, <3>3 DEF Atomic!Insert, Atomic!Call, Returned
    <3>5. QED BY <1>2, <1>5, <3>4 DEF Atomic!Next
  <2>9. QED BY <2>7, <2>8 DEF TypeOK
<1>13. ASSUME NEW t \in Threads, Unload(t)
       PROVE  Atomic!Next
  <2>1. /\ \A u \in Threads : pc[u] = "idle"
        /\ data' = [k \in Keys |-> Absent]
        /\ UNCHANGED <<counter, pc, key, returned, made>>
    BY <1>1, <1>13 DEF Unload, Others
  <2>2. Map' = [k \in Keys |-> Absent]
    BY <2>1
  <2>3. Counted' = Counted
    BY <2>1
  <2>4. Atomic!Unload
    BY <2>1, <2>2, <2>3 DEF Atomic!Unload
  <2>5. QED BY <1>2, <1>5, <2>4 DEF Atomic!Next
<1>14. CASE UNCHANGED vars
  <2>1. Map' = Map /\ Counted' = Counted
    BY <1>14 DEF vars, Hidden
  <2>2. QED BY <1>6, <1>14, <2>1 DEF vars
<1>15. QED
  BY <1>7, <1>8, <1>9, <1>10, <1>11, <1>12, <1>13, <1>14 DEF Next

(***************************************************************************)
(* find, insert and unload implement an atomic map as long as calls take   *)
(* turns, whichever of Judy's calls fail, and when they have not, find     *)
(* still gives ids in the order of the counter.                            *)
(***************************************************************************)
THEOREM IndexImplemented == Spec => ImplementsIndex
<1>1. Init => IndInv /\ Atomic!Init
  BY InitTypes, InitNumbering, InitTurns, InitImplements DEF IndInv
<1>2. IndInv /\ [Next]_vars => IndInv' /\ [Atomic!Next]_(Atomic!vars)
  BY StepTypes, StepNumbering, StepTurns, StepImplements DEF IndInv
<1>3. QED
  BY <1>1, <1>2, PTL DEF Spec, ImplementsIndex, Atomic!Spec
=============================================================================
