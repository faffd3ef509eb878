---------------------------- MODULE SerialProofs ----------------------------
(***************************************************************************)
(* Theorems about Numerator where clients make administrative calls alone: *)
(* the index that STR2ID consults is then as complete as it must be, for   *)
(* any number of workers, strings and ids, and after every fault but a     *)
(* truncated load, -S and power losses included.                           *)
(***************************************************************************)
EXTENDS NumeratorProofs

(***************************************************************************)
(* What the theorems need: callers that behave, loads that are whole, and  *)
(* a database that numbered no string twice before.                        *)
(***************************************************************************)
Once(b) ==
  \A m, n \in NumID :
    b[m] # None /\ b[n] # None /\ CStr[b[m]] = CStr[b[n]] => m = n

CallsAlone ==
  /\ Serial
  /\ "tail" \notin Faults
  /\ \A d \in InitDisks : Once(d)

-----------------------------------------------------------------------------
(***************************************************************************)
(* The invariant.                                                          *)
(***************************************************************************)

(***************************************************************************)
(* The index has every record of b under its id.                           *)
(***************************************************************************)
Indexes(b) == \A n \in NumID : b[n] # None => mem[CStr[b[n]]] = n

(***************************************************************************)
(* Who makes an administrative call is the only one who calls.             *)
(***************************************************************************)
Alone ==
  \A t, u \in Workers : pc[t] \in AdminLabels /\ t # u => pc[u] = "idle"

(***************************************************************************)
(* The flag stays clear while new ids are made, and set while a worker     *)
(* loads.                                                                  *)
(***************************************************************************)
FlagKept ==
  \A t \in Workers : /\ pc[t] = "finding" => ~disabled
                     /\ pc[t] \in {"opening", "loading"} => disabled

(***************************************************************************)
(* The batch of a query that makes ids is in the index before it is in the *)
(* database.                                                               *)
(***************************************************************************)
BatchIndexed ==
  \A t \in Workers : /\ pc[t] = "finding" => Indexes(kv[t])
                     /\ pc[t] # "finding" => kv[t] = NoRecords

(***************************************************************************)
(* A loading thread still has a record before it, or has put it into the   *)
(* index.                                                                  *)
(***************************************************************************)
Loaded(t) ==
  \A n \in NumID :
    disk[n] # None => \/ it[t][n] = disk[n]
                      \/ it[t][n] = None /\ mem[CStr[disk[n]]] = n

ShowsRecords(t) == \A n \in NumID : it[t][n] # None => it[t][n] = disk[n]

LoadInv == \A t \in Threads : pc[t] = "loading" => Loaded(t) /\ ShowsRecords(t)

AloneInv ==
  /\ Once(disk) /\ Once(stable)
  /\ Alone /\ FlagKept /\ BatchIndexed /\ LoadInv /\ MemoryComplete

-----------------------------------------------------------------------------
(***************************************************************************)
(* The memory storage is used by one thread at a time.                     *)
(***************************************************************************)

(***************************************************************************)
(* Queries are in it under the mutex, and who makes an administrative call *)
(* is alone.                                                               *)
(***************************************************************************)
LEMMA AloneTakesTurns ==
  ASSUME TypeOK, LockInv, Alone,
         NEW t \in Threads, NEW u \in Threads, pc[t] \in InMemory, pc[u] \in InMemory
  PROVE  t = u
<1>1. CASE t = Main \/ u = Main
  BY <1>1, ThreadAssumption DEF TypeOK, LockInv, Serving, InMemory, MainLabels, Threads
<1>2. CASE t \in Workers /\ u \in Workers
  BY <1>2, ThreadAssumption DEF LockInv, Alone, InMemory, AdminLabels
<1> QED
  BY <1>1, <1>2 DEF Threads

(***************************************************************************)
(* Only two threads that meet tear the index.                              *)
(***************************************************************************)
LEMMA OnlyMeetingTears ==
  ASSUME [Next]_vars
  PROVE  Tear \/ (torn' => torn)
BY DEF Next, WorkerStep, QueryStep, Lock, Lookup, LookupThrow, Refuse,
   PassThrough, Admit, FindKnown, FindNew, FindTorn, FindThrow, Write, WriteThrow,
   Reply, Exit, Crash, AdminStep, Unload, SetDisabled, Load, OpenIterator, LoadRecord,
   LoadDone, LoadThrow, LoadTruncated, ClientCall, CallQuery, CallDisable,
   CallEnable, MainStep, ServeWithoutLoad, Operator, Start, Shutdown, Kill,
   Sync, PowerLoss, Halt, vars, service

(***************************************************************************)
(* Administrative calls that begin alone stay alone.                       *)
(***************************************************************************)
LEMMA StaysAlone ==
  ASSUME Serial, TypeOK, LockInv, Alone, [Next]_vars
  PROVE  Alone'
<1> USE ThreadAssumption DEF Goto, Leave
<1>1. /\ pc \in [Threads -> MainLabels \cup WorkerLabels]
      /\ \A u \in Workers : u \in Threads /\ u # Main
  BY DEF TypeOK, Threads
<1>2. CASE Halt
  BY <1>1, <1>2 DEF Halt, Alone, AdminLabels
<1>3. ASSUME NEW t \in Workers, Load(t) PROVE Halt \/ Alone'
  BY <1>1, <1>3 DEF Load, OpenIterator, LoadRecord, LoadDone, LoadThrow,
     LoadTruncated, Alone, AdminLabels
<1>4. ASSUME NEW t \in Workers, QueryStep(t) PROVE Halt \/ Alone'
  <2>1. CASE Exit(t)
    BY <2>1 DEF Exit
  <2>2. CASE FindKnown(t) \/ FindNew(t) \/ FindTorn(t)
    BY <2>2 DEF FindKnown, FindNew, FindTorn, Alone
  <2>3. CASE ~Exit(t) /\ ~FindKnown(t) /\ ~FindNew(t) /\ ~FindTorn(t)
    <3>1. PICK l \in {"locked", "replying", "exiting", "finding", "idle"} :
            pc' = [pc EXCEPT ![t] = l]
      BY <1>4, <2>3 DEF QueryStep, Lock, Lookup, LookupThrow, Refuse, PassThrough,
         Admit, FindThrow, Write, WriteThrow, Reply
    <3>2. pc[t] \notin AdminLabels \cup {"idle"}
      BY <1>4 DEF QueryStep, Lock, Lookup, LookupThrow, Refuse, PassThrough, Admit,
         FindKnown, FindNew, FindTorn, FindThrow, Write, WriteThrow, Reply, Exit,
         AdminLabels
    <3> QED
      BY <1>1, <3>1, <3>2 DEF Alone, AdminLabels
  <2> QED
    BY <2>1, <2>2, <2>3
<1>5. ASSUME NEW t \in Workers, ClientCall(t) PROVE Alone'
  BY <1>1, <1>5 DEF ClientCall, CallQuery, CallDisable, CallEnable, Quiet, Alone,
     AdminLabels
<1>6. ASSUME NEW t \in Workers, Unload(t) \/ SetDisabled(t) PROVE Alone'
  BY <1>1, <1>6 DEF Unload, SetDisabled, Alone, AdminLabels
<1>7. CASE MainStep \/ (\E s \in DisableAtStart : Start(s)) \/ Sync \/ Tear
             \/ UNCHANGED vars
  <2>1. Halt \/ \A t \in Workers : pc'[t] = pc[t]
    BY <1>1, <1>7 DEF MainStep, ServeWithoutLoad, Load, OpenIterator, LoadRecord,
       LoadDone, LoadThrow, LoadTruncated, Start, Sync, Tear, vars, Threads
  <2> QED
    BY <1>2, <2>1 DEF Alone
<1>8. CASE Shutdown \/ Kill \/ PowerLoss \/ Crash
  BY <1>2, <1>8 DEF Shutdown, Kill, PowerLoss, Crash
<1> QED
  BY <1>2, <1>3, <1>4, <1>5, <1>6, <1>7, <1>8
     DEF Next, WorkerStep, AdminStep, Operator

(***************************************************************************)
(* Where administrative calls are made alone the memory storage is used by *)
(* one thread at a time, and its index is never torn.  That is what module *)
(* MemoryStorage asks of its callers to be the map that Numerator takes it *)
(* for; the mutex alone, which only queries take, does not give it.        *)
(***************************************************************************)
THEOREM TurnsTaken == Spec => []TakesTurns
<1>1. CASE ~Serial
  <2>1. TakesTurns
    BY <1>1 DEF TakesTurns
  <2> QED
    BY <2>1, PTL
<1>2. CASE Serial
  <2>1. Init => Alone /\ ~torn
    BY ThreadAssumption DEF Init, Alone, AdminLabels, Threads
  <2>2. TypeOK /\ LockInv /\ Alone /\ ~torn /\ [Next]_vars => Alone' /\ ~torn'
    <3> SUFFICES ASSUME TypeOK, LockInv, Alone, ~torn, [Next]_vars
                 PROVE  Alone' /\ ~torn'
      OBVIOUS
    <3>1. ~Tear
      BY AloneTakesTurns DEF Tear, Calling, InMemory
    <3> QED
      BY <1>2, <3>1, OnlyMeetingTears, StaysAlone
  <2>3. TypeOK /\ LockInv /\ Alone /\ ~torn => TakesTurns
    BY AloneTakesTurns DEF TakesTurns
  <2> QED
    BY <2>1, <2>2, <2>3, TypeCorrect, MutexHeldInside, PTL DEF Spec
<1> QED
  BY <1>1, <1>2

-----------------------------------------------------------------------------
(***************************************************************************)
(* The end of the process leaves nothing to keep but the database.         *)
(***************************************************************************)
LEMMA HaltAlone ==
  ASSUME TypeOK, Halt, Once(disk)', Once(stable)'
  PROVE  AloneInv'
<1>1. /\ \A t \in Workers : pc'[t] = "idle" /\ kv'[t] = NoRecords
      /\ pc'[Main] = "down"
  BY ThreadAssumption DEF Halt, Threads
<1>2. Alone' /\ FlagKept' /\ BatchIndexed' /\ MemoryComplete'
  BY <1>1 DEF Alone, FlagKept, BatchIndexed, MemoryComplete, Serving, AdminLabels
<1>3. LoadInv'
  BY <1>1 DEF LoadInv, Threads
<1> QED
  BY <1>2, <1>3 DEF AloneInv

(***************************************************************************)
(* A thread loads alone: while main does there are no calls, and while a   *)
(* worker does the others are idle.                                        *)
(***************************************************************************)
LEMMA LoaderAlone ==
  ASSUME TypeOK, LockInv, Alone, NEW t \in Threads, pc[t] \in {"opening", "loading"}
  PROVE  /\ \A u \in Workers : u # t => pc[u] = "idle"
         /\ \A u \in Threads : u # t => pc[u] \notin {"opening", "loading"}
         /\ t # Main => t \in Workers /\ Serving
<1>1. t \in Workers \cup {Main} /\ \A u \in Workers : u # Main
  BY ThreadAssumption DEF Threads
<1>2. CASE t = Main
  BY <1>1, <1>2 DEF LockInv, Serving, Threads
<1>3. CASE t # Main
  <2>1. Serving /\ t \in Workers
    BY <1>1, <1>3 DEF LockInv
  <2> QED
    BY <1>1, <1>3, <2>1 DEF Alone, AdminLabels, Serving, Threads
<1> QED
  BY <1>2, <1>3

(***************************************************************************)
(* A load takes every record from the iterator into the index, so that at  *)
(* its end the index is complete; one that fails leaves the flag set.      *)
(***************************************************************************)
LEMMA LoadAlone ==
  ASSUME CallsAlone, TypeOK, LockInv, AloneInv, ~torn, NEW t \in Threads, Load(t)
  PROVE  AloneInv'
<1> USE DEF Goto, storage, service, call, loader
<1>1. /\ pc \in [Threads -> MainLabels \cup WorkerLabels]
      /\ it \in [Threads -> Records] /\ disk \in Records
      /\ mem \in [Strings -> NumID \cup {None}]
      /\ \A u \in Workers : u \in Threads /\ u # Main
      /\ Main \in Threads
  BY ThreadAssumption DEF TypeOK, Threads
<1>2. pc[t] \in {"opening", "loading"}
  BY DEF Load, OpenIterator, LoadRecord, LoadDone, LoadThrow, LoadTruncated
<1>3. /\ \A u \in Workers : u # t => pc[u] = "idle"
      /\ \A u \in Threads : u # t => pc[u] \notin {"opening", "loading"}
      /\ t # Main => t \in Workers /\ Serving
  BY <1>2, LoaderAlone DEF AloneInv
<1>4. Once(disk) /\ Once(stable)
  BY DEF AloneInv
<1>5. \A u \in Workers : kv[u] = NoRecords
  BY <1>2, <1>3 DEF AloneInv, BatchIndexed
<1>6. CASE OpenIterator(t)
  <2>1. /\ it'[t] = disk /\ pc'[t] = "loading"
        /\ \A u \in Threads : u # t => pc'[u] = pc[u]
        /\ UNCHANGED <<disk, stable, mem, disabled, kv>>
    BY <1>1, <1>6 DEF OpenIterator
  <2>2. Once(disk)' /\ Once(stable)'
    BY <1>4, <2>1 DEF Once
  <2>3. Alone' /\ BatchIndexed'
    BY <1>1, <1>3, <1>5, <2>1 DEF Alone, BatchIndexed, AdminLabels
  <2>4. FlagKept'
    BY <1>1, <1>2, <1>3, <2>1, <1>6 DEF FlagKept, AloneInv, OpenIterator
  <2>5. LoadInv'
    BY <1>3, <2>1 DEF LoadInv, Loaded, ShowsRecords
  <2>6. MemoryComplete'
    BY <1>1, <1>3, <2>1 DEF MemoryComplete, Serving, AdminLabels
  <2> QED
    BY <2>2, <2>3, <2>4, <2>5, <2>6 DEF AloneInv
<1>7. CASE LoadRecord(t)
  <2>1. PICK n \in NumID :
          /\ it[t][n] # None
          /\ mem' = Indexed(it[t][n], n)
          /\ it' = [it EXCEPT ![t][n] = None]
    BY <1>7 DEF LoadRecord, IsNext, Remaining
  <2>2. UNCHANGED <<disk, stable, pc, disabled, kv>> /\ pc[t] = "loading"
    BY <1>7 DEF LoadRecord
  <2>3. Loaded(t) /\ ShowsRecords(t)
    BY <2>2 DEF AloneInv, LoadInv
  <2>4. it[t][n] = disk[n] /\ disk[n] \in Strings /\ CStr[disk[n]] \in Strings
    BY <1>1, <2>1, <2>3, StringAssumption DEF ShowsRecords, Records
  <2>5. /\ mem'[CStr[disk[n]]] = n
        /\ \A s \in Strings : s # CStr[disk[n]] => mem'[s] = mem[s]
    BY <1>1, <2>1, <2>4 DEF Indexed
  <2>6. it'[t] = [it[t] EXCEPT ![n] = None] /\ it[t] \in Records
    BY <1>1, <2>1
  <2>7. it'[t][n] = None /\ \A m \in NumID : m # n => it'[t][m] = it[t][m]
    BY <2>6 DEF Records
  <2>8. Loaded(t)' /\ ShowsRecords(t)'
    <3>1. ASSUME NEW m \in NumID, disk[m] # None
          PROVE  it'[t][m] = disk[m] \/ (it'[t][m] = None /\ mem'[CStr[disk[m]]] = m)
      <4>1. CASE m = n
        BY <2>5, <2>7, <4>1
      <4>2. CASE m # n
        <5>1. CStr[disk[m]] # CStr[disk[n]]
          BY <1>4, <2>1, <2>4, <3>1, <4>2 DEF Once
        <5>2. CStr[disk[m]] \in Strings
          BY <1>1, <3>1, StringAssumption DEF Records
        <5> QED
          BY <2>3, <2>5, <2>7, <3>1, <4>2, <5>1, <5>2 DEF Loaded
      <4> QED
        BY <4>1, <4>2
    <3>2. Loaded(t)'
      BY <2>2, <3>1 DEF Loaded
    <3>3. ShowsRecords(t)'
      BY <2>2, <2>3, <2>7 DEF ShowsRecords
    <3> QED
      BY <3>2, <3>3
  <2>9. Once(disk)' /\ Once(stable)'
    BY <1>4, <2>2 DEF Once
  <2>10. Alone' /\ FlagKept' /\ BatchIndexed'
    <3>1. Alone' /\ FlagKept'
      BY <2>2 DEF AloneInv, Alone, FlagKept
    <3>2. \A u \in Workers : pc'[u] # "finding" /\ kv'[u] = NoRecords
      BY <1>3, <1>5, <2>2
    <3> QED
      BY <3>1, <3>2 DEF BatchIndexed
  <2>11. LoadInv'
    BY <1>3, <2>2, <2>8 DEF LoadInv
  <2>12. MemoryComplete'
    BY <1>1, <1>3, <2>2 DEF MemoryComplete, Serving, AdminLabels
  <2> QED
    BY <2>9, <2>10, <2>11, <2>12 DEF AloneInv
<1>8. CASE LoadDone(t)
  <2>1. /\ UNCHANGED <<disk, stable, mem, kv, it>> /\ pc[t] = "loading"
        /\ \A n \in NumID : it[t][n] = None
        /\ \A u \in Threads : u # t => pc'[u] = pc[u]
        /\ t = Main => pc'[t] = "serving"
        /\ t # Main => pc'[t] = "replying"
    BY <1>1, <1>8 DEF LoadDone, Remaining
  <2>2. Indexes(disk)
    BY <2>1 DEF AloneInv, LoadInv, Loaded, Indexes
  <2>3. MemoryComplete'
    BY <2>1, <2>2 DEF MemoryComplete, Indexes
  <2>4. Once(disk)' /\ Once(stable)'
    BY <1>4, <2>1 DEF Once
  <2>5. \A u \in Workers : pc'[u] \in {"idle", "replying"} /\ kv'[u] = NoRecords
    BY <1>1, <1>3, <1>5, <2>1
  <2>6. Alone' /\ FlagKept' /\ BatchIndexed'
    BY <2>5 DEF Alone, FlagKept, BatchIndexed, AdminLabels
  <2>7. LoadInv'
    BY <1>1, <1>3, <2>1 DEF LoadInv
  <2> QED
    BY <2>3, <2>4, <2>6, <2>7 DEF AloneInv
<1>9. CASE LoadThrow(t)
  <2>1. UNCHANGED <<disk, stable>>
    BY <1>9 DEF LoadThrow
  <2>2. Once(disk)' /\ Once(stable)'
    BY <1>4, <2>1 DEF Once
  <2>3. CASE t = Main
    <3>1. Halt
      BY <1>9, <2>3 DEF LoadThrow
    <3> QED
      BY <2>2, <3>1, HaltAlone
  <2>4. CASE t # Main
    <3>1. /\ UNCHANGED <<mem, kv, disabled>> /\ pc[t] = "loading"
          /\ \A u \in Threads : u # t => pc'[u] = pc[u]
          /\ pc'[t] = "replying"
      BY <1>1, <1>9, <2>4 DEF LoadThrow
    <3>2. disabled
      BY <1>3, <2>4, <3>1 DEF AloneInv, FlagKept
    <3>3. \A u \in Workers : pc'[u] \in {"idle", "replying"} /\ kv'[u] = NoRecords
      BY <1>1, <1>3, <1>5, <3>1
    <3>4. Alone' /\ FlagKept' /\ BatchIndexed'
      BY <3>3 DEF Alone, FlagKept, BatchIndexed, AdminLabels
    <3>5. LoadInv' /\ MemoryComplete'
      BY <1>1, <1>3, <3>1, <3>2 DEF LoadInv, MemoryComplete
    <3> QED
      BY <2>2, <3>4, <3>5 DEF AloneInv
  <2> QED
    BY <2>3, <2>4
<1>10. ~LoadTruncated(t)
  BY DEF LoadTruncated, CallsAlone
<1> QED
  BY <1>6, <1>7, <1>8, <1>9, <1>10 DEF Load

QueryLabels == {"locking", "locked", "finding", "exiting"}

(***************************************************************************)
(* While a worker serves a query nobody makes an administrative call and   *)
(* nobody loads.                                                           *)
(***************************************************************************)
LEMMA QueryAlone ==
  ASSUME TypeOK, LockInv, AloneInv, NEW t \in Workers, pc[t] \in QueryLabels
  PROVE  /\ Serving
         /\ \A u \in Workers : pc[u] \notin AdminLabels
         /\ \A u \in Threads : pc[u] # "loading"
<1>1. Serving
  BY DEF LockInv, QueryLabels
<1>2. \A u \in Workers : pc[u] \notin AdminLabels
  BY DEF AloneInv, Alone, QueryLabels, AdminLabels
<1> QED
  BY <1>1, <1>2 DEF Serving, AdminLabels, Threads

(***************************************************************************)
(* A batch all of whose records are in the index, written over a database  *)
(* all of whose records are, leaves a database that is indexed, and that   *)
(* therefore numbers no string twice.                                      *)
(***************************************************************************)
LEMMA PutIndexed ==
  ASSUME NEW d, NEW b, Indexes(d), Indexes(b)
  PROVE  Indexes(Put(d, b)) /\ Once(Put(d, b))
<1>1. Indexes(Put(d, b))
  BY DEF Indexes, Put
<1>2. \A n \in NumID : Put(d, b)[n] # None => mem[CStr[Put(d, b)[n]]] = n
  BY <1>1 DEF Indexes
<1> QED
  BY <1>1, <1>2 DEF Once

(***************************************************************************)
(* A step of a query that leaves the storage alone keeps AloneInv, if it   *)
(* does not enter or stay in the loop over the strings.                    *)
(***************************************************************************)
LEMMA PassAlone ==
  ASSUME TypeOK, LockInv, AloneInv, NEW t \in Workers, NEW l \in WorkerLabels,
         pc[t] \notin AdminLabels \cup {"idle"},
         l \notin AdminLabels \cup {"finding"},
         pc' = [pc EXCEPT ![t] = l],
         (kv' = kv /\ pc[t] # "finding") \/ kv' = [kv EXCEPT ![t] = NoRecords],
         UNCHANGED <<disk, stable, mem, disabled, it>>
  PROVE  AloneInv'
<1>1. /\ pc \in [Threads -> MainLabels \cup WorkerLabels]
      /\ kv \in [Workers -> Records]
      /\ \A u \in Workers : u \in Threads /\ u # Main
      /\ Main \in Threads
  BY ThreadAssumption DEF TypeOK, Threads
<1>2. \A u \in Workers : pc[u] \notin AdminLabels /\ pc'[u] \notin AdminLabels
  BY <1>1 DEF AloneInv, Alone
<1>3. pc'[t] = l /\ \A u \in Threads : u # t => pc'[u] = pc[u]
  BY <1>1
<1>4. Alone' /\ FlagKept'
  BY <1>1, <1>2, <1>3 DEF AloneInv, Alone, FlagKept, AdminLabels
<1>5. BatchIndexed'
  <2>1. kv'[t] = NoRecords
    BY <1>1 DEF AloneInv, BatchIndexed
  <2>2. \A u \in Workers : u # t => kv'[u] = kv[u] /\ pc'[u] = pc[u]
    BY <1>1
  <2>3. ASSUME NEW u \in Workers, pc'[u] = "finding" PROVE Indexes(kv[u])'
    BY <1>3, <2>2, <2>3 DEF AloneInv, BatchIndexed, Indexes
  <2>4. ASSUME NEW u \in Workers, pc'[u] # "finding" PROVE kv'[u] = NoRecords
    BY <2>1, <2>2, <2>4 DEF AloneInv, BatchIndexed
  <2> QED
    BY <2>3, <2>4 DEF BatchIndexed
<1>6. LoadInv'
  <2>1. \A u \in Threads : pc'[u] = "loading" => pc[u] = "loading"
    BY <1>3 DEF AdminLabels
  <2> QED
    BY <2>1 DEF AloneInv, LoadInv, Loaded, ShowsRecords
<1>7. MemoryComplete'
  BY <1>1, <1>2, <1>3 DEF AloneInv, MemoryComplete, Serving
<1>8. Once(disk)' /\ Once(stable)'
  BY DEF AloneInv, Once
<1> QED
  BY <1>4, <1>5, <1>6, <1>7, <1>8 DEF AloneInv

(***************************************************************************)
(* The steps of query keep AloneInv: what is not in the index is not in    *)
(* the database either, and enters both under one new id.                  *)
(***************************************************************************)
LEMMA QueryStepAlone ==
  ASSUME TypeOK, LockInv, AloneInv, ~torn, NEW t \in Workers, QueryStep(t)
  PROVE  AloneInv'
<1> USE DEF Goto, Leave, storage, service, call, loader
<1>1. /\ pc \in [Threads -> MainLabels \cup WorkerLabels]
      /\ kv \in [Workers -> Records] /\ disk \in Records
      /\ mem \in [Strings -> NumID \cup {None}] /\ cnt \in NumID
      /\ \A u \in Workers : u \in Threads /\ u # Main
      /\ Main \in Threads
  BY ThreadAssumption DEF TypeOK, Threads
<1>2. CASE Lock(t) \/ Lookup(t) \/ LookupThrow(t) \/ Refuse(t) \/ PassThrough(t)
             \/ FindThrow(t) \/ Reply(t)
  <2>1. /\ UNCHANGED <<disk, stable, mem, disabled, it>>
        /\ pc[t] \in WorkerLabels \ (AdminLabels \cup {"idle"})
        /\ \/ kv' = kv /\ pc[t] # "finding"
           \/ kv' = [kv EXCEPT ![t] = NoRecords]
    BY <1>2 DEF Lock, Lookup, LookupThrow, Refuse, PassThrough, FindThrow, Reply,
       WorkerLabels, AdminLabels
  <2>2. PICK l \in {"locked", "replying", "exiting", "idle"} :
          pc' = [pc EXCEPT ![t] = l]
    BY <1>2 DEF Lock, Lookup, LookupThrow, Refuse, PassThrough, FindThrow, Reply
  <2>3. l \in WorkerLabels /\ l \notin AdminLabels \cup {"finding"}
    BY DEF WorkerLabels, AdminLabels
  <2> QED
    BY <2>1, <2>2, <2>3, PassAlone
<1>3. CASE Admit(t)
  <2>1. /\ UNCHANGED <<disk, stable, mem, disabled, it, kv>>
        /\ pc[t] = "locked" /\ ~disabled
        /\ pc' = [pc EXCEPT ![t] = "finding"]
    BY <1>3 DEF Admit
  <2>2. /\ pc'[t] = "finding" /\ \A u \in Threads : u # t => pc'[u] = pc[u]
        /\ kv[t] = NoRecords
    BY <1>1, <2>1 DEF AloneInv, BatchIndexed
  <2>3. /\ \A u \in Workers : pc'[u] \notin AdminLabels
        /\ \A u \in Threads : pc'[u] # "loading"
        /\ \A u \in Workers : pc[u] \notin AdminLabels
    BY <1>1, <2>1, <2>2, QueryAlone DEF QueryLabels, AdminLabels
  <2>4. Alone' /\ LoadInv'
    BY <2>3 DEF Alone, LoadInv
  <2>5. FlagKept'
    BY <2>1, <2>3 DEF FlagKept, AdminLabels
  <2>6. BatchIndexed'
    BY <2>1, <2>2 DEF AloneInv, BatchIndexed, Indexes, NoRecords
  <2>7. MemoryComplete'
    BY <1>1, <2>1, <2>2, <2>3 DEF AloneInv, MemoryComplete, Serving
  <2>8. Once(disk)' /\ Once(stable)'
    BY <2>1 DEF AloneInv, Once
  <2> QED
    BY <2>4, <2>5, <2>6, <2>7, <2>8 DEF AloneInv
<1>4. CASE FindKnown(t)
  BY <1>4 DEF FindKnown, AloneInv, Once, Alone, FlagKept, BatchIndexed, Indexes,
     LoadInv, Loaded, ShowsRecords, MemoryComplete, Serving
<1>5. CASE FindNew(t)
  <2>1. PICK s \in Strings, c \in NumID :
          /\ CStr[s] \in Strings /\ mem[CStr[s]] = None
          /\ mem' = [mem EXCEPT ![CStr[s]] = c]
          /\ kv' = [kv EXCEPT ![t][c] = s]
    BY <1>1, <1>5, CurrentType DEF FindNew, Indexed
  <2>2. UNCHANGED <<disk, stable, disabled, it, pc>> /\ pc[t] = "finding"
    BY <1>5 DEF FindNew
  <2>3. /\ mem'[CStr[s]] = c
        /\ \A k \in Strings : k # CStr[s] => mem'[k] = mem[k]
    BY <1>1, <2>1
  <2>4. /\ kv'[t] = [kv[t] EXCEPT ![c] = s] /\ kv[t] \in Records
        /\ \A u \in Workers : u # t => kv'[u] = kv[u]
    BY <1>1, <2>1
  <2>5. kv'[t][c] = s /\ \A n \in NumID : n # c => kv'[t][n] = kv[t][n]
    BY <2>4 DEF Records
  <2>6. \A u \in Workers : pc[u] = "finding" => u = t
    BY <2>2 DEF LockInv
  <2>7. ASSUME NEW d \in Records, Indexes(d), NEW n \in NumID, d[n] # None
        PROVE  mem'[CStr[d[n]]] = n
    <3>1. mem[CStr[d[n]]] = n /\ n # None
      BY <2>7, IdAssumption DEF Indexes
    <3>2. CStr[d[n]] \in Strings
      BY <2>7, StringAssumption DEF Records
    <3> QED
      BY <2>1, <2>3, <3>1, <3>2
  <2>8. Serving /\ ~disabled /\ \A u \in Workers : pc[u] \notin AdminLabels
    BY <2>2, QueryAlone DEF QueryLabels, AloneInv, FlagKept
  <2>9. Indexes(disk) /\ Indexes(kv[t])
    BY <2>2, <2>8 DEF AloneInv, MemoryComplete, BatchIndexed, Indexes
  <2>10. MemoryComplete'
    BY <1>1, <2>2, <2>7, <2>9 DEF MemoryComplete
  <2>11. BatchIndexed'
    <3>1. Indexes(kv[t])'
      BY <2>3, <2>4, <2>5, <2>7, <2>9 DEF Indexes
    <3> QED
      BY <2>2, <2>4, <2>6, <3>1 DEF AloneInv, BatchIndexed
  <2>12. LoadInv'
    BY <2>2, QueryAlone DEF LoadInv, QueryLabels
  <2>13. Once(disk)' /\ Once(stable)' /\ Alone' /\ FlagKept'
    BY <2>2 DEF AloneInv, Once, Alone, FlagKept
  <2> QED
    BY <2>10, <2>11, <2>12, <2>13 DEF AloneInv
<1>6. CASE Write(t) \/ WriteThrow(t)
  <2>1. /\ UNCHANGED <<stable, mem, disabled, it>> /\ pc[t] = "finding"
        /\ disk' \in {disk, Put(disk, kv[t])}
        /\ kv' = [kv EXCEPT ![t] = NoRecords]
    BY <1>6 DEF Write, WriteThrow
  <2>2. PICK l \in {"replying", "exiting"} : pc' = [pc EXCEPT ![t] = l]
    BY <1>6 DEF Write, WriteThrow
  <2>3. /\ \A u \in Workers : u # t => kv'[u] = kv[u] /\ pc'[u] = pc[u]
        /\ kv'[t] = NoRecords /\ pc'[t] = l /\ pc'[Main] = pc[Main]
    BY <1>1, <2>1, <2>2
  <2>4. /\ Serving /\ ~disabled
        /\ \A u \in Workers : pc[u] \notin AdminLabels
        /\ \A u \in Threads : pc[u] # "loading"
    BY <2>1, QueryAlone DEF QueryLabels, AloneInv, FlagKept
  <2>5. Indexes(disk) /\ Indexes(kv[t]) /\ Once(disk)
    BY <2>1, <2>4 DEF AloneInv, MemoryComplete, BatchIndexed, Indexes
  <2>6. \A d \in {disk, Put(disk, kv[t])} : Once(d) /\ Indexes(d)
    BY <2>5, PutIndexed
  <2>7. Once(disk)' /\ Once(stable)'
    BY <2>1, <2>6 DEF AloneInv, Once
  <2>8. \A u \in Workers : pc'[u] \notin AdminLabels
    BY <2>3, <2>4 DEF AdminLabels
  <2>9. Alone' /\ FlagKept'
    BY <2>1, <2>4, <2>8 DEF Alone, FlagKept, AdminLabels
  <2>10. BatchIndexed'
    BY <2>1, <2>3 DEF AloneInv, BatchIndexed, Indexes
  <2>11. LoadInv'
    <3>1. \A u \in Threads : pc'[u] # "loading"
      BY <1>1, <2>2, <2>4
    <3> QED
      BY <3>1 DEF LoadInv
  <2>12. MemoryComplete'
    BY <2>1, <2>6 DEF MemoryComplete, Indexes
  <2> QED
    BY <2>7, <2>9, <2>10, <2>11, <2>12 DEF AloneInv
<1>7. CASE Exit(t)
  <2>1. Halt /\ disk' = disk /\ stable' = stable
    BY <1>7 DEF Exit
  <2>2. Once(disk)' /\ Once(stable)'
    BY <2>1 DEF AloneInv, Once
  <2> QED
    BY <2>1, <2>2, HaltAlone
<1>8. ~FindTorn(t)
  BY DEF FindTorn
<1> QED
  BY <1>2, <1>3, <1>4, <1>5, <1>6, <1>7, <1>8 DEF QueryStep

(***************************************************************************)
(* A worker that is alone goes through an administrative call.             *)
(***************************************************************************)
LEMMA AdminAlone ==
  ASSUME TypeOK, AloneInv, Serving, NEW t \in Workers, NEW l \in WorkerLabels,
         \A u \in Workers : u # t => pc[u] = "idle",
         pc[t] # "finding", l \notin {"finding", "loading"},
         l = "opening" => disabled',
         pc' = [pc EXCEPT ![t] = l],
         UNCHANGED <<disk, stable, it, kv>>
  PROVE  Once(disk)' /\ Once(stable)' /\ Alone' /\ FlagKept' /\ BatchIndexed' /\ LoadInv'
<1>1. /\ pc \in [Threads -> MainLabels \cup WorkerLabels]
      /\ \A u \in Workers : u \in Threads /\ u # Main
      /\ Main \in Threads
  BY ThreadAssumption DEF TypeOK, Threads
<1>2. /\ pc'[t] = l /\ pc'[Main] = "serving"
      /\ \A u \in Workers : u # t => pc'[u] = "idle"
      /\ \A u \in Workers : kv'[u] = NoRecords
  BY <1>1 DEF Serving, AloneInv, BatchIndexed
<1>3. Once(disk)' /\ Once(stable)'
  BY DEF AloneInv, Once
<1>4. Alone' /\ FlagKept' /\ BatchIndexed'
  BY <1>2 DEF Alone, FlagKept, BatchIndexed, AdminLabels
<1>5. LoadInv'
  BY <1>2 DEF LoadInv, Threads
<1> QED
  BY <1>3, <1>4, <1>5

(***************************************************************************)
(* Every step keeps AloneInv.                                              *)
(***************************************************************************)
LEMMA AloneStep ==
  ASSUME CallsAlone
  PROVE  TypeOK /\ LockInv /\ AloneInv /\ ~torn /\ ~torn' /\ [Next]_vars
           => AloneInv'
<1> SUFFICES ASSUME TypeOK, LockInv, AloneInv, ~torn, ~torn', [Next]_vars
             PROVE  AloneInv'
  OBVIOUS
<1> USE DEF Goto, storage, service, call, loader
<1>1. /\ pc \in [Threads -> MainLabels \cup WorkerLabels]
      /\ \A u \in Workers : u \in Threads /\ u # Main
      /\ Main \in Threads
      /\ Once(disk) /\ Once(stable)
  BY ThreadAssumption DEF TypeOK, Threads, AloneInv
<1>2. ASSUME NEW t \in Workers, Unload(t) PROVE AloneInv'
  <2>1. /\ pc[t] = "unloading" /\ Serving /\ \A u \in Workers : u # t => pc[u] = "idle"
    BY <1>2 DEF Unload, LockInv, AloneInv, Alone, AdminLabels
  <2>2. /\ pc' = [pc EXCEPT ![t] = "disabling"]
        /\ UNCHANGED <<disk, stable, it, kv>>
    BY <1>2 DEF Unload
  <2>3. MemoryComplete'
    BY <1>1, <2>2 DEF MemoryComplete, AdminLabels
  <2> QED
    BY <2>1, <2>2, <2>3, AdminAlone DEF AloneInv, WorkerLabels, AdminLabels
<1>3. ASSUME NEW t \in Workers, SetDisabled(t) PROVE AloneInv'
  <2>1. /\ pc[t] = "disabling" /\ Serving /\ \A u \in Workers : u # t => pc[u] = "idle"
    BY <1>3 DEF SetDisabled, LockInv, AloneInv, Alone, AdminLabels
  <2>2. /\ pc' = [pc EXCEPT ![t] = "replying"]
        /\ UNCHANGED <<disk, stable, it, kv>> /\ disabled'
    BY <1>3 DEF SetDisabled
  <2>3. MemoryComplete'
    BY <2>2 DEF MemoryComplete
  <2> QED
    BY <2>1, <2>2, <2>3, AdminAlone DEF AloneInv, WorkerLabels, AdminLabels
<1>4. ASSUME NEW t \in Workers, CallDisable(t) \/ CallEnable(t) PROVE AloneInv'
  <2>1. Serving /\ \A u \in Workers : pc[u] = "idle"
    BY <1>4 DEF CallDisable, CallEnable, Quiet, CallsAlone
  <2>2. PICK l \in {"replying", "unloading", "opening"} :
          /\ pc' = [pc EXCEPT ![t] = l]
          /\ l = "opening" => disabled
    BY <1>4 DEF CallDisable, CallEnable
  <2>3. UNCHANGED <<disk, stable, it, kv, mem, disabled>>
    BY <1>4 DEF CallDisable, CallEnable
  <2>4. l \in WorkerLabels /\ l \notin {"finding", "loading"}
    BY DEF WorkerLabels, AdminLabels
  <2>5. Once(disk)' /\ Once(stable)' /\ Alone' /\ FlagKept' /\ BatchIndexed' /\ LoadInv'
    BY <2>1, <2>2, <2>3, <2>4, AdminAlone
  <2>6. MemoryComplete'
    BY <2>1, <2>3 DEF AloneInv, MemoryComplete, AdminLabels
  <2> QED
    BY <2>5, <2>6 DEF AloneInv
<1>5. ASSUME NEW t \in Workers, NEW q \in Requests, CallQuery(t, q) PROVE AloneInv'
  <2>1. /\ Serving /\ pc[t] = "idle" /\ \A u \in Workers : pc[u] \notin AdminLabels
        /\ UNCHANGED <<disk, stable, it, kv, mem, disabled>>
        /\ pc' = [pc EXCEPT ![t] = "locking"]
    BY <1>5 DEF CallQuery, CallsAlone
  <2>2. /\ pc'[t] = "locking" /\ pc'[Main] = "serving"
        /\ \A u \in Workers : u # t => pc'[u] = pc[u]
    BY <1>1, <2>1 DEF Serving
  <2>3. \A u \in Workers : pc'[u] \notin AdminLabels
    BY <2>1, <2>2 DEF AdminLabels
  <2>4. Once(disk)' /\ Once(stable)'
    BY <2>1 DEF AloneInv, Once
  <2>5. Alone' /\ LoadInv'
    BY <2>2, <2>3 DEF Alone, LoadInv, Threads, AdminLabels
  <2>6. FlagKept' /\ BatchIndexed'
    BY <2>1, <2>2 DEF AloneInv, FlagKept, BatchIndexed, Indexes
  <2>7. MemoryComplete'
    BY <2>1 DEF AloneInv, MemoryComplete
  <2> QED
    BY <2>4, <2>5, <2>6, <2>7 DEF AloneInv
<1>6. ASSUME NEW s \in DisableAtStart, Start(s) PROVE AloneInv'
  <2>1. \A u \in Workers : pc[u] = "idle"
    BY <1>6 DEF Start, LockInv, Serving
  <2>2. /\ pc'[Main] = "opening" /\ \A u \in Workers : pc'[u] = "idle"
        /\ UNCHANGED <<disk, stable, kv>>
    BY <1>1, <1>6, <2>1 DEF Start
  <2>3. Alone' /\ FlagKept' /\ MemoryComplete' /\ LoadInv'
    BY <2>2 DEF Alone, FlagKept, MemoryComplete, LoadInv, Serving, Threads, AdminLabels
  <2>4. Once(disk)' /\ Once(stable)' /\ BatchIndexed'
    BY <2>1, <2>2 DEF AloneInv, Once, BatchIndexed
  <2> QED
    BY <2>3, <2>4 DEF AloneInv
<1>7. CASE ServeWithoutLoad
  <2>1. \A u \in Workers : pc[u] = "idle"
    BY <1>7 DEF ServeWithoutLoad, LockInv, Serving
  <2>2. /\ pc'[Main] = "serving" /\ \A u \in Workers : pc'[u] = "idle"
        /\ UNCHANGED <<disk, stable, kv>> /\ disabled'
    BY <1>1, <1>7, <2>1 DEF ServeWithoutLoad
  <2>3. Alone' /\ FlagKept' /\ MemoryComplete' /\ LoadInv'
    BY <2>2 DEF Alone, FlagKept, MemoryComplete, LoadInv, Serving, Threads, AdminLabels
  <2>4. Once(disk)' /\ Once(stable)' /\ BatchIndexed'
    BY <2>1, <2>2 DEF AloneInv, Once, BatchIndexed
  <2> QED
    BY <2>3, <2>4 DEF AloneInv
<1>8. CASE Shutdown \/ Kill \/ PowerLoss
  <2>1. Halt /\ disk' \in {disk, stable} /\ stable' = stable
    BY <1>8 DEF Shutdown, Kill, PowerLoss
  <2>2. \A d \in {disk, stable} : Once(d)
    BY <1>1
  <2>3. Once(disk)' /\ Once(stable)'
    BY <2>1, <2>2 DEF Once
  <2> QED
    BY <2>1, <2>3, HaltAlone
<1>9. CASE Sync
  BY <1>1, <1>9 DEF Sync, AloneInv, Once, Alone, FlagKept, BatchIndexed, Indexes,
     LoadInv, Loaded, ShowsRecords, MemoryComplete, Serving
<1>10. CASE UNCHANGED vars
  BY <1>10 DEF vars, AloneInv, Once, Alone, FlagKept, BatchIndexed, Indexes,
     LoadInv, Loaded, ShowsRecords, MemoryComplete, Serving
<1>11. ~Tear /\ ~Crash
  BY DEF Tear, Crash
<1> QED
  BY <1>1, <1>2, <1>3, <1>4, <1>5, <1>6, <1>7, <1>8, <1>9, <1>10, <1>11, LoadAlone,
     QueryStepAlone
     DEF Next, WorkerStep, AdminStep, ClientCall, MainStep, Operator

(***************************************************************************)
(* Init establishes AloneInv.                                              *)
(***************************************************************************)
LEMMA AloneInit ==
  ASSUME CallsAlone
  PROVE  Init => AloneInv
BY ThreadAssumption DEF CallsAlone, Init, AloneInv, Once, Alone, FlagKept, BatchIndexed,
   LoadInv, MemoryComplete, Serving, Threads, AdminLabels

-----------------------------------------------------------------------------
(***************************************************************************)
(* AloneInv holds: what the two theorems and the refinement rest on.       *)
(***************************************************************************)
LEMMA AloneKept ==
  ASSUME CallsAlone
  PROVE  Spec => []AloneInv
<1>1. Init => AloneInv
  BY AloneInit
<1>2. TypeOK /\ LockInv /\ AloneInv /\ ~torn /\ ~torn' /\ [Next]_vars => AloneInv'
  BY AloneStep
<1>3. TakesTurns => ~torn
  BY DEF TakesTurns, CallsAlone
<1> QED
  BY <1>1, <1>2, <1>3, TurnsTaken, TypeCorrect, MutexHeldInside, PTL DEF Spec

(***************************************************************************)
(* The database never numbers a string twice: not after restarts with or   *)
(* without -S, kills, power losses, failing writes, reads and allocations, *)
(* and disable_s2i and enable_s2i in any order.                            *)
(***************************************************************************)
THEOREM NumberedOnce ==
  ASSUME CallsAlone
  PROVE  Spec => []OneIdPerString
<1>1. AloneInv => OneIdPerString
  BY DEF AloneInv, Once, OneIdPerString
<1> QED
  BY <1>1, AloneKept, PTL

(***************************************************************************)
(* Clients that ask for one string twice are told one id, whatever is      *)
(* disabled, enabled, restarted or loaded in between: the pairs that were  *)
(* told are records, and no two records have one string.  This is what     *)
(* tests/disable-s2i-test.py expects; it needs callers that make           *)
(* administrative calls alone, as that test does.                          *)
(***************************************************************************)
THEOREM SameIdWhereAlone ==
  ASSUME CallsAlone, NoFailure
  PROVE  Spec => []SameIdAlways
<1>1. TypeOK /\ ToldOnDisk /\ OneIdPerString => SameIdAlways
  <2> SUFFICES ASSUME TypeOK, ToldOnDisk, OneIdPerString,
                      NEW p \in told, NEW q \in told, CStr[p[1]] = CStr[q[1]]
               PROVE  p[2] = q[2]
    BY DEF SameIdAlways
  <2>1. p[2] \in NumID /\ q[2] \in NumID
    BY DEF TypeOK
  <2>2. /\ disk[p[2]] # None /\ CStr[disk[p[2]]] = CStr[p[1]]
        /\ disk[q[2]] # None /\ CStr[disk[q[2]]] = CStr[q[1]]
    BY DEF ToldOnDisk, OnDisk
  <2> QED
    BY <2>1, <2>2 DEF OneIdPerString
<1> QED
  BY <1>1, TypeCorrect, ToldIsOnDisk, NumberedOnce, PTL

(***************************************************************************)
(* Whenever STR2ID is served, the index it consults has every record of    *)
(* the database.                                                           *)
(***************************************************************************)
THEOREM IndexComplete ==
  ASSUME CallsAlone
  PROVE  Spec => []MemoryComplete
<1>1. AloneInv => MemoryComplete
  BY DEF AloneInv
<1> QED
  BY <1>1, AloneKept, PTL

(***************************************************************************)
(* The server implements the ledger with one entry for each string: what   *)
(* LedgerImplemented of NumeratorProofs says of callers that do not take   *)
(* turns, and that no entry repeats a string besides.                      *)
(***************************************************************************)
THEOREM UniqueLedgerImplemented ==
  ASSUME CallsAlone, NoFailure
  PROVE  Spec => ImplementsLedger
<1> NoLoss
  BY DEF NoFailure
<1>1. Init => Promise!Init
  BY EnvironmentAssumption
     DEF CallsAlone, Init, Promise!Init, Promise!OneEntryPerKey, Once, Records
<1>2. IndInv /\ IndInv' /\ RecordsKept /\ [Next]_vars /\ OneIdPerString'
        => [Promise!Next]_(Promise!vars)
  <2> SUFFICES ASSUME IndInv, IndInv', RecordsKept, [Next]_vars, OneIdPerString'
               PROVE  Promise!Next
    OBVIOUS
  <2>1. Promise!OneEntryPerKey(disk')
    BY DEF Promise!OneEntryPerKey, OneIdPerString
  <2> QED
    BY <2>1, LedgerStep DEF IndInv, Promise!Next, Promise!Extend
<1>3. TypeOK /\ LockInv /\ IdInv /\ [Next]_vars => RecordsKept
  BY IdStep
<1>4. IndInv => TypeOK /\ LockInv /\ IdInv
  BY DEF IndInv
<1>5. Spec => []IndInv
  BY Backed, PTL
<1> QED
  BY <1>1, <1>2, <1>3, <1>4, <1>5, NumberedOnce, PTL
     DEF Spec, ImplementsLedger, Promise!Spec
=============================================================================
