--------------------------- MODULE NumeratorProofs --------------------------
(***************************************************************************)
(* Theorems about Numerator, for any number of workers, strings and ids.   *)
(***************************************************************************)
EXTENDS Numerator, SequenceTheorems, TLAPS

-----------------------------------------------------------------------------
(***************************************************************************)
(* Type correctness.                                                       *)
(***************************************************************************)

(***************************************************************************)
(* The values a process starts with have their types.                      *)
(***************************************************************************)
LEMMA EmptyTypes ==
  /\ EmptyQuery \in Query
  /\ EmptyResult \in Result
  /\ NoRecords \in Records
  /\ NoStrings \in [Strings -> NumID \cup {None}]
  /\ 0 \in NumID
BY EmptySeq, IdAssumption DEF EmptyQuery, Query, EmptyResult, Result, NoRecords,
   Records, NoStrings, Operations

(***************************************************************************)
(* Incrementing an id gives an id, wrapping at the largest.                *)
(***************************************************************************)
LEMMA SuccType == \A n \in NumID : Succ(n) \in NumID /\ FirstFree(n) \in NumID
BY IdAssumption DEF Succ, FirstFree, NumID

(***************************************************************************)
(* The end of the process leaves well-typed variables behind.              *)
(***************************************************************************)
LEMMA HaltType ==
  ASSUME TypeOK, Halt, disk' \in Records, stable' \in Records
  PROVE  TypeOK'
BY EmptyTypes, ThreadAssumption
   DEF TypeOK, Halt, Threads, MainLabels, WorkerLabels, AdminLabels

(***************************************************************************)
(* The string the loop of query_impl has reached is one of the request's.  *)
(***************************************************************************)
LEMMA CurrentType ==
  ASSUME TypeOK, NEW t \in Workers, More(t)
  PROVE  /\ Len(response[t].ids) + 1 \in DOMAIN request[t].strings
         /\ Current(t) \in Strings
         /\ CStr[Current(t)] \in Strings
<1>1. /\ request[t].strings \in Seq(Strings)
      /\ response[t].ids \in Seq(NumID \cup {None})
  BY DEF TypeOK, Query, Result
<1>2. Len(response[t].ids) + 1 \in 1..Len(request[t].strings)
  BY <1>1, LenProperties DEF More
<1>3. Current(t) \in Strings
  BY <1>1, <1>2, ElementOfSeq DEF Current
<1>4. QED
  BY <1>1, <1>2, <1>3, LenProperties, StringAssumption

(***************************************************************************)
(* Appending an id to the answer of a worker keeps the answers well typed. *)
(***************************************************************************)
LEMMA AnsweredType ==
  ASSUME TypeOK, NEW t \in Workers, NEW n \in NumID \cup {None}, Answered(t, n)
  PROVE  response' \in [Workers -> Result]
<1>1. Append(response[t].ids, n) \in Seq(NumID \cup {None})
  BY AppendProperties DEF TypeOK, Result
<1>2. QED
  BY <1>1 DEF TypeOK, Result, Answered

(***************************************************************************)
(* The strings and failures of a lookup are well typed.                    *)
(***************************************************************************)
LEMMA LookupType ==
  ASSUME TypeOK, NEW t \in Workers, Lookup(t)
  PROVE  response' \in [Workers -> Result]
<1> DEFINE ids == request[t].ids
           strs == [i \in DOMAIN ids |-> Found(ids[i])]
           fails == {i - 1 : i \in {j \in DOMAIN ids : disk[ids[j]] = None}}
<1>1. /\ ids \in Seq(NumID)
      /\ DOMAIN ids = 1..Len(ids)
      /\ Len(ids) \in Nat
  BY LenProperties DEF TypeOK, Query
<1>2. \A i \in 1..Len(ids) : Found(ids[i]) \in Strings
  BY <1>1, ElementOfSeq, StringAssumption DEF TypeOK, Records, Found
<1>3. strs \in Seq(Strings)
  BY <1>1, <1>2, SeqDef
<1>4. fails \in SUBSET Nat
  BY <1>1
<1>5. response' = [response EXCEPT ![t].strings = strs, ![t].failures = fails]
  BY DEF Lookup
<1>6. response[t] \in Result
  BY DEF TypeOK
<1>7. [response[t] EXCEPT !.strings = strs, !.failures = fails] \in Result
  BY <1>3, <1>4, <1>6 DEF Result
<1>8. QED
  BY <1>5, <1>7 DEF TypeOK

(***************************************************************************)
(* The load loop keeps the types, run by Main or by a worker.              *)
(***************************************************************************)
LEMMA LoadType ==
  ASSUME TypeOK, NEW t \in Threads, Load(t)
  PROVE  TypeOK'
<1> USE DEF storage, service, call, loader, Goto
<1>1. CASE OpenIterator(t)
  BY <1>1, EmptyTypes DEF OpenIterator, TypeOK, MainLabels, WorkerLabels,
     AdminLabels, Threads
<1>2. CASE LoadRecord(t)
  <2>1. PICK n \in NumID :
          /\ IsNext(t, n)
          /\ mem' = Indexed(it[t][n], n)
          /\ it' = [it EXCEPT ![t][n] = None]
          /\ maxId' = [maxId EXCEPT ![t] = IF n > @ THEN n ELSE @]
    BY <1>2 DEF LoadRecord
  <2>2. it[t][n] \in Strings /\ CStr[it[t][n]] \in Strings
    <3>1. it[t][n] # None
      BY <2>1 DEF IsNext, Remaining
    <3>2. it[t][n] \in Strings \cup {None}
      BY DEF TypeOK, Records
    <3>3. QED
      BY <3>1, <3>2, StringAssumption
  <2>3. mem' \in [Strings -> NumID \cup {None}] /\ (torn => mem' = NoStrings)
    BY <2>1, <2>2 DEF TypeOK, Indexed
  <2>4. it' \in [Threads -> Records]
    BY <2>1 DEF TypeOK, Records
  <2>5. maxId' \in [Threads -> NumID]
    BY <2>1 DEF TypeOK
  <2>6. QED
    BY <1>2, <2>3, <2>4, <2>5 DEF LoadRecord, TypeOK
<1>3. CASE LoadDone(t)
  <2>1. maxId' \in [Threads -> NumID]
    BY <1>3, EmptyTypes DEF LoadDone, TypeOK
  <2>2. CASE t = Main
    <3>1. cnt' \in NumID
      BY <1>3, <2>2, SuccType, ThreadAssumption DEF LoadDone, TypeOK, Threads
    <3>2. QED
      BY <1>3, <2>1, <2>2, <3>1, ThreadAssumption
         DEF LoadDone, TypeOK, MainLabels, WorkerLabels, AdminLabels, Threads
  <2>3. CASE t # Main
    BY <1>3, <2>1, <2>3
       DEF LoadDone, TypeOK, MainLabels, WorkerLabels, AdminLabels, Threads
  <2>4. QED
    BY <2>2, <2>3
<1>4. CASE LoadThrow(t)
  <2>1. CASE t = Main
    BY <1>4, <2>1, HaltType DEF LoadThrow, TypeOK
  <2>2. CASE t # Main
    BY <1>4, <2>2, EmptyTypes
       DEF LoadThrow, TypeOK, MainLabels, WorkerLabels, AdminLabels, Threads
  <2>3. QED
    BY <2>1, <2>2
<1>5. CASE LoadTruncated(t)
  BY <1>5, EmptyTypes DEF LoadTruncated, TypeOK
<1>6. QED
  BY <1>1, <1>2, <1>3, <1>4, <1>5 DEF Load

(***************************************************************************)
(* The pairs an answer claims are strings with ids.                        *)
(***************************************************************************)
LEMMA ClaimsType ==
  ASSUME TypeOK, ShapeInv, NEW t \in Workers
  PROVE  Claims(t) \subseteq Strings \X NumID
<1>1. /\ request[t].strings \in Seq(Strings)
      /\ request[t].ids \in Seq(NumID)
      /\ response[t].strings \in Seq(Strings)
      /\ response[t].ids \in Seq(NumID \cup {None})
  BY DEF TypeOK, Query, Result
<1>2. /\ \A i \in DOMAIN response[t].ids :
           /\ request[t].strings[i] \in Strings
           /\ response[t].ids[i] \in NumID \cup {None}
      /\ \A i \in DOMAIN response[t].strings :
           response[t].strings[i] \in Strings /\ request[t].ids[i] \in NumID
  BY <1>1, ElementOfSeq, LenProperties DEF ShapeInv
<1>3. QED
  BY <1>2 DEF Claims

(***************************************************************************)
(* The steps of query keep the types.                                      *)
(***************************************************************************)
LEMMA QueryType ==
  ASSUME TypeOK, ShapeInv, NEW t \in Workers, QueryStep(t)
  PROVE  TypeOK'
<1> USE ThreadAssumption
        DEF storage, service, call, loader, Goto, Leave, TypeOK, MainLabels,
            WorkerLabels, Threads
<1>1. CASE Lock(t)
  BY <1>1 DEF Lock
<1>2. CASE Lookup(t)
  <2>1. response' \in [Workers -> Result]
    BY <1>2, LookupType
  <2>2. QED
    BY <1>2, <2>1, EmptyTypes DEF Lookup
<1>3. CASE LookupThrow(t)
  BY <1>3, EmptyTypes DEF LookupThrow
<1>4. CASE Refuse(t)
  BY <1>4, EmptyTypes DEF Refuse
<1>5. CASE PassThrough(t)
  BY <1>5, EmptyTypes DEF PassThrough
<1>6. CASE Admit(t)
  BY <1>6 DEF Admit
<1>7. CASE FindKnown(t)
  <2>1. mem[CStr[Current(t)]] \in NumID
    BY <1>7, CurrentType DEF FindKnown
  <2>2. response' \in [Workers -> Result]
    BY <1>7, <2>1, AnsweredType DEF FindKnown
  <2>3. QED
    BY <1>7, <2>2 DEF FindKnown
<1>8. CASE FindNew(t)
  <2>1. response' \in [Workers -> Result]
    BY <1>8, AnsweredType DEF FindNew
  <2>2. mem' \in [Strings -> NumID \cup {None}] /\ (torn => mem' = NoStrings)
    BY <1>8, CurrentType DEF FindNew, Indexed
  <2>3. cnt' \in NumID
    BY <1>8, SuccType DEF FindNew
  <2>4. kv' \in [Workers -> Records]
    BY <1>8, CurrentType DEF FindNew, Records
  <2>5. QED
    BY <1>8, <2>1, <2>2, <2>3, <2>4 DEF FindNew
<1>9. CASE FindThrow(t)
  BY <1>9, EmptyTypes DEF FindThrow
<1>10. Put(disk, kv[t]) \in Records
  BY DEF Put, Records
<1>11. CASE Write(t)
  BY <1>10, <1>11, EmptyTypes DEF Write
<1>12. CASE WriteThrow(t)
  BY <1>10, <1>12, EmptyTypes DEF WriteThrow
<1>13. CASE Reply(t)
  BY <1>13, EmptyTypes, ClaimsType DEF Reply
<1>14. CASE Exit(t)
  BY <1>14, HaltType DEF Exit
<1>15. CASE FindTorn(t)
  <2>1. response' \in [Workers -> Result]
    BY <1>15, AnsweredType DEF FindTorn
  <2>2. QED
    BY <1>15, <2>1 DEF FindTorn
<1>16. QED
  BY <1>1, <1>2, <1>3, <1>4, <1>5, <1>6, <1>7, <1>8, <1>9, <1>11, <1>12,
     <1>13, <1>14, <1>15 DEF QueryStep

(***************************************************************************)
(* Clients' calls and the operator's actions keep the types.               *)
(***************************************************************************)
LEMMA OutsideType ==
  ASSUME TypeOK, Operator \/ ServeWithoutLoad \/ \E t \in Workers : ClientCall(t)
  PROVE  TypeOK'
<1> USE ThreadAssumption
        DEF storage, service, call, loader, Goto, MainLabels, WorkerLabels,
            AdminLabels, Threads
<1>1. CASE \E s \in DisableAtStart : Start(s)
  BY <1>1, EnvironmentAssumption DEF Start, TypeOK
<1>2. CASE ServeWithoutLoad
  BY <1>2 DEF ServeWithoutLoad, TypeOK
<1>3. CASE Shutdown \/ Kill \/ PowerLoss
  BY <1>3, HaltType DEF Shutdown, Kill, PowerLoss, TypeOK
<1>4. CASE Sync
  BY <1>4 DEF Sync, TypeOK
<1>5. ASSUME NEW t \in Workers, NEW q \in Requests, CallQuery(t, q)
      PROVE  TypeOK'
  BY <1>5, EnvironmentAssumption DEF CallQuery, TypeOK
<1>6. ASSUME NEW t \in Workers, CallDisable(t) \/ CallEnable(t)
      PROVE  TypeOK'
  BY <1>6 DEF CallDisable, CallEnable, TypeOK
<1>7. QED
  BY <1>1, <1>2, <1>3, <1>4, <1>5, <1>6 DEF Operator, ClientCall

(***************************************************************************)
(* Every step keeps the types.                                             *)
(***************************************************************************)
LEMMA TypeStep == TypeOK /\ ShapeInv /\ [Next]_vars => TypeOK'
<1> SUFFICES ASSUME TypeOK, ShapeInv, [Next]_vars PROVE TypeOK'
  OBVIOUS
<1>1. ASSUME NEW t \in Workers, WorkerStep(t) PROVE TypeOK'
  <2>1. CASE QueryStep(t)
    BY <2>1, QueryType
  <2>2. CASE Unload(t)
    BY <2>2, EmptyTypes, ThreadAssumption
       DEF Unload, TypeOK, storage, call, loader, Goto, WorkerLabels,
           AdminLabels, MainLabels, Threads
  <2>3. CASE SetDisabled(t)
    BY <2>3, ThreadAssumption
       DEF SetDisabled, TypeOK, storage, call, loader, Goto, WorkerLabels,
           AdminLabels, MainLabels, Threads
  <2>4. CASE Load(t)
    BY <2>4, LoadType DEF Threads
  <2>5. QED
    BY <1>1, <2>1, <2>2, <2>3, <2>4 DEF WorkerStep, AdminStep
<1>2. CASE Load(Main)
  BY <1>2, LoadType DEF Threads
<1>3. CASE Operator \/ ServeWithoutLoad \/ \E t \in Workers : ClientCall(t)
  BY <1>3, OutsideType
<1>4. CASE UNCHANGED vars
  BY <1>4 DEF vars, storage, service, call, loader, TypeOK
<1>5. CASE Tear
  BY <1>5, EmptyTypes DEF Tear, storage, call, loader, TypeOK
<1>6. CASE Crash
  BY <1>6, HaltType DEF Crash, storage, TypeOK
<1>7. QED
  BY <1>1, <1>2, <1>3, <1>4, <1>5, <1>6 DEF Next, MainStep

(***************************************************************************)
(* Every step keeps answers no longer than their queries.                  *)
(***************************************************************************)
LEMMA ShapeStep == TypeOK /\ ShapeInv /\ [Next]_vars => ShapeInv'
<1> SUFFICES ASSUME TypeOK, ShapeInv, [Next]_vars PROVE ShapeInv'
  OBVIOUS
<1> USE ThreadAssumption DEF ShapeInv, storage, service, call, loader, Goto, Leave
<1>1. /\ \A u \in Workers : u \in Threads /\ u # Main
      /\ pc \in [Threads -> MainLabels \cup WorkerLabels]
      /\ request \in [Workers -> Query]
      /\ response \in [Workers -> Result]
  BY DEF TypeOK, Threads
<1>2. Len(<<>>) = 0
  OBVIOUS
<1>3. \A u \in Workers :
        /\ Len(request[u].strings) \in Nat
        /\ Len(request[u].ids) \in Nat
        /\ Len(response[u].ids) \in Nat
        /\ Len(response[u].strings) \in Nat
  BY <1>1, LenProperties DEF Query, Result
<1>4. ASSUME Halt PROVE ShapeInv'
  BY <1>2, <1>4 DEF Halt, EmptyQuery, EmptyResult
<1>5. ASSUME NEW t \in Workers, QueryStep(t) PROVE ShapeInv'
  <2>1. CASE Lock(t) \/ LookupThrow(t) \/ Refuse(t) \/ PassThrough(t)
               \/ Admit(t) \/ FindThrow(t) \/ Write(t) \/ WriteThrow(t)
    BY <1>1, <2>1 DEF Lock, LookupThrow, Refuse, PassThrough, Admit, FindThrow,
       Write, WriteThrow
  <2>2. CASE Lookup(t)
    <3> DEFINE strs == [i \in DOMAIN request[t].ids |-> Found(request[t].ids[i])]
    <3>1. response'[t].strings = strs /\ response'[t].ids = response[t].ids
      BY <1>1, <2>2 DEF Lookup, Result
    <3>2. Len(strs) = Len(request[t].ids)
      <4>1. /\ DOMAIN request[t].ids = 1..Len(request[t].ids)
            /\ Len(request[t].ids) \in Nat
        BY <1>1, LenProperties DEF Query
      <4>2. DOMAIN strs = 1..Len(request[t].ids)
        BY <4>1
      <4>3. strs \in Seq(Strings)
        BY <2>2, LookupType, <3>1 DEF Result
      <4>4. QED
        BY <4>1, <4>2, <4>3, LenProperties
    <3>3. QED
      BY <1>1, <1>3, <2>2, <3>1, <3>2 DEF Lookup
  <2>3. ASSUME NEW n \in NumID \cup {None}, Answered(t, n), More(t), pc' = pc,
               pc[t] = "finding", request' = request
        PROVE  ShapeInv'
    <3>1. /\ response'[t].strings = response[t].strings
          /\ Len(response'[t].ids) = Len(response[t].ids) + 1
      BY <1>1, <2>3, AppendProperties DEF Answered, Result
    <3>2. Len(response[t].ids) + 1 <= Len(request[t].strings)
      BY <1>3, <2>3 DEF More
    <3>3. QED
      BY <1>1, <2>3, <3>1, <3>2 DEF Answered
  <2>4. CASE FindKnown(t)
    <3>1. PICK n \in NumID : Answered(t, n)
      BY <2>4, CurrentType DEF FindKnown, TypeOK
    <3>2. QED
      BY <2>3, <2>4, <3>1 DEF FindKnown
  <2>5. CASE FindNew(t) \/ FindTorn(t)
    BY <2>3, <2>5 DEF FindNew, FindTorn, TypeOK
  <2>6. CASE Reply(t)
    <3>1. request'[t] = EmptyQuery /\ response'[t] = EmptyResult
      BY <1>1, <2>6 DEF Reply
    <3>2. /\ Len(EmptyResult.ids) <= Len(EmptyQuery.strings)
          /\ Len(EmptyResult.strings) <= Len(EmptyQuery.ids)
      BY <1>2 DEF EmptyQuery, EmptyResult
    <3>3. QED
      BY <1>1, <2>6, <3>1, <3>2 DEF Reply
  <2>7. CASE Exit(t)
    BY <1>4, <2>7 DEF Exit
  <2>8. QED
    BY <1>5, <2>1, <2>2, <2>4, <2>5, <2>6, <2>7 DEF QueryStep
<1>6. ASSUME NEW t \in Threads, Load(t) PROVE ShapeInv'
  <2>1. CASE t # Main \/ ~LoadThrow(t)
    BY <1>1, <1>6, <2>1 DEF Load, OpenIterator, LoadRecord, LoadDone,
       LoadThrow, LoadTruncated
  <2>2. CASE t = Main /\ LoadThrow(t)
    BY <1>4, <2>2 DEF LoadThrow
  <2>3. QED
    BY <2>1, <2>2
<1>7. ASSUME NEW t \in Workers, Unload(t) \/ SetDisabled(t) PROVE ShapeInv'
  BY <1>1, <1>7 DEF Unload, SetDisabled
<1>8. ASSUME NEW t \in Workers, ClientCall(t) PROVE ShapeInv'
  <2>1. ASSUME NEW q \in Requests, CallQuery(t, q) PROVE ShapeInv'
    <3>1. Len(q.strings) \in Nat /\ Len(q.ids) \in Nat
      BY EnvironmentAssumption, LenProperties DEF Query
    <3>2. response[t] = EmptyResult
      BY <2>1 DEF CallQuery
    <3>3. QED
      BY <1>1, <1>2, <2>1, <3>1, <3>2 DEF CallQuery, EmptyResult
  <2>2. CASE CallDisable(t) \/ CallEnable(t)
    BY <1>1, <2>2 DEF CallDisable, CallEnable
  <2>3. QED
    BY <1>8, <2>1, <2>2 DEF ClientCall
<1>9. CASE Operator \/ ServeWithoutLoad
  BY <1>1, <1>4, <1>9 DEF Operator, ServeWithoutLoad, Start, Shutdown, Kill,
     Sync, PowerLoss
<1>10. CASE UNCHANGED vars \/ Tear \/ Crash
  BY <1>4, <1>10 DEF vars, Tear, Crash
<1>11. QED
  BY <1>5, <1>6, <1>7, <1>8, <1>9, <1>10
     DEF Next, WorkerStep, AdminStep, MainStep, Threads

(***************************************************************************)
(* The variables keep their types, and the pairs that an answer claims to  *)
(* its client exist, whatever fails and however the calls interleave.      *)
(***************************************************************************)
THEOREM TypeCorrect == Spec => [](TypeOK /\ ShapeInv)
<1>1. Init => TypeOK
  BY EmptyTypes, ThreadAssumption, EnvironmentAssumption
     DEF Init, TypeOK, Threads, MainLabels, WorkerLabels
<1>2. Init => ShapeInv
  BY DEF Init, ShapeInv, EmptyResult, EmptyQuery
<1>3. TypeOK /\ ShapeInv /\ [Next]_vars => (TypeOK /\ ShapeInv)'
  BY TypeStep, ShapeStep
<1>4. QED
  BY <1>1, <1>2, <1>3, PTL DEF Spec

-----------------------------------------------------------------------------
(***************************************************************************)
(* Mutual exclusion.                                                       *)
(***************************************************************************)

(***************************************************************************)
(* Every step keeps the mutex with the worker that is inside query_impl.   *)
(***************************************************************************)
LEMMA LockStep == TypeOK /\ LockInv /\ [Next]_vars => LockInv'
<1> SUFFICES ASSUME TypeOK, LockInv, [Next]_vars PROVE LockInv'
  OBVIOUS
<1> USE ThreadAssumption DEF LockInv, Serving, Goto, Leave, storage, service, call, loader
<1>1. /\ \A u \in Workers : u \in Threads /\ u # Main /\ u # None
      /\ Main \in Threads
      /\ pc \in [Threads -> MainLabels \cup WorkerLabels]
      /\ mutex \in Workers \cup {None}
  BY DEF TypeOK, Threads
<1>2. ASSUME Halt PROVE LockInv'
  BY <1>1, <1>2 DEF Halt
<1>3. ASSUME NEW t \in Workers, QueryStep(t) PROVE LockInv'
  <2>1. CASE Lock(t) \/ Admit(t) \/ FindKnown(t) \/ FindNew(t) \/ FindTorn(t) \/ Reply(t)
    BY <1>1, <2>1 DEF Lock, Admit, FindKnown, FindNew, FindTorn, Reply
  <2>2. CASE Lookup(t) \/ LookupThrow(t) \/ Refuse(t) \/ PassThrough(t)
    BY <1>1, <2>2 DEF Lookup, LookupThrow, Refuse, PassThrough
  <2>3. CASE FindThrow(t) \/ Write(t) \/ WriteThrow(t)
    BY <1>1, <2>3 DEF FindThrow, Write, WriteThrow
  <2>4. CASE Exit(t)
    BY <1>2, <2>4 DEF Exit
  <2>5. QED
    BY <1>3, <2>1, <2>2, <2>3, <2>4 DEF QueryStep
<1>4. ASSUME NEW t \in Threads, Load(t) PROVE LockInv'
  <2>1. CASE t # Main \/ ~LoadThrow(t)
    BY <1>1, <1>4, <2>1 DEF Load, OpenIterator, LoadRecord, LoadDone,
       LoadThrow, LoadTruncated, Threads
  <2>2. CASE t = Main /\ LoadThrow(t)
    BY <1>2, <2>2 DEF LoadThrow
  <2>3. QED
    BY <2>1, <2>2
<1>5. ASSUME NEW t \in Workers,
             \/ Unload(t) \/ SetDisabled(t) \/ CallDisable(t) \/ CallEnable(t)
             \/ \E q \in Requests : CallQuery(t, q)
      PROVE  LockInv'
  BY <1>1, <1>5 DEF Unload, SetDisabled, CallDisable, CallEnable, CallQuery
<1>6. CASE Operator \/ ServeWithoutLoad
  BY <1>1, <1>2, <1>6 DEF Operator, ServeWithoutLoad, Start, Shutdown, Kill,
     Sync, PowerLoss
<1>7. CASE UNCHANGED vars \/ Tear \/ Crash
  BY <1>2, <1>7 DEF vars, Tear, Crash
<1>8. QED
  BY <1>3, <1>4, <1>5, <1>6, <1>7
     DEF Next, WorkerStep, AdminStep, MainStep, ClientCall, Threads

(***************************************************************************)
(* The mutex is held exactly by the worker inside query_impl, so at most   *)
(* one worker is there: every path out, the throwing ones too, releases    *)
(* it, and the administrative calls never take it.                         *)
(***************************************************************************)
THEOREM MutexHeldInside == Spec => []LockInv
<1>1. Init => LockInv
  BY ThreadAssumption DEF Init, LockInv, Serving, Threads
<1>2. TypeOK /\ LockInv /\ [Next]_vars => LockInv'
  BY LockStep
<1>3. QED
  BY <1>1, <1>2, TypeCorrect, PTL DEF Spec

-----------------------------------------------------------------------------
(***************************************************************************)
(* Recorded ids are never reassigned.                                      *)
(***************************************************************************)

(***************************************************************************)
(* What the next theorems need of the environment.  WholeLoads: no         *)
(* iteration of the database is cut short, the server is never started     *)
(* with -S, and the largest id is not in use.  NoLoss: nor is the database *)
(* cut back by a power loss.                                               *)
(***************************************************************************)
WholeLoads ==
  /\ "tail" \notin Faults
  /\ TRUE \notin DisableAtStart
  /\ 0 < MaxId
  /\ \A d \in InitDisks : d[MaxId] = None

NoLoss == WholeLoads /\ "power" \notin Faults

RecordsKept == \A n \in NumID : disk[n] # None => disk'[n] = disk[n]

(***************************************************************************)
(* The load loop keeps IdInv: what main has read is not above its max_id.  *)
(***************************************************************************)
LEMMA LoadKeepsIds ==
  ASSUME WholeLoads, TypeOK, LockInv, IdInv, NEW t \in Threads, Load(t)
  PROVE  IdInv' /\ disk' = disk
<1> USE ThreadAssumption, IdAssumption
    DEF NumID, Serving, Goto, storage, service, call, loader, Remaining
<1>1. /\ \A u \in Workers : u \in Threads /\ u # Main
      /\ Main \in Threads
      /\ pc \in [Threads -> MainLabels \cup WorkerLabels]
      /\ maxId \in [Threads -> NumID]
      /\ it \in [Threads -> Records]
      /\ kv \in [Workers -> Records]
      /\ cnt \in NumID
  BY DEF TypeOK, Threads
<1>2. disk' = disk
  BY DEF Load, OpenIterator, LoadRecord, LoadDone, LoadThrow, LoadTruncated
<1>3. disk'[MaxId] = None
  BY <1>2 DEF IdInv
<1>4. CASE t = Main
  <2>1. CASE LoadThrow(t)
    BY <1>1, <1>3, <1>4, <2>1 DEF LoadThrow, Halt, NoRecords, IdInv, BatchFresh,
       RecordedBelow, LoadCovers
  <2>2. pc[Main] \in {"opening", "loading"}
    BY <1>4 DEF Load, OpenIterator, LoadRecord, LoadDone, LoadThrow, LoadTruncated
  <2>3. \A u \in Workers, n \in NumID : kv[u][n] = None
    BY <2>2 DEF LockInv, IdInv, BatchFresh
  <2>4. CASE OpenIterator(t)
    BY <1>1, <1>2, <1>3, <1>4, <2>3, <2>4
       DEF OpenIterator, IdInv, BatchFresh, RecordedBelow, LoadCovers, WholeLoads
  <2>5. CASE LoadRecord(t)
    <3>1. PICK n \in NumID :
            /\ IsNext(t, n)
            /\ it' = [it EXCEPT ![t][n] = None]
            /\ maxId' = [maxId EXCEPT ![t] = IF n > @ THEN n ELSE @]
      BY <2>5 DEF LoadRecord
    <3>2. n # MaxId /\ pc' = pc /\ pc[Main] = "loading" /\ kv' = kv
      BY <1>4, <2>5, <3>1 DEF LoadRecord, IsNext, IdInv, LoadCovers
    <3>3. LoadCovers'
      <4>1. /\ it'[Main] = [it[Main] EXCEPT ![n] = None]
            /\ maxId'[Main] = IF n > maxId[Main] THEN n ELSE maxId[Main]
        BY <1>1, <1>4, <3>1
      <4>2. it[Main] \in Records /\ maxId[Main] \in NumID
        BY <1>1
      <4>3. QED
        BY <1>2, <3>2, <4>1, <4>2 DEF IdInv, LoadCovers, Records
    <3>4. QED
      <4>1. BatchFresh' /\ RecordedBelow'
        BY <2>3, <3>2 DEF BatchFresh, RecordedBelow
      <4>2. (pc[Main] = "opening" => ~disabled)'
        BY <3>2
      <4>3. QED
        BY <1>2, <1>3, <3>3, <4>1, <4>2 DEF IdInv
  <2>6. CASE LoadDone(t)
    <3>1. cnt' = maxId[Main] + 1 /\ pc' = [pc EXCEPT ![Main] = "serving"] /\ kv' = kv
      BY <1>1, <1>4, <2>6 DEF LoadDone, FirstFree, Succ, IdInv, LoadCovers
    <3>2. \A n \in NumID : disk[n] # None => n <= maxId[Main]
      BY <1>4, <2>6 DEF LoadDone, IdInv, LoadCovers
    <3>3. QED
      BY <1>1, <1>2, <1>3, <2>3, <3>1, <3>2
         DEF IdInv, BatchFresh, RecordedBelow, LoadCovers
  <2>7. ~LoadTruncated(t)
    BY DEF LoadTruncated, WholeLoads
  <2>8. QED
    BY <1>2, <2>1, <2>4, <2>5, <2>6, <2>7 DEF Load
<1>5. CASE t # Main
  <2>1. pc[Main] = "serving" /\ t \in Workers
    BY <1>5 DEF Load, OpenIterator, LoadRecord, LoadDone, LoadThrow,
       LoadTruncated, LockInv, Threads
  <2>2. /\ pc'[Main] = "serving"
        /\ cnt' = cnt /\ kv' = kv
        /\ \A u \in Workers : pc[u] = "finding" => pc'[u] = "finding"
    BY <1>1, <1>5, <2>1 DEF Load, OpenIterator, LoadRecord, LoadDone, LoadThrow,
       LoadTruncated
  <2>3. QED
    BY <1>2, <1>3, <2>1, <2>2 DEF IdInv, BatchFresh, RecordedBelow, LoadCovers
<1>6. QED
  BY <1>4, <1>5

(***************************************************************************)
(* The steps of query keep IdInv, and a batch overwrites no record: the    *)
(* holder of the mutex is the only one with a batch.                       *)
(***************************************************************************)
LEMMA QueryKeepsIds ==
  ASSUME WholeLoads, TypeOK, LockInv, IdInv, NEW t \in Workers, QueryStep(t)
  PROVE  IdInv' /\ RecordsKept
<1> USE ThreadAssumption, IdAssumption
    DEF NumID, Serving, Goto, Leave, storage, service, call, loader, RecordsKept
<1>1. /\ \A u \in Workers : u \in Threads /\ u # Main
      /\ Main \in Threads
      /\ pc \in [Threads -> MainLabels \cup WorkerLabels]
      /\ kv \in [Workers -> Records]
      /\ disk \in Records
      /\ cnt \in NumID
  BY DEF TypeOK, Threads
<1>2. pc[Main] = "serving"
  BY DEF QueryStep, Lock, Lookup, LookupThrow, Refuse, PassThrough, Admit,
     FindKnown, FindNew, FindTorn, FindThrow, Write, WriteThrow, Reply, Exit, LockInv
<1>3. CASE Lock(t) \/ Admit(t) \/ FindKnown(t) \/ FindTorn(t) \/ Reply(t)
  <2>1. CASE FindKnown(t) \/ FindTorn(t)
    BY <1>1, <1>2, <2>1 DEF FindKnown, FindTorn, IdInv, BatchFresh, RecordedBelow,
       LoadCovers
  <2>2. CASE Lock(t) \/ Admit(t) \/ Reply(t)
    BY <1>1, <1>2, <2>2 DEF Lock, Admit, Reply, IdInv, BatchFresh, RecordedBelow,
       LoadCovers
  <2>3. QED
    BY <1>3, <2>1, <2>2
<1>4. CASE Lookup(t) \/ LookupThrow(t) \/ Refuse(t) \/ PassThrough(t) \/ FindThrow(t)
  <2>1. /\ disk' = disk /\ cnt' = cnt
        /\ kv' = [kv EXCEPT ![t] = NoRecords]
        /\ pc' \in {[pc EXCEPT ![t] = "replying"], [pc EXCEPT ![t] = "exiting"]}
    BY <1>4 DEF Lookup, LookupThrow, Refuse, PassThrough, FindThrow
  <2>2. QED
    BY <1>1, <1>2, <2>1 DEF IdInv, BatchFresh, RecordedBelow, LoadCovers, NoRecords
<1>5. CASE FindNew(t)
  <2>1. /\ cnt' = cnt + 1 /\ disk' = disk /\ pc' = pc /\ pc[t] = "finding"
        /\ kv' = [kv EXCEPT ![t][cnt] = Current(t)]
    BY <1>5 DEF FindNew, Succ
  <2>2. disk[cnt] = None
    BY <1>1, <1>2 DEF IdInv, RecordedBelow
  <2>3. \A u \in Workers, n \in NumID : kv'[u][n] # None =>
          kv[u][n] # None \/ (u = t /\ n = cnt)
    <3>1. kv'[t] = [kv[t] EXCEPT ![cnt] = Current(t)]
      BY <1>1, <2>1
    <3>2. \A u \in Workers : u # t => kv'[u] = kv[u]
      BY <1>1, <2>1
    <3>3. \A n \in NumID : n # cnt => kv'[t][n] = kv[t][n]
      BY <1>1, <3>1 DEF Records
    <3>4. QED
      BY <3>2, <3>3
  <2>4. BatchFresh'
    BY <1>1, <2>1, <2>2, <2>3 DEF IdInv, BatchFresh
  <2>5. QED
    BY <1>1, <1>2, <2>1, <2>4 DEF IdInv, RecordedBelow, LoadCovers
<1>6. CASE Write(t) \/ WriteThrow(t)
  <2>1. /\ disk' = disk \/ disk' = Put(disk, kv[t])
        /\ cnt' = cnt /\ pc[t] = "finding"
        /\ kv' = [kv EXCEPT ![t] = NoRecords]
        /\ \E l \in WorkerLabels : pc' = [pc EXCEPT ![t] = l]
    BY <1>6 DEF Write, WriteThrow, WorkerLabels
  <2>2. \A n \in NumID : disk'[n] # disk[n] =>
          disk[n] = None /\ disk'[n] = kv[t][n] /\ n < cnt
    BY <1>1, <2>1 DEF Put, IdInv, BatchFresh
  <2>3. \A u \in Workers, n \in NumID : kv'[u][n] = None
    BY <1>1, <2>1 DEF IdInv, BatchFresh, LockInv, NoRecords
  <2>4. pc'[Main] = "serving"
    BY <1>1, <1>2, <2>1
  <2>5. disk'[MaxId] = None
    BY <1>1, <2>2 DEF IdInv
  <2>6. QED
    BY <1>2, <2>1, <2>2, <2>3, <2>4, <2>5
       DEF IdInv, BatchFresh, RecordedBelow, LoadCovers
<1>7. CASE Exit(t)
  BY <1>1, <1>7 DEF Exit, Halt, IdInv, BatchFresh, RecordedBelow, LoadCovers,
     NoRecords
<1>8. QED
  BY <1>3, <1>4, <1>5, <1>6, <1>7 DEF QueryStep

(***************************************************************************)
(* Every step but a power loss keeps IdInv and the records.                *)
(***************************************************************************)
LEMMA PoweredStep ==
  ASSUME WholeLoads
  PROVE  TypeOK /\ LockInv /\ IdInv /\ [Next]_vars /\ ~PowerLoss
           => IdInv' /\ RecordsKept
<1> SUFFICES ASSUME TypeOK, LockInv, IdInv, [Next]_vars, ~PowerLoss
             PROVE  IdInv' /\ RecordsKept
  OBVIOUS
<1> USE ThreadAssumption
    DEF Serving, Goto, storage, service, call, loader, RecordsKept
<1>1. /\ \A u \in Workers : u \in Threads /\ u # Main
      /\ Main \in Threads
      /\ pc \in [Threads -> MainLabels \cup WorkerLabels]
  BY DEF TypeOK, Threads
<1>2. ASSUME Halt, disk' = disk PROVE IdInv' /\ RecordsKept
  BY <1>1, <1>2 DEF Halt, IdInv, BatchFresh, RecordedBelow, LoadCovers, NoRecords
<1>3. ASSUME NEW t \in Workers, WorkerStep(t) PROVE IdInv' /\ RecordsKept
  <2>1. CASE Unload(t) \/ SetDisabled(t)
    <3>1. pc[Main] = "serving"
      BY <2>1 DEF Unload, SetDisabled, LockInv
    <3>2. QED
      BY <1>1, <2>1, <3>1 DEF Unload, SetDisabled, IdInv, BatchFresh,
         RecordedBelow, LoadCovers
  <2>2. QED
    BY <1>1, <1>3, <2>1, QueryKeepsIds, LoadKeepsIds DEF WorkerStep, AdminStep
<1>4. CASE MainStep
  <2>1. ~ServeWithoutLoad
    BY DEF ServeWithoutLoad, IdInv
  <2>2. QED
    BY <1>1, <1>4, <2>1, LoadKeepsIds DEF MainStep
<1>5. ASSUME NEW t \in Workers, ClientCall(t) PROVE IdInv' /\ RecordsKept
  BY <1>1, <1>5 DEF ClientCall, CallQuery, CallDisable, CallEnable, IdInv,
     BatchFresh, RecordedBelow, LoadCovers
<1>6. CASE Operator
  <2>1. ASSUME NEW s \in DisableAtStart, Start(s) PROVE IdInv' /\ RecordsKept
    <3>1. s = FALSE
      BY EnvironmentAssumption DEF WholeLoads
    <3>2. QED
      BY <1>1, <2>1, <3>1 DEF Start, IdInv, BatchFresh, RecordedBelow, LoadCovers
  <2>2. ASSUME Sync PROVE IdInv' /\ RecordsKept
    BY <2>2 DEF Sync, IdInv, BatchFresh, RecordedBelow, LoadCovers
  <2>3. QED
    BY <1>2, <1>6, <2>1, <2>2 DEF Operator, Shutdown, Kill
<1>7. CASE UNCHANGED vars \/ Tear
  BY <1>7 DEF vars, Tear, IdInv, BatchFresh, RecordedBelow, LoadCovers
<1>8. CASE Crash
  BY <1>2, <1>8 DEF Crash
<1>9. QED
  BY <1>3, <1>4, <1>5, <1>6, <1>7, <1>8 DEF Next

(***************************************************************************)
(* Where there is no power loss, that is every step.                       *)
(***************************************************************************)
LEMMA IdStep ==
  ASSUME NoLoss
  PROVE  TypeOK /\ LockInv /\ IdInv /\ [Next]_vars => IdInv' /\ RecordsKept
BY PoweredStep DEF NoLoss, PowerLoss

(***************************************************************************)
(* No step reassigns a recorded id or loses its record: restarts, kills,   *)
(* failing reads, writes and allocations, and administrative calls made at *)
(* any moment included.                                                    *)
(***************************************************************************)
THEOREM IdsKept ==
  ASSUME NoLoss
  PROVE  Spec => []IdInv /\ IdNeverReassigned
<1>1. Init => IdInv
  BY ThreadAssumption, IdAssumption DEF NoLoss, WholeLoads, Init, IdInv, BatchFresh,
     RecordedBelow, LoadCovers, Serving, NoRecords, Threads
<1>2. TypeOK /\ LockInv /\ IdInv /\ [Next]_vars => IdInv' /\ RecordsKept
  BY IdStep
<1>3. RecordsKept <=> \A n \in NumID : disk[n] # None => disk'[n] = disk[n]
  BY DEF RecordsKept
<1>4. QED
  BY <1>1, <1>2, <1>3, TypeCorrect, MutexHeldInside, PTL
     DEF Spec, IdNeverReassigned

(***************************************************************************)
(* Of the records that reached the device that is true after power losses  *)
(* too: until the next synchronisation the database is ahead of them, and  *)
(* never differs from them.                                                *)
(***************************************************************************)
Ahead == \A n \in NumID : stable[n] # None => disk[n] = stable[n]

SyncedStay == \A n \in NumID : stable[n] # None => stable'[n] = stable[n]

(***************************************************************************)
(* A power loss keeps IdInv, having nothing that is ahead of the database. *)
(***************************************************************************)
LEMMA SyncedStep ==
  ASSUME WholeLoads
  PROVE  TypeOK /\ LockInv /\ IdInv /\ Ahead /\ [Next]_vars
           => IdInv' /\ Ahead' /\ SyncedStay
<1> SUFFICES ASSUME TypeOK, LockInv, IdInv, Ahead, [Next]_vars
             PROVE  IdInv' /\ Ahead' /\ SyncedStay
  OBVIOUS
<1> USE DEF storage, service, call, loader
<1>1. CASE PowerLoss
  <2>1. disk' = stable /\ stable' = stable /\ Halt
    BY <1>1 DEF PowerLoss
  <2>2. Ahead' /\ SyncedStay
    BY <2>1 DEF Ahead, SyncedStay
  <2>3. stable[MaxId] = None
    BY IdAssumption DEF Ahead, IdInv, WholeLoads, NumID
  <2>4. IdInv'
    BY <2>1, <2>3, ThreadAssumption
       DEF Halt, IdInv, BatchFresh, RecordedBelow, LoadCovers, NoRecords, Serving,
           Threads
  <2> QED
    BY <2>2, <2>4
<1>2. CASE ~PowerLoss
  <2>1. IdInv' /\ RecordsKept
    BY <1>2, PoweredStep
  <2>2. CASE Sync
    BY <2>1, <2>2 DEF Sync, Ahead, SyncedStay
  <2>3. CASE ~Sync
    <3>1. stable' = stable
      BY <1>2, <2>3 DEF Next, WorkerStep, QueryStep, Lock, Lookup, LookupThrow,
         Refuse, PassThrough, Admit, FindKnown, FindNew, FindTorn, FindThrow, Write,
         WriteThrow, Reply, Exit, Tear, Crash, AdminStep, Unload, SetDisabled, Load,
         OpenIterator, LoadRecord, LoadDone, LoadThrow, LoadTruncated, ClientCall,
         CallQuery, CallDisable, CallEnable, MainStep, ServeWithoutLoad, Operator,
         Start, Shutdown, Kill, vars
    <3> QED
      BY <2>1, <3>1 DEF Ahead, SyncedStay, RecordsKept
  <2> QED
    BY <2>1, <2>2, <2>3
<1> QED
  BY <1>1, <1>2

(***************************************************************************)
(* So both hold throughout.                                                *)
(***************************************************************************)
LEMMA SyncedInv ==
  ASSUME WholeLoads
  PROVE  Spec => [](IdInv /\ Ahead)
<1>1. Init => IdInv /\ Ahead
  BY ThreadAssumption, IdAssumption DEF WholeLoads, Init, IdInv, BatchFresh,
     RecordedBelow, LoadCovers, Serving, NoRecords, Threads, Ahead
<1>2. TypeOK /\ LockInv /\ IdInv /\ Ahead /\ [Next]_vars
        => IdInv' /\ Ahead'
  BY SyncedStep
<1>3. QED
  BY <1>1, <1>2, TypeCorrect, MutexHeldInside, PTL DEF Spec

(***************************************************************************)
(* No step, power losses included, reassigns or removes a record that had  *)
(* reached the device.                                                     *)
(***************************************************************************)
THEOREM SyncedKept ==
  ASSUME WholeLoads
  PROVE  Spec => SyncedNeverReassigned
<1>1. TypeOK /\ LockInv /\ IdInv /\ Ahead /\ [Next]_vars => SyncedStay
  BY SyncedStep
<1>2. SyncedStay <=> \A n \in NumID : stable[n] # None => stable'[n] = stable[n]
  BY DEF SyncedStay
<1>3. QED
  BY <1>1, <1>2, SyncedInv, TypeCorrect, MutexHeldInside, PTL
     DEF Spec, SyncedNeverReassigned

-----------------------------------------------------------------------------
(***************************************************************************)
(* What clients are told is in the database.                               *)
(***************************************************************************)

(***************************************************************************)
(* In addition no write and no allocation fails: where one does, other     *)
(* workers answer from a memory index that is ahead of the database until  *)
(* the process has ended.                                                  *)
(***************************************************************************)
NoFailure == NoLoss /\ Faults \cap {"write", "alloc"} = {}

(***************************************************************************)
(* A recorded string stays recorded.                                       *)
(***************************************************************************)
LEMMA OnDiskKept ==
  ASSUME RecordsKept, NEW n \in NumID, NEW k
  PROVE  /\ OnDisk(n, k) => OnDisk(n, k)'
         /\ disk[n] # None => disk'[n] = disk[n]
BY DEF RecordsKept, OnDisk

(***************************************************************************)
(* Only the worker inside the loop of query_impl has a batch.              *)
(***************************************************************************)
LEMMA OneBatch ==
  ASSUME TypeOK, LockInv, IdInv, NEW t \in Workers
  PROVE  /\ pc[t] # "finding" => [kv EXCEPT ![t] = NoRecords] = kv
         /\ pc[t] = "finding" =>
              \A u \in Workers, n \in NumID : kv[u][n] # None => u = t
<1>1. kv \in [Workers -> Records]
  BY DEF TypeOK
<1>2. ASSUME pc[t] # "finding" PROVE kv[t] = NoRecords
  <2>1. \A n \in NumID : kv[t][n] = None
    BY <1>2 DEF IdInv, BatchFresh
  <2>2. QED
    BY <1>1, <2>1 DEF Records, NoRecords
<1>3. \A u \in Workers, n \in NumID : kv[u][n] # None => pc[u] = "finding"
  BY DEF IdInv, BatchFresh
<1>4. QED
  BY <1>1, <1>2, <1>3 DEF LockInv

(***************************************************************************)
(* A worker on its way to exit() goes nowhere else: the process ends.      *)
(***************************************************************************)
ExitKept == \A u \in Workers : pc[u] = "exiting" => pc'[u] = "exiting"

LEMMA StaysExiting ==
  ASSUME TypeOK, [Next]_vars
  PROVE  Halt \/ ExitKept
<1> SUFFICES ASSUME NEW t \in Workers, pc[t] = "exiting"
             PROVE  Halt \/ pc'[t] = "exiting"
  BY DEF ExitKept
<1>1. /\ t \in Threads /\ t # Main
      /\ pc \in [Threads -> MainLabels \cup WorkerLabels]
  BY ThreadAssumption DEF TypeOK, Threads
<1>2. ASSUME NEW u \in Threads, Load(u) PROVE Halt \/ pc'[t] = "exiting"
  BY <1>1, <1>2 DEF Load, OpenIterator, LoadRecord, LoadDone, LoadThrow,
     LoadTruncated, Goto
<1>3. ASSUME NEW u \in Workers, QueryStep(u) PROVE Halt \/ pc'[t] = "exiting"
  BY <1>1, <1>3 DEF QueryStep, Lock, Lookup, LookupThrow, Refuse, PassThrough,
     Admit, FindKnown, FindNew, FindTorn, FindThrow, Write, WriteThrow, Reply, Exit,
     Goto, Leave
<1>4. ASSUME NEW u \in Workers, ClientCall(u) \/ Unload(u) \/ SetDisabled(u)
      PROVE  pc'[t] = "exiting"
  BY <1>1, <1>4 DEF ClientCall, CallQuery, CallDisable, CallEnable, Unload,
     SetDisabled, Goto
<1>5. CASE ServeWithoutLoad \/ Operator \/ Tear \/ Crash \/ UNCHANGED vars
  BY <1>1, <1>5 DEF ServeWithoutLoad, Operator, Start, Shutdown, Kill, Sync,
     PowerLoss, Goto, Tear, Crash, vars
<1> QED
  BY <1>2, <1>3, <1>4, <1>5 DEF Next, WorkerStep, AdminStep, MainStep, Threads

(***************************************************************************)
(* What Backing says of a variable stays true while the variable stays.    *)
(***************************************************************************)
LEMMA BackFrame ==
  ASSUME TypeOK, ShapeInv, Backing, RecordsKept, ExitKept
  PROVE  /\ mem' = mem /\ kv' = kv => MemBacked'
         /\ it' = it => IteratorBacked'
         /\ UNCHANGED <<request, response, kv>> => IdsBacked'
         /\ UNCHANGED <<request, response>> => StringsBacked'
<1>1. ASSUME mem' = mem, kv' = kv PROVE MemBacked'
  <2>1. \A k \in Strings : mem[k] # None => mem[k] \in NumID
    BY DEF TypeOK
  <2>2. QED
    BY <1>1, <2>1, OnDiskKept DEF Backing, MemBacked, InBatch
<1>2. ASSUME it' = it PROVE IteratorBacked'
  BY <1>2, OnDiskKept DEF Backing, IteratorBacked
<1>3. \A t \in Workers :
        /\ response[t].ids \in Seq(NumID \cup {None})
        /\ request[t].ids \in Seq(NumID)
        /\ response[t].strings \in Seq(Strings)
  BY DEF TypeOK, Query, Result
<1>4. ASSUME UNCHANGED <<request, response, kv>> PROVE IdsBacked'
  <2>1. \A t \in Workers : \A i \in DOMAIN response[t].ids :
          response[t].ids[i] \in NumID \cup {None}
    BY <1>3, ElementOfSeq, LenProperties
  <2>2. QED
    BY <1>4, <2>1, OnDiskKept DEF Backing, IdsBacked, InBatch, ExitKept
<1>5. ASSUME UNCHANGED <<request, response>> PROVE StringsBacked'
  <2>1. \A t \in Workers : \A i \in DOMAIN response[t].strings :
          response[t].strings[i] \in Strings /\ request[t].ids[i] \in NumID
    BY <1>3, ElementOfSeq, LenProperties DEF ShapeInv
  <2>2. QED
    BY <1>5, <2>1, OnDiskKept, StringAssumption DEF Backing, StringsBacked
<1>6. QED
  BY <1>1, <1>2, <1>4, <1>5

(***************************************************************************)
(* A process that has ended has nothing that is not in the database.       *)
(***************************************************************************)
LEMMA HaltBacked ==
  ASSUME Halt
  PROVE  Backing'
<1>1. MemBacked' /\ IteratorBacked'
  BY DEF Halt, NoStrings, NoRecords, MemBacked, IteratorBacked
<1>2. \A t \in Workers : response'[t].ids = <<>> /\ response'[t].strings = <<>>
  BY DEF Halt, EmptyResult
<1>3. IdsBacked' /\ StringsBacked'
  BY <1>2, EmptySeq, LenProperties DEF IdsBacked, StringsBacked
<1>4. QED
  BY <1>1, <1>3 DEF Backing

(***************************************************************************)
(* The load loop puts into the index only what the database has.           *)
(***************************************************************************)
LEMMA LoadBacked ==
  ASSUME TypeOK, ShapeInv, Backing, RecordsKept, ExitKept,
         NEW t \in Threads, Load(t), disk' = disk
  PROVE  Backing'
<1> USE DEF storage, service, call, loader
<1>1. CASE OpenIterator(t)
  <2>1. IteratorBacked'
    BY <1>1 DEF OpenIterator, Backing, IteratorBacked, TypeOK
  <2>2. QED
    BY <1>1, <2>1, BackFrame DEF OpenIterator, Backing
<1>2. CASE LoadRecord(t)
  <2>1. PICK n \in NumID :
          /\ IsNext(t, n)
          /\ mem' = Indexed(it[t][n], n)
          /\ it' = [it EXCEPT ![t][n] = None]
    BY <1>2 DEF LoadRecord
  <2>2. OnDisk(n, CStr[it[t][n]])
    BY <2>1 DEF IsNext, Remaining, Backing, IteratorBacked, OnDisk
  <2>3. MemBacked'
    <3>1. CASE torn
      BY <1>2, <2>1, <3>1, BackFrame DEF LoadRecord, Indexed
    <3>2. CASE ~torn
      BY <1>2, <2>1, <2>2, <3>2
         DEF LoadRecord, Indexed, Backing, MemBacked, InBatch, OnDisk, TypeOK
    <3>3. QED
      BY <3>1, <3>2
  <2>4. \A u \in Threads, m \in NumID : it'[u][m] # None => it'[u][m] = it[u][m]
    <3>1. it \in [Threads -> Records]
      BY DEF TypeOK
    <3>2. it'[t] = [it[t] EXCEPT ![n] = None]
      BY <2>1, <3>1
    <3>3. \A u \in Threads : u # t => it'[u] = it[u]
      BY <2>1, <3>1
    <3>4. QED
      BY <3>1, <3>2, <3>3 DEF Records
  <2>5. IteratorBacked'
    BY <2>4 DEF Backing, IteratorBacked
  <2>6. QED
    BY <1>2, <2>3, <2>5, BackFrame DEF LoadRecord, Backing
<1>3. CASE LoadDone(t)
  BY <1>3, BackFrame DEF LoadDone, Backing
<1>4. CASE LoadThrow(t)
  <2>1. CASE t = Main
    BY <1>4, <2>1, HaltBacked DEF LoadThrow
  <2>2. CASE t # Main
    <3>1. IteratorBacked'
      BY <1>4, <2>2 DEF LoadThrow, Backing, IteratorBacked, NoRecords, TypeOK
    <3>2. QED
      BY <1>4, <2>2, <3>1, BackFrame DEF LoadThrow, Backing
  <2>3. QED
    BY <2>1, <2>2
<1>5. CASE LoadTruncated(t)
  <2>1. IteratorBacked'
    BY <1>5 DEF LoadTruncated, Backing, IteratorBacked, NoRecords, TypeOK
  <2>2. QED
    BY <1>5, <2>1, BackFrame DEF LoadTruncated, Backing
<1>6. QED
  BY <1>1, <1>2, <1>3, <1>4, <1>5 DEF Load

(***************************************************************************)
(* An id appended to an answer is in the database or in the worker's own   *)
(* batch.                                                                  *)
(***************************************************************************)
LEMMA AnswerBacked ==
  ASSUME TypeOK, ShapeInv, Backing, ExitKept,
         NEW t \in Workers, NEW n \in NumID \cup {None}, More(t),
         Answered(t, n), request' = request, disk' = disk, pc[t] # "exiting",
         \A u \in Workers, m \in NumID, k \in Strings :
           InBatch(u, m, k) => InBatch(u, m, k)',
         NEW s \in Strings, s = CStr[Current(t)],
         n = None \/ OnDisk(n, s) \/ InBatch(t, n, s)'
  PROVE  IdsBacked' /\ StringsBacked'
<1>1. /\ \A u \in Workers : /\ response[u].ids \in Seq(NumID \cup {None})
                            /\ request[u].strings \in Seq(Strings)
      /\ response \in [Workers -> Result]
  BY DEF TypeOK, Query, Result
<1>2. /\ response'[t].ids = Append(response[t].ids, n)
      /\ response'[t].strings = response[t].strings
      /\ response'[t].failures = response[t].failures
      /\ \A u \in Workers : u # t => response'[u] = response[u]
  BY <1>1 DEF Answered, Result
<1>3. StringsBacked'
  BY <1>2 DEF Backing, StringsBacked
<1>4. ASSUME NEW u \in Workers, NEW i \in DOMAIN response'[u].ids,
             pc[u] # "exiting", response'[u].ids[i] # None
      PROVE  \E m \in NumID, k \in Strings :
               /\ m = response'[u].ids[i] /\ k = CStr[request'[u].strings[i]]
               /\ OnDisk(m, k)' \/ InBatch(u, m, k)'
  <2>1. CASE i \in DOMAIN response[u].ids /\ response'[u].ids[i] = response[u].ids[i]
    <3>1. response[u].ids[i] \in NumID /\ request[u].strings[i] \in Strings
      BY <1>1, <1>4, <2>1, LenProperties, ElementOfSeq DEF ShapeInv
    <3>2. PICK m \in NumID, k \in Strings :
            m = response[u].ids[i] /\ k = CStr[request[u].strings[i]]
      BY <3>1, StringAssumption
    <3>3. OnDisk(m, k) \/ InBatch(u, m, k)
      BY <1>4, <2>1, <3>2 DEF Backing, IdsBacked
    <3>4. OnDisk(m, k)' \/ InBatch(u, m, k)'
      BY <3>3 DEF OnDisk
    <3>5. QED
      BY <2>1, <3>2, <3>4
  <2>2. CASE u = t /\ i = Len(response[t].ids) + 1
    <3>1. response'[u].ids[i] = n
      BY <1>1, <1>2, <2>2, AppendProperties
    <3>2. CStr[request'[u].strings[i]] = s
      BY <2>2 DEF Current
    <3>3. n \in NumID /\ (OnDisk(n, s)' \/ InBatch(t, n, s)')
      BY <1>4, <2>2, <3>1 DEF OnDisk
    <3>4. QED
      BY <2>2, <3>1, <3>2, <3>3
  <2>3. CASE u = t /\ i # Len(response[t].ids) + 1
    <3>1. i \in 1..Len(response[t].ids)
      BY <1>1, <1>2, <2>3, AppendProperties, LenProperties
    <3>2. QED
      BY <1>1, <1>2, <2>1, <2>3, <3>1, AppendProperties, LenProperties
  <2>4. CASE u # t
    BY <1>2, <2>1, <2>4
  <2>5. QED
    BY <2>2, <2>3, <2>4
<1>5. IdsBacked'
  BY <1>4 DEF IdsBacked, OnDisk, InBatch, ExitKept
<1>6. QED
  BY <1>3, <1>5

(***************************************************************************)
(* What an answer claims is in the database.                               *)
(***************************************************************************)
LEMMA ClaimsOnDisk ==
  ASSUME TypeOK, ShapeInv, LockInv, IdInv, Backing, NEW t \in Workers,
         pc[t] = "replying"
  PROVE  \A p \in Claims(t) : p \in Strings \X NumID /\ OnDisk(p[2], CStr[p[1]])
<1>1. Claims(t) \subseteq Strings \X NumID
  BY ClaimsType
<1>2. /\ response[t].ids \in Seq(NumID \cup {None})
      /\ response[t].strings \in Seq(Strings)
  BY DEF TypeOK, Result
<1>3. \A i \in DOMAIN response[t].ids : response[t].ids[i] # None =>
        OnDisk(response[t].ids[i], CStr[request[t].strings[i]])
  <2>1. \A n \in NumID : kv[t][n] = None
    BY DEF IdInv, BatchFresh
  <2>2. QED
    BY <1>2, <2>1, ElementOfSeq, LenProperties DEF Backing, IdsBacked, InBatch
<1>4. \A i \in DOMAIN response[t].strings :
        i - 1 \notin response[t].failures =>
          OnDisk(request[t].ids[i], CStr[response[t].strings[i]])
  <2>1. \A i \in DOMAIN response[t].strings : response[t].strings[i] # None
    BY <1>2, ElementOfSeq, LenProperties, StringAssumption
  <2>2. QED
    BY <2>1 DEF Backing, StringsBacked, OnDisk
<1>5. ASSUME NEW p \in Claims(t) PROVE OnDisk(p[2], CStr[p[1]])
  BY <1>3, <1>4 DEF Claims
<1>6. QED
  BY <1>1, <1>5

(***************************************************************************)
(* The steps of query keep Backing: the index is ahead of the database     *)
(* only by the batch of the worker that holds the mutex.                   *)
(***************************************************************************)
LEMMA QueryBacked ==
  ASSUME TypeOK, ShapeInv, LockInv, IdInv, Backing, RecordsKept,
         ExitKept, NEW t \in Workers, QueryStep(t), FindThrow(t) => torn,
         ~WriteThrow(t)
  PROVE  Backing'
<1> USE DEF storage, service, call, loader, Leave
<1>1. /\ kv \in [Workers -> Records]
      /\ response \in [Workers -> Result]
      /\ mem \in [Strings -> NumID \cup {None}]
      /\ cnt \in NumID
      /\ \A u \in Workers : request[u].ids \in Seq(NumID)
  BY DEF TypeOK, Query
<1>2. CASE Lock(t) \/ Admit(t)
  BY <1>2, BackFrame DEF Lock, Admit, Backing
<1>3. CASE LookupThrow(t) \/ Refuse(t) \/ PassThrough(t)
  BY <1>3, BackFrame, OneBatch DEF LookupThrow, Refuse, PassThrough, Backing
<1>4. CASE Lookup(t)
  <2> DEFINE ids == request[t].ids
             strs == [i \in DOMAIN ids |-> Found(ids[i])]
             fails == {i - 1 : i \in {j \in DOMAIN ids : disk[ids[j]] = None}}
  <2>1. /\ response'[t].strings = strs
        /\ response'[t].failures = fails
        /\ \A u \in Workers : response'[u].ids = response[u].ids
        /\ \A u \in Workers : u # t => response'[u] = response[u]
        /\ request' = request /\ disk' = disk /\ kv' = kv
    BY <1>1, <1>4, OneBatch DEF Lookup, Result
  <2>2. ASSUME NEW i \in DOMAIN strs, i - 1 \notin fails
        PROVE  disk[ids[i]] = strs[i]
    BY <2>2 DEF Found
  <2>3. StringsBacked'
    BY <2>1, <2>2 DEF Backing, StringsBacked
  <2>4. IdsBacked'
    BY <2>1 DEF Backing, IdsBacked, OnDisk, InBatch, ExitKept
  <2>5. QED
    BY <1>4, <2>1, <2>3, <2>4, BackFrame DEF Lookup, Backing
<1>5. CASE FindKnown(t)
  <2>1. PICK s \in Strings, n \in NumID :
          s = CStr[Current(t)] /\ n = mem[s] /\ Answered(t, n)
    BY <1>1, <1>5, CurrentType DEF FindKnown
  <2>2. OnDisk(n, s) \/ InBatch(t, n, s)
    BY <1>5, <2>1, OneBatch, StringAssumption, IdAssumption
       DEF FindKnown, Backing, MemBacked, InBatch
  <2>3. /\ kv' = kv /\ disk' = disk /\ request' = request /\ More(t)
        /\ pc[t] # "exiting"
    BY <1>5 DEF FindKnown
  <2>4. IdsBacked' /\ StringsBacked'
    BY <2>1, <2>2, <2>3, AnswerBacked DEF InBatch
  <2>5. QED
    BY <1>5, <2>3, <2>4, BackFrame DEF FindKnown, Backing
<1>6. CASE FindNew(t)
  <2>1. PICK s \in Strings, c \in NumID : s = CStr[Current(t)] /\ c = cnt
    BY <1>1, <1>6, CurrentType DEF FindNew
  <2>2. /\ kv' = [kv EXCEPT ![t][c] = Current(t)]
        /\ mem' = IF torn THEN mem ELSE [mem EXCEPT ![s] = c]
        /\ disk' = disk /\ request' = request /\ More(t) /\ Answered(t, c)
        /\ Current(t) \in Strings /\ pc[t] # "exiting"
    BY <1>6, <2>1, CurrentType DEF FindNew, Indexed
  <2>3. kv[t][c] = None
    BY <1>1, <2>1, IdAssumption DEF IdInv, BatchFresh, NumID
  <2>4. InBatch(t, c, s)'
    <3>1. kv'[t] = [kv[t] EXCEPT ![c] = Current(t)] /\ kv[t] \in Records
      BY <1>1, <2>2
    <3>2. kv'[t][c] = Current(t)
      BY <3>1 DEF Records
    <3>3. QED
      BY <2>1, <2>2, <3>2, StringAssumption DEF InBatch
  <2>5. ASSUME NEW u \in Workers, NEW m \in NumID, NEW k \in Strings,
               InBatch(u, m, k)
        PROVE  InBatch(u, m, k)'
    <3>1. kv'[t] = [kv[t] EXCEPT ![c] = Current(t)] /\ kv[t] \in Records
      BY <1>1, <2>2
    <3>2. u # t => kv'[u] = kv[u]
      BY <1>1, <2>2
    <3>3. QED
      BY <2>3, <2>5, <3>1, <3>2 DEF InBatch, Records
  <2>6. IdsBacked' /\ StringsBacked'
    BY <2>1, <2>2, <2>4, <2>5, AnswerBacked
  <2>7. ASSUME NEW k \in Strings, NEW n \in NumID, mem'[k] = n
        PROVE  OnDisk(n, k)' \/ \E u \in Workers : InBatch(u, n, k)'
    <3>1. CASE k = s /\ ~torn
      <4>1. n = c
        BY <1>1, <2>2, <2>7, <3>1
      <4>2. QED
        BY <2>4, <3>1, <4>1
    <3>2. CASE k # s \/ torn
      <4>1. OnDisk(n, k) \/ \E u \in Workers : InBatch(u, n, k)
        BY <1>1, <2>2, <2>7, <3>2, IdAssumption DEF Backing, MemBacked
      <4>2. QED
        BY <2>2, <2>5, <4>1 DEF OnDisk
    <3>3. QED
      BY <3>1, <3>2
  <2>8. MemBacked'
    <3>1. mem' \in [Strings -> NumID \cup {None}]
      BY <1>1, <2>2
    <3>2. QED
      BY <2>7, <3>1 DEF MemBacked, OnDisk, InBatch
  <2>9. QED
    BY <1>6, <2>6, <2>8, BackFrame DEF FindNew, Backing
<1>7. CASE Write(t)
  <2>1. /\ disk' = Put(disk, kv[t]) /\ kv' = [kv EXCEPT ![t] = NoRecords]
        /\ pc[t] = "finding"
    BY <1>7 DEF Write
  <2>2. ASSUME NEW u \in Workers, NEW n \in NumID, NEW k \in Strings,
               InBatch(u, n, k)
        PROVE  OnDisk(n, k)'
    BY <2>1, <2>2, OneBatch DEF InBatch, OnDisk, Put
  <2>3. MemBacked'
    <3>1. ASSUME NEW k \in Strings, NEW n \in NumID, mem[k] = n
          PROVE  OnDisk(n, k)'
      BY <2>2, <3>1, OnDiskKept, IdAssumption DEF Backing, MemBacked
    <3>2. QED
      BY <1>1, <1>7, <3>1 DEF Write, MemBacked, OnDisk
  <2>4. IdsBacked'
    <3>1. ASSUME NEW u \in Workers, NEW i \in DOMAIN response[u].ids,
                 pc[u] # "exiting", response[u].ids[i] # None
          PROVE  \E n \in NumID, k \in Strings :
                   /\ n = response[u].ids[i] /\ k = CStr[request[u].strings[i]]
                   /\ OnDisk(n, k)'
      <4>1. response[u].ids[i] \in NumID /\ request[u].strings[i] \in Strings
        BY <3>1, ElementOfSeq, LenProperties DEF TypeOK, Result, Query, ShapeInv
      <4>2. PICK n \in NumID, k \in Strings :
              n = response[u].ids[i] /\ k = CStr[request[u].strings[i]]
        BY <4>1, StringAssumption
      <4>3. OnDisk(n, k) \/ InBatch(u, n, k)
        BY <3>1, <4>2 DEF Backing, IdsBacked
      <4>4. QED
        BY <2>2, <4>2, <4>3, OnDiskKept
    <3>2. QED
      BY <1>7, <3>1 DEF Write, IdsBacked, OnDisk, ExitKept
  <2>5. QED
    BY <1>7, <2>3, <2>4, BackFrame DEF Write, Backing
<1>8. CASE Reply(t)
  <2>1. MemBacked' /\ IteratorBacked'
    BY <1>8, BackFrame DEF Reply, Backing
  <2>2. /\ response'[t].ids = <<>> /\ response'[t].strings = <<>>
        /\ \A u \in Workers : u # t => /\ response'[u] = response[u]
                                       /\ request'[u] = request[u]
        /\ disk' = disk /\ kv' = kv
    BY <1>1, <1>8 DEF Reply, EmptyResult, TypeOK
  <2>3. IdsBacked' /\ StringsBacked'
    BY <2>2, EmptySeq, LenProperties
       DEF Backing, IdsBacked, StringsBacked, OnDisk, InBatch, ExitKept
  <2>4. QED
    BY <2>1, <2>3 DEF Backing
<1>9. CASE Exit(t)
  BY <1>9, HaltBacked DEF Exit
<1>10. CASE FindTorn(t)
  <2>1. PICK s \in Strings : s = CStr[Current(t)]
    BY <1>10, CurrentType DEF FindTorn
  <2>2. /\ kv' = kv /\ disk' = disk /\ request' = request /\ More(t)
        /\ Answered(t, None) /\ pc[t] # "exiting"
    BY <1>10 DEF FindTorn
  <2>3. IdsBacked' /\ StringsBacked'
    BY <2>1, <2>2, AnswerBacked DEF InBatch
  <2>4. QED
    BY <1>10, <2>2, <2>3, BackFrame DEF FindTorn, Backing
<1>11. CASE FindThrow(t)
  <2>1. mem' = NoStrings
    BY <1>11 DEF FindThrow, TypeOK
  <2>2. MemBacked'
    BY <2>1 DEF MemBacked, NoStrings
  <2>3. IdsBacked'
    <3>1. /\ pc'[t] = "exiting"
          /\ \A u \in Workers : u # t => kv'[u] = kv[u]
          /\ request' = request /\ response' = response /\ disk' = disk
      BY <1>1, <1>11 DEF FindThrow, Goto, TypeOK, Threads
    <3>2. QED
      BY <3>1 DEF Backing, IdsBacked, OnDisk, InBatch, ExitKept
  <2>4. QED
    BY <1>11, <2>2, <2>3, BackFrame DEF FindThrow, Backing
<1>12. QED
  BY <1>2, <1>3, <1>4, <1>5, <1>6, <1>7, <1>8, <1>9, <1>10, <1>11 DEF QueryStep

(***************************************************************************)
(* Every step keeps it, unless a write or an allocation fails in it.  (An  *)
(* exception of a torn index loses only a batch that nothing refers to.)   *)
(***************************************************************************)
Fails == \E t \in Workers : (FindThrow(t) /\ ~torn) \/ WriteThrow(t)

LEMMA BackStep ==
  ASSUME TypeOK, ShapeInv, LockInv, IdInv, Backing, RecordsKept \/ PowerLoss,
         [Next]_vars, ~Fails
  PROVE  Backing'
<1> USE DEF storage, service, call, loader
<1>0. CASE PowerLoss
  BY <1>0, HaltBacked DEF PowerLoss
<1> SUFFICES ASSUME ~PowerLoss, ExitKept PROVE Backing'
  BY <1>0, StaysExiting, HaltBacked
<1> RecordsKept
  OBVIOUS
<1>1. ASSUME NEW t \in Threads, Load(t) PROVE Backing'
  <2>1. disk' = disk
    BY <1>1 DEF Load, OpenIterator, LoadRecord, LoadDone, LoadThrow, LoadTruncated
  <2>2. QED
    BY <1>1, <2>1, LoadBacked
<1>2. ASSUME NEW t \in Workers, WorkerStep(t) PROVE Backing'
  <2>1. CASE QueryStep(t)
    BY <2>1, QueryBacked DEF Fails
  <2>2. CASE Unload(t)
    <3>1. MemBacked'
      BY <2>2 DEF Unload, MemBacked, NoStrings
    <3>2. QED
      BY <2>2, <3>1, BackFrame DEF Unload, Backing
  <2>3. CASE SetDisabled(t)
    BY <2>3, BackFrame DEF SetDisabled, Backing
  <2>4. QED
    BY <1>1, <1>2, <2>1, <2>2, <2>3 DEF WorkerStep, AdminStep, Threads
<1>3. ASSUME NEW t \in Workers, CallDisable(t) \/ CallEnable(t) PROVE Backing'
  BY <1>3, BackFrame DEF CallDisable, CallEnable, Backing
<1>4. ASSUME NEW t \in Workers, NEW q \in Requests, CallQuery(t, q) PROVE Backing'
  <2>1. /\ response' = response /\ kv' = kv /\ disk' = disk
        /\ response[t] = EmptyResult
        /\ \A u \in Workers : u # t => request'[u] = request[u]
    BY <1>4 DEF CallQuery, ShapeInv, TypeOK
  <2>2. response[t].ids = <<>> /\ response[t].strings = <<>>
    BY <2>1 DEF EmptyResult
  <2>3. IdsBacked' /\ StringsBacked'
    BY <2>1, <2>2, EmptySeq, LenProperties
       DEF Backing, IdsBacked, StringsBacked, OnDisk, InBatch, ExitKept
  <2>4. QED
    BY <1>4, <2>3, BackFrame DEF CallQuery, Backing
<1>5. CASE MainStep
  BY <1>1, <1>5, BackFrame DEF MainStep, ServeWithoutLoad, Backing, Threads
<1>6. CASE Operator
  BY <1>6, BackFrame, HaltBacked
     DEF Operator, Start, Shutdown, Kill, Sync, Backing
<1>7. CASE UNCHANGED vars
  BY <1>7, BackFrame DEF vars, Backing
<1>8. CASE Tear
  <2>1. MemBacked'
    BY <1>8 DEF Tear, MemBacked, NoStrings
  <2>2. QED
    BY <1>8, <2>1, BackFrame DEF Tear, Backing
<1>9. CASE Crash
  BY <1>9, HaltBacked DEF Crash
<1>10. QED
  BY <1>2, <1>3, <1>4, <1>5, <1>6, <1>7, <1>8, <1>9 DEF Next, ClientCall

(***************************************************************************)
(* Init establishes the invariants.                                        *)
(***************************************************************************)
LEMMA BackInit == Init => Backing
<1> SUFFICES ASSUME Init PROVE Backing
  OBVIOUS
<1>1. MemBacked /\ IteratorBacked
  BY DEF Init, MemBacked, NoStrings, IteratorBacked, NoRecords
<1>2. \A t \in Workers : response[t].ids = <<>> /\ response[t].strings = <<>>
  BY DEF Init, EmptyResult
<1>3. IdsBacked /\ StringsBacked
  BY <1>2, EmptySeq, LenProperties DEF IdsBacked, StringsBacked
<1>4. QED
  BY <1>1, <1>3 DEF Backing

(***************************************************************************)
(* Only a reply tells a client something.                                  *)
(***************************************************************************)
LEMMA OnlyRepliesTell ==
  ASSUME [Next]_vars
  PROVE  told' = told \/ \E t \in Workers : Reply(t)
BY DEF Next, WorkerStep, QueryStep, Lock, Lookup, LookupThrow, Refuse,
   PassThrough, Admit, FindKnown, FindNew, FindTorn, FindThrow, Write, WriteThrow,
   Exit, Tear, Crash, AdminStep, Unload, SetDisabled, Load, OpenIterator, LoadRecord,
   LoadDone, LoadThrow, LoadTruncated, ClientCall, CallQuery, CallDisable,
   CallEnable, MainStep, ServeWithoutLoad, Operator, Start, Shutdown, Kill,
   Sync, PowerLoss, Halt, vars, storage, service, call, loader

(***************************************************************************)
(* A reply tells what is in the database, and what was told stays there.   *)
(***************************************************************************)
LEMMA ToldStep ==
  ASSUME IndInv, RecordsKept, [Next]_vars
  PROVE  ToldOnDisk'
<1>1. \A p \in told : OnDisk(p[2], CStr[p[1]])'
  BY OnDiskKept DEF IndInv, BackInv, ToldOnDisk, TypeOK
<1>2. ASSUME NEW t \in Workers, Reply(t) PROVE ToldOnDisk'
  <2>1. \A p \in Claims(t) : OnDisk(p[2], CStr[p[1]])'
    BY <1>2, ClaimsOnDisk DEF IndInv, BackInv, Reply, OnDisk, storage
  <2> QED
    BY <1>1, <1>2, <2>1 DEF Reply, ToldOnDisk
<1> QED
  BY <1>1, <1>2, OnlyRepliesTell DEF ToldOnDisk

(***************************************************************************)
(* All of the inductive invariant: the index that answers and the answers  *)
(* that are being built are backed by the database or by the batch that    *)
(* the holder of the mutex is about to write.  Calls of the memory storage *)
(* that meet make the index torn: it is not assumed to be backed then, nor *)
(* are the ids that are read from it, but every new id is.                 *)
(***************************************************************************)
THEOREM Backed ==
  ASSUME NoFailure
  PROVE  Spec => []IndInv
<1> NoLoss
  BY DEF NoFailure
<1>1. Init => BackInv
  BY BackInit DEF BackInv, Init, ToldOnDisk
<1>2. TypeOK /\ LockInv /\ IdInv /\ [Next]_vars => RecordsKept
  BY IdStep
<1>3. IndInv /\ RecordsKept /\ [Next]_vars => BackInv'
  <2> SUFFICES ASSUME IndInv, RecordsKept, [Next]_vars PROVE BackInv'
    OBVIOUS
  <2>1. ~Fails
    BY DEF NoFailure, Fails, FindThrow, WriteThrow
  <2> QED
    BY <2>1, BackStep, ToldStep DEF IndInv, BackInv
<1>4. TypeOK /\ ShapeInv /\ LockInv /\ IdInv /\ BackInv <=> IndInv
  BY DEF IndInv
<1>5. Spec => [](TypeOK /\ ShapeInv) /\ []LockInv /\ []IdInv
  BY TypeCorrect, MutexHeldInside, IdsKept, PTL
<1>6. QED
  BY <1>1, <1>2, <1>3, <1>4, <1>5, PTL DEF Spec

(***************************************************************************)
(* A client is told only what the database holds, although the index that  *)
(* answers it is updated first and the administrative calls empty and      *)
(* refill that index beside it.  Left out are the ids read from an index in *)
(* which two calls have met (Claims): of those nothing holds.  That meeting *)
(* spoils nothing else, in this process or the next.                       *)
(***************************************************************************)
THEOREM ToldIsOnDisk ==
  ASSUME NoFailure
  PROVE  Spec => []ToldOnDisk
<1>1. IndInv => ToldOnDisk
  BY DEF IndInv, BackInv
<1>2. QED
  BY <1>1, Backed, PTL

(***************************************************************************)
(* So once a failure has made a worker exit, one is on its way there or    *)
(* the process has ended.                                                  *)
(***************************************************************************)
LEMMA ExitsOnly ==
  ASSUME TypeOK, Exiting, [Next]_vars
  PROVE  Exiting' \/ Backing'
BY StaysExiting, HaltBacked DEF Exiting, ExitKept

(***************************************************************************)
(* An answer that goes out is of records, after power losses and failing   *)
(* writes and allocations too, as long as no worker is on its way to       *)
(* exit().  The index and the answers are backed until one is, and are     *)
(* gone when it gets there.  (Ids read from a torn index are no claims.)   *)
(***************************************************************************)
THEOREM AnswersAreRecorded ==
  ASSUME WholeLoads
  PROVE  Spec => []AnswersRecorded
<1>1. Init => Exiting \/ Backing
  BY BackInit
<1>2. /\ TypeOK /\ ShapeInv /\ LockInv /\ IdInv
      /\ Exiting \/ Backing
      /\ [Next]_vars
      => (Exiting \/ Backing)'
  <2> SUFFICES ASSUME TypeOK, ShapeInv, LockInv, IdInv, Exiting \/ Backing, [Next]_vars
               PROVE  (Exiting \/ Backing)'
    OBVIOUS
  <2>1. CASE Exiting
    BY <2>1, ExitsOnly
  <2>2. CASE Fails
    <3>1. \E t \in Workers : pc'[t] = "exiting"
      BY <2>2, ThreadAssumption
         DEF Fails, FindThrow, WriteThrow, Leave, Goto, TypeOK, Threads
    <3> QED
      BY <3>1 DEF Exiting
  <2>3. CASE Backing /\ ~Fails
    BY <2>3, PoweredStep, BackStep
  <2> QED
    BY <2>1, <2>2, <2>3
<1>3. /\ TypeOK /\ ShapeInv /\ LockInv /\ IdInv
      /\ Exiting \/ Backing
      => AnswersRecorded
  BY ClaimsOnDisk DEF AnswersRecorded
<1> QED
  BY <1>1, <1>2, <1>3, SyncedInv, TypeCorrect, MutexHeldInside, PTL DEF Spec

-----------------------------------------------------------------------------
(***************************************************************************)
(* Refinement.                                                             *)
(***************************************************************************)

(***************************************************************************)
(* A step extends the database, or is an answer that the ledger justifies. *)
(***************************************************************************)
LEMMA LedgerStep ==
  ASSUME IndInv, TypeOK', RecordsKept, [Next]_vars
  PROVE  \/ /\ disk' \in [NumID -> Strings \cup {None}]
            /\ \A n \in NumID : disk[n] # None => disk'[n] = disk[n]
            /\ told' = told
         \/ Promise!Tell
<1> USE DEF storage, service, call, loader
<1>1. ASSUME NEW t \in Workers, Reply(t) PROVE Promise!Tell
  BY <1>1, ClaimsOnDisk DEF IndInv, BackInv, Reply, Promise!Tell, Promise!Justified, OnDisk
<1>2. told' = told \/ \E t \in Workers : Reply(t)
  BY OnlyRepliesTell
<1>3. QED
  BY <1>1, <1>2 DEF RecordsKept, TypeOK, Records

(***************************************************************************)
(* The server implements the ledger, whatever the administrative calls do  *)
(* beside the queries: where they meet in the memory storage, what is told *)
(* leaves out the ids read from the torn index, and the book is extended as *)
(* before.  That the ledger has one entry for each string is not part of   *)
(* this: it needs Serial, and is proved in SerialProofs.                   *)
(***************************************************************************)
THEOREM LedgerImplemented ==
  ASSUME NoFailure, Serial = FALSE
  PROVE  Spec => ImplementsLedger
<1> NoLoss
  BY DEF NoFailure
<1>1. Init => Promise!Init
  BY EnvironmentAssumption DEF Init, Promise!Init, Records
<1>2. IndInv /\ IndInv' /\ RecordsKept /\ [Next]_vars
        => [Promise!Next]_(Promise!vars)
  BY LedgerStep DEF IndInv, Promise!Next, Promise!Extend
<1>3. TypeOK /\ LockInv /\ IdInv /\ [Next]_vars => RecordsKept
  BY IdStep
<1>4. IndInv => TypeOK /\ LockInv /\ IdInv
  BY DEF IndInv
<1>5. Spec => []IndInv
  BY Backed, PTL
<1>6. QED
  BY <1>1, <1>2, <1>3, <1>4, <1>5, PTL DEF Spec, ImplementsLedger, Promise!Spec
=============================================================================
