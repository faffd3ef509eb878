----------------------------- MODULE Numerator ------------------------------
(***************************************************************************)
(* The numerator server: it gives every string a number (STR2ID) and finds *)
(* the string of a number (ID2STR).  The string -> id direction is held in *)
(* memory (memory_storage.cpp), the id -> string direction in LevelDB      *)
(* (disk_storage.cpp), and the handler (numerator.cpp) keeps the two       *)
(* together under one global mutex.  The two administrative calls,         *)
(* disable_s2i and enable_s2i, do not take that mutex.                     *)
(*                                                                         *)
(* A thread of the model is a worker of the Thrift pool or the main        *)
(* thread; a step is a stretch of code that no other thread can divide in  *)
(* a way the properties would see.  The one place where several steps are  *)
(* taken under the mutex is the loop over the strings of a STR2ID query,   *)
(* because the administrative calls run beside it.                         *)
(*                                                                         *)
(* A call of the memory storage is one step here, which module             *)
(* MemoryStorage shows of calls that take turns (ImplementsIndex).  Two    *)
(* that meet share the pointer `value` without a lock: from then on torn   *)
(* is TRUE and nothing is assumed of the index for as long as the process  *)
(* lives.                                                                  *)
(***************************************************************************)
EXTENDS Integers, Sequences, FiniteSets

CONSTANTS
  Workers,         (* threads of the Thrift pool                           *)
  Main,            (* the main thread                                      *)
  None,            (* no record, no id, no owner                           *)
  Strings,         (* the strings clients send and the database holds      *)
  EmptyString,     (* kEmptyString of disk_storage.cpp                     *)
  CStr,            (* a string as c_str() shows it: cut at the first NUL   *)
  MinId, MaxId,    (* bounds of NumID, an i64 in the code                  *)
  KeyRank,         (* LevelDB's order: bytewise on the little-endian key   *)
  Requests,        (* the queries clients send                             *)
  InitDisks,       (* databases the server may be started on               *)
  DisableAtStart,  (* values of the -S switch at a start                   *)
  Serial,          (* TRUE: an administrative call is never made while     *)
                   (* another call is in flight, nor the other way round   *)
  Faults           (* what may go wrong: a subset of FaultKinds            *)

NumID == MinId..MaxId

(***************************************************************************)
(* kill: the process dies; power: the machine loses power and the writes   *)
(* that were not yet synced; write, read: LevelDB returns an error status; *)
(* alloc: libJudy runs out of memory; tail: LevelDB's iterator stops with  *)
(* an error status and is no longer Valid.                                 *)
(***************************************************************************)
FaultKinds == {"kill", "power", "write", "read", "alloc", "tail"}

Operations == {"STR2ID", "ID2STR", "OTHER"}

Query == [op : Operations, strings : Seq(Strings), ids : Seq(NumID)]

(***************************************************************************)
(* None among the ids of an answer is an id read from a torn index: any.   *)
(***************************************************************************)
Result == [strings : Seq(Strings), ids : Seq(NumID \cup {None}),
           failures : SUBSET Nat]

Records == [NumID -> Strings \cup {None}]

ASSUME ThreadAssumption == Main \notin Workers /\ None \notin Workers

ASSUME StringAssumption ==
  /\ None \notin Strings
  /\ EmptyString \in Strings
  /\ CStr \in [Strings -> Strings]

ASSUME IdAssumption ==
  /\ MinId \in Int /\ MaxId \in Int
  /\ 0 \in NumID /\ None \notin NumID
  /\ KeyRank \in [NumID -> Int]
  /\ \A m, n \in NumID : KeyRank[m] = KeyRank[n] => m = n

ASSUME EnvironmentAssumption ==
  /\ Requests \subseteq Query
  /\ InitDisks \subseteq Records
  /\ DisableAtStart \subseteq BOOLEAN
  /\ Serial \in BOOLEAN
  /\ Faults \subseteq FaultKinds

-----------------------------------------------------------------------------

VARIABLES
  disk,      (* the LevelDB database as its readers see it                 *)
  stable,    (* the part of it that a power loss leaves                    *)
  mem,       (* MemoryStorage: the id under each C string                  *)
  torn,      (* two calls have met in it: it may hold anything             *)
  cnt,       (* the next id                                                *)
  disabled,  (* options.disable_s2i_queries                                *)
  mutex,     (* the thread that holds the global mutex, or None            *)
  pc,        (* where each thread is; Main's tells the state of the server *)
  request,   (* the query each worker is serving                           *)
  response,  (* and the answer it has built so far                         *)
  kv,        (* kv_pairs: what its STR2ID query will write                 *)
  it,        (* the records a loading thread's iterator has still to show  *)
  maxId,     (* max_id of a loading thread                                 *)
  told       (* history: the <<string, id>> pairs clients were answered    *)

storage  == <<disk, stable>>
service  == <<mem, torn, cnt, disabled>>
call     == <<request, response, kv>>
loader   == <<it, maxId>>
vars     == <<storage, service, mutex, pc, call, loader, told>>

Threads == Workers \cup {Main}

MainLabels   == {"down", "opening", "loading", "serving"}
AdminLabels  == {"unloading", "disabling", "opening", "loading"}
WorkerLabels == {"idle", "locking", "locked", "finding", "replying",
                 "exiting"} \cup AdminLabels

NoRecords  == [n \in NumID |-> None]
NoStrings  == [s \in Strings |-> None]
EmptyQuery == [op |-> "OTHER", strings |-> <<>>, ids |-> <<>>]
EmptyResult == [strings |-> <<>>, ids |-> <<>>, failures |-> {}]

TypeOK ==
  /\ disk \in Records
  /\ stable \in Records
  /\ mem \in [Strings -> NumID \cup {None}]
  /\ torn \in BOOLEAN
  /\ torn => mem = NoStrings
  /\ cnt \in NumID
  /\ disabled \in BOOLEAN
  /\ mutex \in Workers \cup {None}
  /\ pc \in [Threads -> MainLabels \cup WorkerLabels]
  /\ pc[Main] \in MainLabels
  /\ \A t \in Workers : pc[t] \in WorkerLabels
  /\ request \in [Workers -> Query]
  /\ response \in [Workers -> Result]
  /\ kv \in [Workers -> Records]
  /\ it \in [Threads -> Records]
  /\ maxId \in [Threads -> NumID]
  /\ told \subseteq Strings \X NumID

(***************************************************************************)
(* Some definitions are preceded by a faulty variant of themselves (here   *)
(* SuccStays, the variant of Succ): a mutant, never used by Next.  With it *)
(* in place of the definition a property that the README names must fail.  *)
(***************************************************************************)

(***************************************************************************)
(* i64 arithmetic of the build: the increment of the largest id wraps.     *)
(***************************************************************************)
SuccStays(n) == n

Succ(n) == IF n = MaxId THEN MinId ELSE n + 1

Goto(t, l) == pc' = [pc EXCEPT ![t] = l]

Serving == pc[Main] = "serving"

-----------------------------------------------------------------------------
(***************************************************************************)
(* The process: start, stop, death.                                        *)
(***************************************************************************)

Init ==
  /\ disk \in InitDisks
  /\ stable = disk
  /\ mem = NoStrings
  /\ torn = FALSE
  /\ cnt = 0
  /\ disabled = FALSE
  /\ mutex = None
  /\ pc = [t \in Threads |-> IF t = Main THEN "down" ELSE "idle"]
  /\ request = [t \in Workers |-> EmptyQuery]
  /\ response = [t \in Workers |-> EmptyResult]
  /\ kv = [t \in Workers |-> NoRecords]
  /\ it = [t \in Threads |-> NoRecords]
  /\ maxId = [t \in Threads |-> 0]
  /\ told = {}

(***************************************************************************)
(* The process ends: its memory is gone and so are its calls.              *)
(***************************************************************************)
Halt ==
  /\ mem' = NoStrings
  /\ torn' = FALSE
  /\ cnt' = 0
  /\ disabled' = FALSE
  /\ mutex' = None
  /\ pc' = [t \in Threads |-> IF t = Main THEN "down" ELSE "idle"]
  /\ request' = [t \in Workers |-> EmptyQuery]
  /\ response' = [t \in Workers |-> EmptyResult]
  /\ kv' = [t \in Workers |-> NoRecords]
  /\ it' = [t \in Threads |-> NoRecords]
  /\ maxId' = [t \in Threads |-> 0]
  /\ UNCHANGED told

(***************************************************************************)
(* The command line is read; s is the -S switch.                           *)
(***************************************************************************)
Start(s) ==
  /\ pc[Main] = "down"
  /\ disabled' = s
  /\ Goto(Main, "opening")
  /\ UNCHANGED <<storage, mem, torn, cnt, mutex, call, loader, told>>

(***************************************************************************)
(* With -S nothing is loaded and cnt keeps its initial value.              *)
(***************************************************************************)
ServeWithoutLoad ==
  /\ pc[Main] = "opening"
  /\ disabled
  /\ Goto(Main, "serving")
  /\ UNCHANGED <<storage, service, mutex, call, loader, told>>

(***************************************************************************)
(* A stop signal: the pool is joined when its workers are done, main       *)
(* returns.                                                                *)
(***************************************************************************)
Shutdown ==
  /\ Serving
  /\ \A t \in Workers : pc[t] = "idle"
  /\ Halt
  /\ UNCHANGED storage

Kill ==
  /\ "kill" \in Faults
  /\ pc[Main] # "down"
  /\ Halt
  /\ UNCHANGED storage

(***************************************************************************)
(* WriteOptions() leaves sync off: a write that was answered is in the     *)
(* page cache until the system writes it out.                              *)
(***************************************************************************)
Sync ==
  /\ "power" \in Faults
  /\ stable' = disk
  /\ UNCHANGED <<disk, service, mutex, pc, call, loader, told>>

PowerLoss ==
  /\ "power" \in Faults
  /\ Halt
  /\ disk' = stable
  /\ UNCHANGED stable

(***************************************************************************)
(* exit(EXIT_FAILURE) in the catch clause of query.  The mutex was         *)
(* released when the exception left query_impl: until the process is gone  *)
(* the other workers go on.                                                *)
(***************************************************************************)
Exit(t) ==
  /\ pc[t] = "exiting"
  /\ Halt
  /\ UNCHANGED storage

-----------------------------------------------------------------------------
(***************************************************************************)
(* DiskStorage::load_in_memory, run by Main at a start and by a worker in  *)
(* enable_s2i.  The iterator shows the database as it was when it was      *)
(* made, in the order of the keys' bytes.                                  *)
(***************************************************************************)

Remaining(t) == {n \in NumID : it[t][n] # None}

IsNext(t, n) ==
  n \in Remaining(t) /\ \A m \in Remaining(t) : KeyRank[n] <= KeyRank[m]

OpenIterator(t) ==
  /\ pc[t] = "opening"
  /\ t = Main => ~disabled
  /\ it' = [it EXCEPT ![t] = disk]
  /\ maxId' = [maxId EXCEPT ![t] = 0]
  /\ Goto(t, "loading")
  /\ UNCHANGED <<storage, service, mutex, call, told>>

(***************************************************************************)
(* MemoryStorage's index with id n under the string s.  The key is         *)
(* s.c_str(), and an entry that is there is overwritten.  (mem of a torn   *)
(* index is kept at NoStrings: no step reads it.)                          *)
(***************************************************************************)
Indexed(s, n) == IF torn THEN mem ELSE [mem EXCEPT ![CStr[s]] = n]

LoadRecordAgain(t) ==
  /\ pc[t] = "loading"
  /\ \E n \in NumID :
       IsNext(t, n) /\ mem' = Indexed(it[t][n], n)
  /\ UNCHANGED <<storage, torn, cnt, disabled, mutex, pc, call, loader, told>>

LoadRecord(t) ==
  /\ pc[t] = "loading"
  /\ \E n \in NumID :
       /\ IsNext(t, n)
       /\ mem' = Indexed(it[t][n], n)
       /\ it' = [it EXCEPT ![t][n] = None]
       /\ maxId' = [maxId EXCEPT ![t] = IF n > @ THEN n ELSE @]
  /\ UNCHANGED <<storage, torn, cnt, disabled, mutex, pc, call, told>>

FirstFreeIsMax(m) == m

FirstFree(m) == Succ(m)

(***************************************************************************)
(* The end of the records.  Main takes max_id + 1 for the next id;         *)
(* enable_s2i ignores max_id and clears the flag.                          *)
(***************************************************************************)
LoadDone(t) ==
  /\ pc[t] = "loading"
  /\ Remaining(t) = {}
  /\ \/ /\ t = Main
        /\ cnt' = FirstFree(maxId[Main])
        /\ Goto(t, "serving")
        /\ UNCHANGED disabled
     \/ /\ t # Main
        /\ disabled' = FALSE
        /\ Goto(t, "replying")
        /\ UNCHANGED cnt
  /\ maxId' = [maxId EXCEPT ![t] = 0]
  /\ UNCHANGED <<storage, mem, torn, mutex, call, it, told>>

(***************************************************************************)
(* An error seen inside the loop throws: the start fails, the call         *)
(* enable_s2i is answered with an exception and leaves what was loaded.    *)
(* Of a torn array Judy may report an error without any fault.             *)
(***************************************************************************)
LoadThrowEnables(t) ==
  /\ Faults \cap {"read", "alloc"} # {} \/ torn
  /\ pc[t] = "loading"
  /\ Remaining(t) # {}
  /\ t # Main
  /\ it' = [it EXCEPT ![t] = NoRecords]
  /\ maxId' = [maxId EXCEPT ![t] = 0]
  /\ disabled' = FALSE
  /\ Goto(t, "replying")
  /\ UNCHANGED <<storage, mem, torn, cnt, mutex, call, told>>

LoadThrow(t) ==
  /\ Faults \cap {"read", "alloc"} # {} \/ torn
  /\ pc[t] = "loading"
  /\ Remaining(t) # {}
  /\ \/ /\ t = Main
        /\ Halt
     \/ /\ t # Main
        /\ it' = [it EXCEPT ![t] = NoRecords]
        /\ maxId' = [maxId EXCEPT ![t] = 0]
        /\ Goto(t, "replying")
        /\ UNCHANGED <<service, mutex, call, told>>
  /\ UNCHANGED storage

(***************************************************************************)
(* An error that ends the iteration: the status is read only while the     *)
(* iterator is Valid(), so the loop ends as if there were no more records. *)
(***************************************************************************)
LoadTruncated(t) ==
  /\ "tail" \in Faults
  /\ pc[t] = "loading"
  /\ Remaining(t) # {}
  /\ it' = [it EXCEPT ![t] = NoRecords]
  /\ UNCHANGED <<storage, service, mutex, pc, call, maxId, told>>

-----------------------------------------------------------------------------
(***************************************************************************)
(* NumeratorHandler::query.                                                *)
(***************************************************************************)

CallQuery(t, q) ==
  /\ Serving
  /\ pc[t] = "idle"
  /\ Serial => \A u \in Workers : pc[u] \notin AdminLabels
  /\ request' = [request EXCEPT ![t] = q]
  /\ Goto(t, "locking")
  /\ UNCHANGED <<storage, service, mutex, response, kv, loader, told>>

LockTaken(t) ==
  /\ pc[t] = "locking"
  /\ mutex' = t
  /\ Goto(t, "locked")
  /\ UNCHANGED <<storage, service, call, loader, told>>

Lock(t) ==
  /\ pc[t] = "locking"
  /\ mutex = None
  /\ mutex' = t
  /\ Goto(t, "locked")
  /\ UNCHANGED <<storage, service, call, loader, told>>

(***************************************************************************)
(* The end of query_impl, by return or by exception: kv_pairs is destroyed *)
(* and the guard releases the mutex.                                       *)
(***************************************************************************)
LeaveLocked(t, l) ==
  /\ kv' = [kv EXCEPT ![t] = NoRecords]
  /\ Goto(t, l)
  /\ UNCHANGED mutex

Leave(t, l) ==
  /\ mutex' = None
  /\ kv' = [kv EXCEPT ![t] = NoRecords]
  /\ Goto(t, l)

FoundRaw(n) == disk[n]

Found(n) == IF disk[n] = None THEN EmptyString ELSE disk[n]

(***************************************************************************)
(* DiskStorage::lookup of every id of an ID2STR query.  Writes are made    *)
(* under the mutex, so the lookups see one database.                       *)
(***************************************************************************)
Lookup(t) ==
  /\ pc[t] = "locked"
  /\ request[t].op = "ID2STR"
  /\ LET ids == request[t].ids IN
       response' = [response EXCEPT
         ![t].strings  = [i \in DOMAIN ids |-> Found(ids[i])],
         ![t].failures = {i - 1 : i \in {j \in DOMAIN ids : disk[ids[j]] = None}}]
  /\ Leave(t, "replying")
  /\ UNCHANGED <<storage, service, request, loader, told>>

LookupThrow(t) ==
  /\ "read" \in Faults
  /\ pc[t] = "locked"
  /\ request[t].op = "ID2STR"
  /\ request[t].ids # <<>>
  /\ Leave(t, "exiting")
  /\ UNCHANGED <<storage, service, request, response, loader, told>>

(***************************************************************************)
(* STR2ID while the flag is set: NumeratorException goes to the client.    *)
(***************************************************************************)
RefuseLocked(t) ==
  /\ pc[t] = "locked"
  /\ request[t].op = "STR2ID"
  /\ disabled
  /\ LeaveLocked(t, "replying")
  /\ UNCHANGED <<storage, service, request, response, loader, told>>

Refuse(t) ==
  /\ pc[t] = "locked"
  /\ request[t].op = "STR2ID"
  /\ disabled
  /\ Leave(t, "replying")
  /\ UNCHANGED <<storage, service, request, response, loader, told>>

(***************************************************************************)
(* An op that is neither: the enum is read from the wire unchecked.        *)
(***************************************************************************)
PassThrough(t) ==
  /\ pc[t] = "locked"
  /\ request[t].op = "OTHER"
  /\ Leave(t, "replying")
  /\ UNCHANGED <<storage, service, request, response, loader, told>>

Admit(t) ==
  /\ pc[t] = "locked"
  /\ request[t].op = "STR2ID"
  /\ ~disabled
  /\ Goto(t, "finding")
  /\ UNCHANGED <<storage, service, mutex, call, loader, told>>

(***************************************************************************)
(* The loop over request.strings: one string is a MemoryStorage::find.     *)
(***************************************************************************)
More(t) == Len(response[t].ids) < Len(request[t].strings)

Current(t) == request[t].strings[Len(response[t].ids) + 1]

Answered(t, n) == response' = [response EXCEPT ![t].ids = Append(@, n)]

FindKnown(t) ==
  /\ pc[t] = "finding"
  /\ More(t)
  /\ ~torn
  /\ mem[CStr[Current(t)]] # None
  /\ Answered(t, mem[CStr[Current(t)]])
  /\ UNCHANGED <<storage, service, mutex, pc, request, kv, loader, told>>

(***************************************************************************)
(* A torn index shows some word, of whatever string.                       *)
(***************************************************************************)
FindTorn(t) ==
  /\ pc[t] = "finding"
  /\ More(t)
  /\ torn
  /\ Answered(t, None)
  /\ UNCHANGED <<storage, service, mutex, pc, request, kv, loader, told>>

(***************************************************************************)
(* The variant reads the word again for the id it returns.                 *)
(***************************************************************************)
FindNewReread(t) ==
  /\ pc[t] = "finding"
  /\ More(t)
  /\ torn \/ mem[CStr[Current(t)]] = None
  /\ cnt # MaxId
  /\ mem' = Indexed(Current(t), cnt)
  /\ cnt' = Succ(cnt)
  /\ \E n \in IF torn THEN NumID ELSE {cnt} :
       kv' = [kv EXCEPT ![t][n] = Current(t)] /\ Answered(t, n)
  /\ UNCHANGED <<storage, torn, disabled, mutex, pc, request, loader, told>>

(***************************************************************************)
(* The id that find returns is its local: it is the counter's whatever     *)
(* happens to the word.  Bound: MaxId itself is never handed out by the    *)
(* counter, so cnt does not wrap here.                                     *)
(***************************************************************************)
FindNew(t) ==
  /\ pc[t] = "finding"
  /\ More(t)
  /\ torn \/ mem[CStr[Current(t)]] = None
  /\ cnt # MaxId
  /\ mem' = Indexed(Current(t), cnt)
  /\ cnt' = Succ(cnt)
  /\ kv' = [kv EXCEPT ![t][cnt] = Current(t)]
  /\ Answered(t, cnt)
  /\ UNCHANGED <<storage, torn, disabled, mutex, pc, request, loader, told>>

FindThrow(t) ==
  /\ "alloc" \in Faults \/ torn
  /\ pc[t] = "finding"
  /\ More(t)
  /\ Leave(t, "exiting")
  /\ UNCHANGED <<storage, service, request, response, loader, told>>

(***************************************************************************)
(* DiskStorage::write: one batch, all of it or nothing.                    *)
(***************************************************************************)
Put(d, b) == [n \in NumID |-> IF b[n] = None THEN d[n] ELSE b[n]]

Write(t) ==
  /\ pc[t] = "finding"
  /\ ~More(t)
  /\ disk' = Put(disk, kv[t])
  /\ Leave(t, "replying")
  /\ UNCHANGED <<stable, service, request, response, loader, told>>

WriteThrowReplies(t) ==
  /\ "write" \in Faults
  /\ pc[t] = "finding"
  /\ ~More(t)
  /\ disk' \in {disk, Put(disk, kv[t])}
  /\ Leave(t, "replying")
  /\ UNCHANGED <<stable, service, request, response, loader, told>>

(***************************************************************************)
(* A write that reports an error may have reached the log all the same.    *)
(***************************************************************************)
WriteThrow(t) ==
  /\ "write" \in Faults
  /\ pc[t] = "finding"
  /\ ~More(t)
  /\ disk' \in {disk, Put(disk, kv[t])}
  /\ Leave(t, "exiting")
  /\ UNCHANGED <<stable, service, request, response, loader, told>>

(***************************************************************************)
(* What an answer tells the client, read as numeratorcli reads it: the     *)
(* i-th id belongs to the i-th string, and positions listed in failures    *)
(* have no string.  What was read from a torn index is left out: no        *)
(* property holds of it.                                                   *)
(***************************************************************************)
Claims(t) ==
  {<<request[t].strings[i], response[t].ids[i]>> :
     i \in {j \in DOMAIN response[t].ids : response[t].ids[j] # None}}
    \cup
  {<<response[t].strings[i], request[t].ids[i]>> :
     i \in {j \in DOMAIN response[t].strings : j - 1 \notin response[t].failures}}

(***************************************************************************)
(* The answer goes out; it may be lost with the connection.                *)
(***************************************************************************)
Reply(t) ==
  /\ pc[t] = "replying"
  /\ told' \in {told, told \cup Claims(t)}
  /\ request' = [request EXCEPT ![t] = EmptyQuery]
  /\ response' = [response EXCEPT ![t] = EmptyResult]
  /\ Goto(t, "idle")
  /\ UNCHANGED <<storage, service, mutex, kv, loader>>

-----------------------------------------------------------------------------
(***************************************************************************)
(* disable_s2i and enable_s2i: neither takes the mutex.                    *)
(***************************************************************************)

Quiet == Serial => \A u \in Workers : pc[u] = "idle"

CallDisable(t) ==
  /\ Serving
  /\ pc[t] = "idle"
  /\ Quiet
  /\ Goto(t, IF disabled THEN "replying" ELSE "unloading")
  /\ UNCHANGED <<storage, service, mutex, call, loader, told>>

Unload(t) ==
  /\ pc[t] = "unloading"
  /\ mem' = NoStrings
  /\ Goto(t, "disabling")
  /\ UNCHANGED <<storage, torn, cnt, disabled, mutex, call, loader, told>>

SetDisabled(t) ==
  /\ pc[t] = "disabling"
  /\ disabled' = TRUE
  /\ Goto(t, "replying")
  /\ UNCHANGED <<storage, mem, torn, cnt, mutex, call, loader, told>>

CallEnableEmpty(t) ==
  /\ Serving
  /\ pc[t] = "idle"
  /\ Quiet
  /\ disabled' = FALSE
  /\ Goto(t, "replying")
  /\ UNCHANGED <<storage, mem, torn, cnt, mutex, call, loader, told>>

CallEnable(t) ==
  /\ Serving
  /\ pc[t] = "idle"
  /\ Quiet
  /\ Goto(t, IF disabled THEN "opening" ELSE "replying")
  /\ UNCHANGED <<storage, service, mutex, call, loader, told>>

-----------------------------------------------------------------------------
(***************************************************************************)
(* Two threads in the memory storage at once: find under the mutex and,    *)
(* without it, unload and the insert of a load.  A thread at these labels  *)
(* is in such a call or just before it, so the two may meet and need not.  *)
(***************************************************************************)
Calling(t) ==
  \/ pc[t] = "finding" /\ More(t)
  \/ pc[t] = "loading" /\ Remaining(t) # {}
  \/ pc[t] = "unloading"

Tear ==
  /\ ~torn
  /\ \E t, u \in Threads : t # u /\ Calling(t) /\ Calling(u)
  /\ torn' = TRUE
  /\ mem' = NoStrings
  /\ UNCHANGED <<storage, cnt, disabled, mutex, pc, call, loader, told>>

(***************************************************************************)
(* A call of Judy on a torn array, or a write through a pointer into it    *)
(* after it was freed, may kill the process.                               *)
(***************************************************************************)
Crash ==
  /\ torn
  /\ Halt
  /\ UNCHANGED storage

-----------------------------------------------------------------------------

Load(t) ==
  \/ OpenIterator(t) \/ LoadRecord(t) \/ LoadDone(t)
  \/ LoadThrow(t) \/ LoadTruncated(t)

QueryStep(t) ==
  \/ Lock(t) \/ Lookup(t) \/ LookupThrow(t) \/ Refuse(t) \/ PassThrough(t)
  \/ Admit(t) \/ FindKnown(t) \/ FindNew(t) \/ FindTorn(t) \/ FindThrow(t)
  \/ Write(t) \/ WriteThrow(t) \/ Reply(t) \/ Exit(t)

AdminStep(t) == Unload(t) \/ SetDisabled(t) \/ Load(t)

WorkerStep(t) == QueryStep(t) \/ AdminStep(t)

MainStep == Load(Main) \/ ServeWithoutLoad

ClientCall(t) ==
  \/ \E q \in Requests : CallQuery(t, q)
  \/ CallDisable(t)
  \/ CallEnable(t)

Operator ==
  \/ \E s \in DisableAtStart : Start(s)
  \/ Shutdown \/ Kill \/ Sync \/ PowerLoss

Next ==
  \/ \E t \in Workers : WorkerStep(t) \/ ClientCall(t)
  \/ MainStep
  \/ Operator
  \/ Tear \/ Crash

Spec == Init /\ [][Next]_vars

(***************************************************************************)
(* A thread that can run does: the scheduler is fair to each thread.  No   *)
(* fairness is assumed of boost::mutex (a waiter may be overtaken for      *)
(* ever), of the clients, of the operator or of the faults.                *)
(***************************************************************************)
FairSpec ==
  /\ Spec
  /\ WF_vars(MainStep)
  /\ \A t \in Workers : WF_vars(WorkerStep(t))

-----------------------------------------------------------------------------
(***************************************************************************)
(* Properties.                                                             *)
(***************************************************************************)

(***************************************************************************)
(* A pair a client was answered is in the database: the id has a record,   *)
(* and the record is that string as far as c_str() shows it.  The memory   *)
(* index answers before the database does, so this is about the mutex      *)
(* being held until the batch is written.  Where calls of the memory       *)
(* storage met, it says what that cannot spoil: ids that are new, the      *)
(* strings of ids, and all that the next process answers.                  *)
(***************************************************************************)
OnDisk(n, k) == disk[n] # None /\ CStr[disk[n]] = k

ToldOnDisk == \A p \in told : OnDisk(p[2], CStr[p[1]])

(***************************************************************************)
(* An answer on its way out is of records.  Where a write or an allocation *)
(* has failed that stops being so, but only while the worker that saw it   *)
(* is on its way to exit().                                                *)
(***************************************************************************)
Exiting == \E t \in Workers : pc[t] = "exiting"

AnswersRecorded ==
  \/ Exiting
  \/ \A t \in Workers : pc[t] = "replying" =>
       \A p \in Claims(t) : OnDisk(p[2], CStr[p[1]])

(***************************************************************************)
(* In the memory storage calls take turns, as its map needs it, although   *)
(* only find is called under the mutex: where administrative calls are     *)
(* made alone, no two threads are in it at once and none ever were.        *)
(***************************************************************************)
InMemory == {"finding", "unloading", "loading"}

TakesTurns ==
  Serial => /\ ~torn
            /\ \A t, u \in Threads :
                 pc[t] \in InMemory /\ pc[u] \in InMemory => t = u

(***************************************************************************)
(* No step, a restart included, gives a recorded id to another string or   *)
(* takes its record away: the counter restored by load_in_memory is above  *)
(* every id of the database.                                               *)
(***************************************************************************)
IdNeverReassigned ==
  [][\A n \in NumID : disk[n] # None => disk'[n] = disk[n]]_vars

(***************************************************************************)
(* The same of the records that reached the device, which is all that can  *)
(* be asked where writes are not synced and the power may fail.            *)
(***************************************************************************)
SyncedNeverReassigned ==
  [][\A n \in NumID : stable[n] # None => stable'[n] = stable[n]]_vars

(***************************************************************************)
(* The database numbers no string twice: whatever was loaded, refused,     *)
(* retried or lost, the memory index that STR2ID consults had the string.  *)
(***************************************************************************)
OneIdPerString ==
  \A m, n \in NumID :
    disk[m] # None /\ disk[n] # None /\ CStr[disk[m]] = CStr[disk[n]] => m = n

(***************************************************************************)
(* While STR2ID is served and no administrative call is under way, the     *)
(* memory index has every recorded string, under its recorded id.          *)
(***************************************************************************)
MemoryComplete ==
  Serving /\ ~disabled /\ (\A t \in Workers : pc[t] \notin AdminLabels)
    => \A n \in NumID : disk[n] # None => mem[CStr[disk[n]]] = n

(***************************************************************************)
(* Clients that ask for one string twice are answered one id, whatever was *)
(* disabled and enabled in between (tests/disable-s2i-test.py:117).        *)
(***************************************************************************)
SameIdAlways ==
  \A p, q \in told : CStr[p[1]] = CStr[q[1]] => p[2] = q[2]

(***************************************************************************)
(* Whoever takes the global mutex gives it back, on every path out of      *)
(* query_impl: answer, refusal, unknown op, exception.                     *)
(***************************************************************************)
LockReleased == \A t \in Workers : (mutex = t) ~> (mutex # t)

(***************************************************************************)
(* A pool all of whose workers are busy gets one back.                     *)
(***************************************************************************)
PoolFrees ==
  (\A t \in Workers : pc[t] # "idle") ~> (\E t \in Workers : pc[t] = "idle")

(***************************************************************************)
(* disable_s2i and enable_s2i return, however many queries and other       *)
(* administrative calls run beside them.                                   *)
(***************************************************************************)
AdminReturns ==
  \A t \in Workers : (pc[t] \in AdminLabels) ~> (pc[t] = "idle")

(***************************************************************************)
(* The server implements the ledger; where administrative calls are made   *)
(* alone the ledger has one entry for each string.                         *)
(***************************************************************************)
Promise == INSTANCE Ledger WITH
  book <- disk, told <- told, Key <- CStr, Unique <- Serial

ImplementsLedger == Promise!Spec

-----------------------------------------------------------------------------
(***************************************************************************)
(* The inductive invariants behind IdNeverReassigned and ToldOnDisk.       *)
(***************************************************************************)

(***************************************************************************)
(* An answer is empty until the worker has admitted the query, and never   *)
(* longer than the query: what Claims pairs up exists.                     *)
(***************************************************************************)
ShapeInv ==
  \A t \in Workers :
    /\ pc[t] \in {"idle", "locking", "locked"} => response[t] = EmptyResult
    /\ Len(response[t].ids) <= Len(request[t].strings)
    /\ Len(response[t].strings) <= Len(request[t].ids)

(***************************************************************************)
(* The mutex is held exactly by the worker that is inside query_impl, and  *)
(* workers run only while the server serves.                               *)
(***************************************************************************)
LockInv ==
  /\ \A t \in Workers : mutex = t <=> pc[t] \in {"locked", "finding"}
  /\ ~Serving => \A t \in Workers : pc[t] = "idle"

(***************************************************************************)
(* Every recorded id is below the counter of a serving process; what a     *)
(* batch will write has ids that are not recorded; and while main loads,   *)
(* a recorded id is still to be read or is not above max_id.               *)
(***************************************************************************)
BatchFresh ==
  \A t \in Workers, n \in NumID :
    kv[t][n] # None => pc[t] = "finding" /\ n < cnt /\ disk[n] = None

RecordedBelow == Serving => \A n \in NumID : disk[n] # None => n < cnt

LoadCovers ==
  pc[Main] = "loading" =>
    /\ maxId[Main] < MaxId /\ it[Main][MaxId] = None
    /\ \A n \in NumID : disk[n] # None => it[Main][n] # None \/ n <= maxId[Main]

IdInv ==
  /\ BatchFresh
  /\ RecordedBelow
  /\ LoadCovers
  /\ disk[MaxId] = None
  /\ pc[Main] = "opening" => ~disabled

(***************************************************************************)
(* Every id the memory index holds, and every id or string of an answer,   *)
(* is in the database or in the batch that the holder of the mutex is      *)
(* about to write; an iterator shows only records that are still there.    *)
(***************************************************************************)
InBatch(t, n, k) == kv[t][n] # None /\ CStr[kv[t][n]] = k

MemBacked ==
  \A k \in Strings :
    mem[k] # None =>
      OnDisk(mem[k], k) \/ \E t \in Workers : InBatch(t, mem[k], k)

IteratorBacked ==
  \A t \in Threads, n \in NumID : it[t][n] # None => it[t][n] = disk[n]

IdsBacked ==
  \A t \in Workers : pc[t] # "exiting" => \A i \in DOMAIN response[t].ids :
    \/ response[t].ids[i] = None
    \/ OnDisk(response[t].ids[i], CStr[request[t].strings[i]])
    \/ InBatch(t, response[t].ids[i], CStr[request[t].strings[i]])

StringsBacked ==
  \A t \in Workers : \A i \in DOMAIN response[t].strings :
    i - 1 \notin response[t].failures
      => disk[request[t].ids[i]] = response[t].strings[i]

Backing ==
  /\ MemBacked
  /\ IteratorBacked
  /\ IdsBacked
  /\ StringsBacked

BackInv == Backing /\ ToldOnDisk

(***************************************************************************)
(* All of it together: inductive where neither power is lost, nor an       *)
(* iteration cut short, nor a find or a write fails, nor -S is given.      *)
(***************************************************************************)
IndInv == TypeOK /\ ShapeInv /\ LockInv /\ IdInv /\ BackInv
=============================================================================
