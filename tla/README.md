# numerator: a verification project

numerator is a service that gives strings numbers: STR2ID returns the id of a
string, a new one if the string has none, and ID2STR returns the string of an
id. This directory holds TLA+ models of it, TLC configurations that check them
and proofs that TLAPS checks. Paths below are paths of the repository.

## The system

| component | state | operations | interacts with |
|---|---|---|---|
| request handler, `numerator.cpp` 38-137 | global counter `cnt`, global `mutex`, the flag `options.disable_s2i_queries` | `query`, `disable_s2i`, `enable_s2i`, `ping` | both storages; called by the pool's threads |
| memory storage, `memory_storage.*` | a JudySL array from C strings to ids, the member `value` | `find`, `insert`, `unload` | handler, `load_in_memory` |
| disk storage, `disk_storage.*` | a LevelDB database from ids to strings | `init`, `write`, `lookup`, `load_in_memory`, `dump`, `restore` | handler, `main`, the tools |
| server process, `numerator.cpp` 184-321, `signal_handler.cpp` | the stage of the start, the thread that waits for signals, the pool and its connections, the signal mask | start (with or without `-S`), load, serve, stop on a signal, `exit` | everything |
| RPC stubs, `gen-cpp` (`gen-py` is generated from the same interface) | the messages of a connection; in the shared client sequence ids, monitors, a pending header | write and read structures, send, dispatch, answer or turn an exception into an answer, receive, hand over | handler, clients |
| clients, `numeratorcli.cpp`, `client.py` | a batch, a counter | read lines, send batches, print | RPC stubs, server process |
| tools, `numimport.cpp`, `numexport.cpp` | none | `restore`, `dump` | disk storage |
| logging, `exc.hpp` | none of interest | | |

What makes it correct:

* handler and storages together: an id, once recorded, keeps its string; a
  client is told only pairs that are recorded; a string has one id. The state
  is in three places (index, counter, database) that are updated in this order
  and rebuilt from the third.
* handler: the mutex is released on every path; administrative calls, which do
  not take it, do no harm.
* disk storage: a batch is all or nothing; loading covers every record.
* memory storage: to callers that take turns it is a map that changes in one
  step a call, failed allocations included. To callers that do not it is no map,
  but the id of a new string is still the next of the counter.
* process: after a restart the counter is above every recorded id; a signal
  ends a server that accepts, however many connections are idle.
* RPC stubs: a caller gets the answer to its own call, and the handler is asked
  what the caller asked; threads that share a client wait for each other only
  while one of them reads.
* clients: every line of the input is asked once and answers are paired with
  the right question. Tools: restore after dump gives the same database.

What is hard about it: the administrative calls run beside queries, and beside
each other in the memory storage; a failing write leaves the index ahead of the
database; the process, the machine or a load may fail at any step; answers may
be lost, and threads of one client read each other's; a signal may come before
there is anything to stop. `PROJECT.json` lists the hazards one by one with
their lines.

## Modules

| module | content |
|---|---|
| `Ledger` | what the service promises, with no implementation in it: entries are made under free ids and never change, clients are told entries |
| `Numerator` | the server: handler, both storages, start, stop, restart and faults |
| `MCNumerator` | the small instances TLC checks |
| `NumeratorProofs` | theorems about `Numerator` for all values of its constants |
| `SerialProofs` | the theorems that need administrative calls to be made alone |
| `DumpRestore` | the tools: `dump` to a file, and imports of the file with `restore` |
| `MCDumpRestore`, `DumpRestoreProofs`, `PrefixProofs` | its instance and its theorems; `PrefixProofs` is about imports that do not come to their end |
| `Index` | what the memory storage promises: a map, one step a call |
| `MemoryStorage` | `find`, `insert` and `unload` at the calls of Judy and the shared member `value` |
| `MCMemoryStorage`, `MemoryStorageProofs` | its instance and its theorems |
| `Lifecycle` | the server process: `main`, signals, `stop()`, workers bound to connections |
| `Client` | extends `Lifecycle` with the command line clients at the other ends of the connections |
| `MCClient`, `ClientProofs` | their instance and theorems |
| `Wire` | the structures of `numerator.thrift`, written and read |
| `Calls` | what the stubs promise a program: calls that are executed at most once, as asked, and end once |
| `Rpc` | extends `Wire`: one connection, both generated clients, the processor |
| `MCRpc`, `RpcProofs` | its instance and its theorems |

How they fit together. `Numerator` uses the map of `Index` as a variable, `mem`,
for as long as calls of the memory storage take turns; `MemoryStorage` shows that
they implement it then, and `TakesTurns` that the handler keeps to it where
administrative calls are made alone. Where it does not, two calls may meet: the
step `Tear` of `Numerator` is the step `Torn` of `Index`, and what follows
assumes only what `MemoryStorage` still shows. `Lifecycle` lets a query be
answered, refused or end the process, which are the ways out of `query` in
`Numerator`; `Client` composes it with the programs. `Rpc` takes the handler as an operator `Answer` and shows that stubs and wire add nothing to a
call (it implements `Calls`), which is why the other modules let a client call a
method directly.

### Numerator and the code

| variable | code |
|---|---|
| `disk`, `stable` | the LevelDB database as read, and the part of it a power loss leaves (`WriteOptions()` does not sync) |
| `mem` | the JudySL array, by `c_str()` key |
| `torn` | two calls have met in the memory storage: the array may hold anything, and `mem` is not read |
| `cnt`, `disabled`, `mutex` | the variables of the same names |
| `pc` | where each pool thread is; `pc[Main]` tells whether the process is down, opening the database, loading or serving |
| `request`, `response`, `kv` | the locals of `query` and `query_impl` |
| `it`, `maxId` | the locals of `load_in_memory`, one set for each thread that runs it |
| `told` | history: the pairs that clients were answered |

| actions | code |
|---|---|
| `Start`, `ServeWithoutLoad` | `main` |
| `OpenIterator`, `LoadRecord`, `LoadDone`, `LoadThrow`, `LoadTruncated` | `load_in_memory`, one record at a time, for `main` and for `enable_s2i` |
| `CallQuery`, `Lock`, then `Refuse`, `PassThrough`, `Lookup`, `LookupThrow`, or `Admit`, `FindKnown`, `FindNew`, `FindTorn`, `FindThrow`, `Write`, `WriteThrow`, then `Reply` or `Exit` | `query`, `query_impl` and what they call; one `find` a step, because `unload` and `insert` run beside the loop |
| `CallDisable`, `Unload`, `SetDisabled` | `disable_s2i`: the two assignments are two steps |
| `CallEnable`, then the load steps | `enable_s2i` |
| `Tear`, `Crash` | `unload`, or the `insert` of `enable_s2i`, beside a `find` or another of them; what libJudy may do to the process afterwards |
| `Shutdown`, `Kill`, `PowerLoss`, `Sync` | the ways a process ends, and the operating system's write-back |

An operator with a name such as `LockTaken` or `RefuseLocked` before `Lock` or
`Refuse` is a faulty variant of it. `Next` does not use it. Replacing the
definition by the variant must break the property `PROJECT.json` names under
"mutants": each property is shown to notice a plausible bug.

Abstractions. A string is a model value and `CStr` says what `c_str()` makes of
it; properties compare strings as `c_str()` shows them, so that two strings
sharing an id because one continues after a NUL is by design of the model
visible only in `CStr` (the instances have such a pair, `a` and `aNul`).
Ids are an interval with the wrap of the build at its top. LevelDB is a
function from ids to strings with atomic batches, snapshot iterators in the
order of the little-endian key bytes, and errors at the calls that check a
status. `exit()` is one step at any time after the exception; what static
destruction does beside running threads is not modelled. Unsynchronised access
to `disabled` is modelled as interleaving.

The memory storage is unsynchronised too, where administrative calls run beside
other calls, and there a call is not one step: `find` and `insert` write through
the member `value` (`memory_storage.cpp` 25-27 and 51-52), and `unload` frees
what both point into. For example: a query for a new string `x` is admitted,
`disable_s2i` and `enable_s2i` run beside it, `find` sets `value` to the word of
`x`, `insert` sets it to the word of a recorded string `s` and stores the id of
`s`, and `find` then stores its new id there too. From then on STR2ID answers
the id of `x` for `s`, and for `x` whatever its word held, until the next unload
or restart. So `Tear` may happen whenever two threads are at calls of the memory
storage, and need not. After it, until the process ends, a `find` may see any
word or none (`FindTorn`, `FindNew`), a call may fail without a fault
(`FindThrow`, `LoadThrow`), and the process may die (`Crash`). An id read from
such an index is `None` in the answer: it stands for any id, and `Claims` leaves
it out, because no property holds of it. What `find` returns for a string it
takes to be new is its local `id` (26-28), the counter's, whatever becomes of
the word; `MemoryStorage` shows this (`ImplementsIndex`, `FreshIds`), and `kv` and
`disk` rest on it. Damage of torn writes to memory outside the array is not
modelled, apart from the death of the process.

### DumpRestore and the code

`source` and `db` are the databases at the two ends, `file` is the dump, and
`it`, `stream`, `rest`, `key`, `value`, `pairs` and `count` are the iterator,
the input stream and the locals of `restore` (`pairs` by the last value under
each key, which is what a batch leaves; `count` is its `size()`).

| actions | code |
|---|---|
| `Export`, `DumpRecord`, `DumpDone` | `numexport`, `dump`: one turn of its loop is a step |
| `DumpCut` | a dump that ends early: a kill, a full disk, an iterator error |
| `Import` | `numimport` up to the loop, with the test of the magic number |
| `ReadRecord`, `ReadCutRecord`, `ReadPastEnd`, `ReadError`, `Spin` | one turn of the binary loop: a record, a torn one, none at all, an I/O error, and the turns after it. Each turn pushes a pair and writes a full batch |
| `ReadLine`, `ReadLineError` | one turn of the text loop |
| `Finish`, `Kill` | the last batch; a kill |

A string is a sequence of lines and a line a sequence of fields, because
newlines and tabs decide what comes back from a text; the characters do not.
The uninitialised `key`, a torn record and `items[1]` of a line with one field
are choices among all values (or, the last, a crash). An export to standard
output is a text whatever `-b` says (`numexport.cpp` 74, against line 16 of its
usage). The tools do not run beside the server: LevelDB locks its directory.

### MemoryStorage and the code

`data` is the array, a word for each key; `value` is the member, a pointer
named by the key it points to, `NULL` or dangling; `counter` is the `cnt` that
`find` gets by reference; `rv` and `id` are the locals. `overlapped`, `made`,
`given` and `returned` are history.

| actions | code |
|---|---|
| `CallFind`, `CallInsert` | the calls: `find` under the handler's mutex, `insert` from `load_in_memory`, without it |
| `Get`, `Ins` | `JudySLGet`, `JudySLIns`. An insertion may move the words of other keys: pointers to them dangle |
| `Throw` | a call of Judy fails |
| `ReadId` | `find` of a string that is there |
| `Point`, `Count`, `Store` | `value = rv`, `id = counter++`, `*value = id` |
| `Unload` | `unload` |

What a write through a dangling pointer hits is a choice: memory nobody uses, or
any word of the array. A crash is not among the choices: it ends the process
with its array, and is `Numerator`'s `Crash`.

### Lifecycle, Client and the code

`stage` is where `main` is, `waiter` where the thread of `sigwaiter` is,
`pending` the blocked signals; `interrupted` and `children` are what `stop()`
has done to the accept loop and to the connections. `conn` is the server's end
of each client's connection (backlog of the port, queue of the pool, read by a
worker, in the handler), `open` the client's. Of each client: `job`, its
command line and data; `pc`; `read`, the lines it has read; `cnt`, `batch` and
`out`, the lines it has printed.

| actions | code |
|---|---|
| `init_signals`, `Load`, `StartSigwaiter`, `Listen`, `LeaveAccept`, `Done` | `main`; `LeaveAccept` and `Done` are the end of `serve()`: leave accept, join the pool |
| `LoadFails`, `ListenFails`, `Kill`, `Restart`, `Raise` | how it may fail, and the operator |
| `TakeSignal`, `StopChildren`, `StopAccept` | `sigwaiter`: `sigwait`, and `stop()`, which interrupts first the connections, then accept, and does nothing before `listen()` |
| `Accept`, `Take`, `ReadCall`, `HangUp` | the pool: a worker takes a connection and keeps it until it is closed |
| `Handle`, `Refuse`, `Exit` | `query`: answer, exception, `exit` |
| `Start`, `Open`, `OpenRefused` | the clients' command line, connection and ping |
| `BeginLoop`, `ReadLine`, `BadLine`, `EndOfFile` | `run()`: the file is opened, one line a turn, and what is left at the end |
| `NextBatch`, `LastBatch`, `Refused`, `ConnectionLost`, `Killed` | how a batch is answered, or not |

`numeratorcli` and `client.py` are one set of actions: they differ in the
initial `cnt` (uninitialised, a choice among the values of `size_t`, and 0), in
stripping a line, in a batch size of 0 and in the test at the end of the file.
The answers of `Handle` come from fixed maps, `IdOf` and `StringOf`, because
what may change them is `Numerator`'s matter.

### Wire, Rpc and the code

A structure on the wire is the sequence of its fields with id, type and value.
`Write*` and `Read*` are the `write` and `read` methods of the structure they
are named after, `ping`, `disable_s2i` and `enable_s2i` share those without
fields. A program (`IsProgram`) says which client it uses, with how many
threads, which methods it calls, what the server knows, which fields a newer
interface adds in front of those of a message (`newer`) and of the structures
inside it (`inner`), and what goes wrong. `OnWire` adds both, so that the loops
of `Numerator_*_args::read`, `Query::read` and `NumeratorException::read` skip
fields they do not know.

| actions | code |
|---|---|
| `PlainPing`, `PlainQuery`, `PlainDisable`, `PlainEnable` | `NumeratorClient`: `send_*` numbers every call 0 |
| `Ping`, `DoQuery`, `Disable`, `Enable`, `DeadCall` | `NumeratorConcurrentClient`: `generateSeqId`, which throws when the client is dead |
| `Send`, `SendFails` | the rest of `send_*`, for both |
| `Enter`, `TakePending`, `ReadAnswer`, `WaitAgain`, `ClientDied`, `ReadEnd` | the loop of `recv_*`: `getPending`, `readMessageBegin`, `waitForWork`, the exceptions |
| `Own`, `AnotherThreads`, `Nobodys`, `ReadsOn` (in `Examine`) | what it does with the header of an answer; `Recv*` what the structure behind it makes of the call |
| `process_ping`, `process_query`, `process_disable_s2i`, `process_enable_s2i`, `dispatchCall` | the processor |
| `Misname`, `Close` | an answer with a wrong name; the connection ends, with a prefix of what was sent still to be read |
| `Reconnect` | the next connection |

`TConcurrentClientSyncInfo` is external: `nextseqid`, `monitors`, `stop`,
`wakeupSomeone` and `pending` are its members, as the stubs use them. The read
mutex is held by the thread whose `pc` is `reading`; the other stretches of
`recv_*` that hold it are one step each. `id` in a message is not sent: it is
the model's name for the call, by which the properties tell calls apart.

## What is checked

Bounds that all runs of `Numerator` share: four strings (the empty one, `a`,
`aNul` and `b`, three keys), a handful of requests with batches of up to two
strings, ids from 0 to `MaxId`. The guard `cnt # MaxId` of `FindNew` is the one bound in
the specification. New ids are then handed out in each run before and after an
unload, a restart and a fault.

| run | instance | shows |
|---|---|---|
| `concurrent` | 3 workers, any interleaving, calls that tear the index, kills and read errors, ids 0-3, empty and imported database, two requests for ids (one of two strings) and one for strings | `IdNeverReassigned`, `ToldOnDisk`, `ImplementsLedger`, and `IndInv`, the invariant of the proofs. Three workers, because the interleavings that matter have a query, a `disable_s2i` and an `enable_s2i` |
| `serial_faults` | 2 workers, administrative calls made alone, all faults but `tail`, ids 0-4 | `OneIdPerString`, `MemoryComplete`, `SyncedNeverReassigned`, `AnswersRecorded`, `TakesTurns` |
| `progress` | 2 workers, any interleaving, all faults but power loss, with and without `-S`, ids 0-2, no symmetry | `LockReleased`, `PoolFrees`, `AdminReturns` |
| `disable_race` | 2 workers, no faults | violation: `SameIdAlways` |
| `start_disabled` | 2 workers, administrative calls made alone, no faults, with and without `-S` | violation: `ToldOnDisk` |
| `write_failure` | 2 workers, write errors only | violation: `ToldOnDisk` |
| `dump_restore` | ids 0-2 with keys in another order, batches of 2, five sources (empty, one record, three, one with a tab, one with a newline that forges a record), two targets, all faults | `RoundTrip`, `CopyInv` (the invariant of its proof), `PrefixRestored`, `WrongFormatWritesNothing`, `ToolsEnd` |
| `empty_dump` | an empty source, no faults | violation: `RestoreOfAny` |
| `memory` | 3 threads, two keys and a string that continues after a NUL, 2 new ids, one id to load, any overlap, failing calls of Judy | `ImplementsIndex`, `FreshIds`, and `IndInv`, the invariant of the proofs |
| `session` | 1 worker, 2 clients, 7 pairs of command lines, one signal, kills, restarts and every failure | `OutputRight`, `AllAsked`, `BatchBound`, `SignalEnds`, `ClientsEnd` |
| `lost_stop` | the same | violation: `SignalReceivedEnds` |
| `rpc` | 5 programs with up to 4 threads and 4 calls, sequence ids -2 to 2 starting at 1, lost connections, a misnamed answer, an older server, two fields of a newer interface in the messages and two inside the structures | `OwnAnswer`, `AskedAsMeant`, `SomeoneReads`, `DeadForCause`, `ImplementsCalls`, `EveryCallEnds` |

Deadlock is checked in every run.

`Serial` means that clients make an administrative call only when no other call
is in flight, and no query while one is under way, as `tests/disable-s2i-test.py`
does. The code does not enforce it. Without it `OneIdPerString` and
`MemoryComplete` are false, which `disable_race` shows; with it they hold under
every fault that is listed. `IdNeverReassigned` and `SyncedNeverReassigned` need
no such discipline. `ToldOnDisk`, `AnswersRecorded` and `ImplementsLedger` do for
some of what is answered: without it they leave out the ids that are read from
a torn index, which may be false, and still say that new ids, the strings of ids
and whatever the next process answers are of records. With it nothing is left
out, because the index is never torn (`TakesTurns`).

Fairness (`FairSpec`): weak fairness for each worker's own steps and for main's.
A thread that can run is scheduled. Nothing is assumed of `boost::mutex`, so no
property says that a particular waiter gets it; nothing is assumed of clients,
the operator or the faults. In `progress` a worker that finds no free id below
`MaxId` can only fail to allocate, so that the bound does not pose as a deadlock.

For the tools three ids and batches of two are enough: a full batch, a smaller
last one, an extra turn that makes a batch full, and an empty last one all
occur. The state space is finite without any bound on the number of imports.
Fairness: a tool that runs goes on, by its own steps and not by faults.
`ToolsEnd` says that it ends, except a binary restore after an I/O error, which
really never does: badbit is not eofbit.

For the memory storage two finds and any number of insertions and unloads are
enough: an array of two words lets a word move while another is pointed to, and
three threads are the most that can meet in it usefully, a query, an
`enable_s2i` and either of the administrative calls. As long as calls take
turns it implements `Index`. When they overlap, which the handler allows, it
implements only `Torn`: it promises no map, because an `enable_s2i` beside a
`find` may write an id into another string's word through the shared `value`,
but the ids of new strings are still the counter's, one after the other.
`Numerator` assumes no more than that: `serial_faults` is the first case,
`concurrent` has both.

For the clients one worker makes one of two clients wait, and a batch size of 2
with files of up to four lines ends a file inside, at and just after a batch.
`size_t` has 3 bits, and the initial counts are 0, 1, 5 and the largest, which
wraps to 0 with the first line. That count drops the only line of a file of one
line, and makes the first batch of a longer file one larger: `AllAsked` and
`BatchBound` name both as exceptions. Fairness: `main`, the thread of
`sigwaiter`, the workers and the clients that were started go on; nothing is
assumed of the operator, of failures, of someone starting a client, or of a
pipe having another line. `ClientsEnd` excludes pipes because a worker keeps an
idle connection; `SignalEnds` does not, because `stop()` interrupts it.

For the stubs the ids roll over with the third call of a connection. Three
threads are needed for a reader that hands an answer to the second while the
third waits, a fourth for one that is woken for nothing. Fairness: each thread
of the client goes on, and the worker serves what it can read; nothing is
assumed of the program, which need not call, or of the connection, which need
not end. `EveryCallEnds` lets a `NumeratorClient` wait for ever after a misnamed
answer, because it does: its loop reads on.

### Disagreements with what the repository says

1. `disable_race`: `disable_s2i` empties the index, then sets the flag, without
   the mutex (`numerator.cpp` 81-82). A query beside it numbers a recorded
   string again. `tests/disable-s2i-test.py` 117 expects the ids to stay.
2. `start_disabled`: `enable_s2i` (`numerator.cpp` 89) ignores the maximum that
   `load_in_memory` returns; after a start with `-S` the counter is 0 and new
   strings overwrite recorded ids. `tests/disable-s2i-test.py` 104 expects an
   answered id to give its string.
3. `write_failure`: the exception of a failed write releases the mutex before
   `exit` has ended the process (`numerator.cpp` 66-72, 103, 132). The index
   still has the ids of the batch, and another worker answers them. After the
   restart they go to other strings. Line 104 of the test again.
   `AnswersRecorded` bounds the damage: unrecorded answers leave only while the
   worker that saw the failure is on its way to `exit`.
4. `empty_dump`: the loop of a binary restore runs once more than there are
   records (`disk_storage.cpp` 169). After a dump of records this pushes the
   last one again, which is harmless; after an empty dump it writes a record
   under an uninitialised key. The usage of `numimport` (line 14) says "restore
   from binary dump".
5. `lost_stop`: a signal that arrives after `main` has blocked it and before
   `serve()` has made its sockets is taken by `sigwaiter`, and its `stop()` does
   nothing (`signal_handler.cpp` 39). The thread has left its loop, the server
   serves for ever, and later signals stay blocked. Line 38 logs "received ...
   signal, exiting".

## What is proved

`NumeratorProofs`, from the named assumptions on the constants in `Numerator`:

| theorem | assumes of the environment | says |
|---|---|---|
| `TypeCorrect` | nothing | types; an answer is never longer than its query |
| `MutexHeldInside` | nothing | the mutex belongs to the worker inside `query_impl` |
| `SyncedKept` | `WholeLoads`: no truncated load, no `-S`, the largest id unused at the start | `SyncedNeverReassigned` |
| `IdsKept` | `NoLoss`: also no power loss | `IdNeverReassigned` |
| `AnswersAreRecorded` | `WholeLoads` | `AnswersRecorded` |
| `Backed` | `NoFailure`: also no failing write or allocation | `IndInv` |
| `ToldIsOnDisk` | `NoFailure` | `ToldOnDisk` |
| `LedgerImplemented` | `NoFailure`, `Serial = FALSE` | `ImplementsLedger` |

`NoLoss` and `NoFailure` are as weak as the findings allow: with `-S`, or with a
failing write, TLC shows the properties false. `WholeLoads` says no more than
that a load shows the counter every record: of the records that reached the
device a power loss takes none.

The argument. `IdNeverReassigned` is not inductive: that a batch overwrites
nothing rests on its ids being free, which rests on `cnt` being above every
record, which after a restart rests on the load loop. `IdInv` says all three:
`BatchFresh` (ids of a batch are below `cnt` and not recorded), `RecordedBelow`
(recorded ids are below `cnt` while the server serves) and `LoadCovers` (while
main loads, a recorded id is still in the iterator or not above `max_id`).
`LockInv` makes the holder of the mutex the only one with a batch.
`ToldOnDisk` rests on `BackInv`: what the index, an iterator or an answer holds
is in the database or in the batch of the worker that holds the mutex, and an
answer that is on its way out has no batch any more. Unloading and reloading
keep it, because an iterator shows only records and records are kept. A torn
index is assumed to hold nothing that could be relied on: the batch is the
counter's ids all the same, so what is recorded, and what `IdsBacked` says of new
ids and of later processes, does not depend on it. A worker on its way to
`exit()` has answers that nobody gets, which `IdsBacked` leaves out.
All of it but `ToldOnDisk` itself (`Backing`) survives what `NoFailure`
excludes, until a write or an allocation fails; the worker that saw that can
then only end the process, whose index and answers end with it. That is
`AnswersRecorded`: `Backing`, or some worker is exiting.
Refinement follows: a step that leaves `told` alone extends the ledger, by
`IdsKept`; `Reply` tells justified pairs, by `BackInv`.

`SerialProofs`, from `CallsAlone`: administrative calls are made alone
(`Serial`), no load is truncated, and no database the server starts on numbers a
string twice. `-S`, power losses and failing writes, reads and allocations are
not excluded.

| theorem | says |
|---|---|
| `NumberedOnce` | `OneIdPerString` |
| `IndexComplete` | `MemoryComplete` |
| `SameIdWhereAlone` | `SameIdAlways`, which `disable_race` refutes where calls are not made alone; assumes `NoFailure` too |
| `UniqueLedgerImplemented` | `ImplementsLedger`, with one entry for each string; assumes `NoFailure` too |
| `TurnsTaken` | `TakesTurns`: one thread at a time is in the memory storage, and the index is never torn; assumes nothing, `Serial` is the premise of the property |

`OneIdPerString` rests on the index: what a query does not find there is in no
record. So the invariant `AloneInv` has `MemoryComplete` in it, and what it takes
while the index is not complete. An administrative call is the only call
(`Alone`). `disabled` is set while a worker loads and clear while one makes ids
(`FlagKept`). A loading thread has a record still in its iterator or already in
the index (`LoadInv`); that the index holds one id for a key is enough because
the database has one record for it. The batch is in the index before it is in
the database (`BatchIndexed`), which is why a write that reports an error and
happens all the same numbers nothing twice; and after `-S`, where new ids
overwrite records, the index has the later string, and so has the database.

`DumpRestoreProofs`, from the assumptions on the constants in `DumpRestore`:

| theorem | says |
|---|---|
| `DumpRestored` | `RoundTrip`, under every fault, for every database, target, batch size and key order |
| `CopyInvKept` | `CopyInv` |
| `WrongFormatHarmless` | `WrongFormatWritesNothing` |
| `TypeCorrect` | types, the bound on the batch among them |
| `AnyRestored` | `RestoreOfAny`, which `empty_dump` refutes, where no database is empty |

`RoundTrip` speaks of the end of an import only. `CopyInv` follows the records
there: while `dump` runs, a record is in the iterator or in the file
(`DumpInv`); while `restore` runs, it is still to be read, or in the batch, or
in the target, and nothing else is new in the last two (`ReadInv`). `ReadInv`
also says why the extra turn is harmless: when nothing is left to read, `key`
and `value` hold a record, because the file was not empty.

`PrefixProofs` has `PrefixAlwaysRestored`, that is `PrefixRestored`, from the
same assumptions. Its invariant, `PrefixInv`, counts items. Of what was read,
the target has the first `w` items, and target and batch together the first `j`
(`Has`). While the stream is good and no torn line was read, `w` is a whole
number of batches and the rest of the file begins after item `j` (`InStep`).
Whatever goes wrong, that stays true of all ids but the one in the local `key`
(`OneOff`): a torn record leaves in `key` the id it pushes, its read is the last
that changes `key`, and every later turn, the extra one at the end and those of
`Spin`, pushes its pair under that same `key`. This is why one id at most is
wrong, and why it is the same one in every batch that `Spin` writes.

`MemoryStorageProofs`, from the assumptions on the constants in `MemoryStorage`:

| theorem | says |
|---|---|
| `IndInvKept` | `IndInv` |
| `IndexImplemented` | `ImplementsIndex` |
| `FreshIdsKept` | `FreshIds` |

`IndInv` has three parts. `Pointing`: a pointer that does not dangle points to a
word. `Numbering`: the mutex lets one `find` run at a time, and the counter has
run through the ids it gave; `FreshIds` follows from it alone, which is why it
survives any overlap, and so does the part of the refinement that is about
calls that have met (`TornImplements`). `Turns`: while calls take turns, `value` and `rv` point to
the word of the key their thread is about. The refinement hides a word that is
being made until its call returns, and takes back the counter of a `find` that
has counted and not stored.

`ClientProofs`, from the assumptions on the constants in `Lifecycle` and
`Client`: `TypesKept`, `OutputIsRight`, `AllAreAsked` and `BatchesBounded`, the
safety properties of `session`, for any clients, files, widths of `size_t`, initial
counts and failures of either side. The invariant says for each client that one
call is under way at a time and is the ping or asks for the batch (`OneCall`),
that the file splits into what is printed, what is in the batch and what is
still to be read (`InStep`), and that the count is at least the batch, or one
less if it was -1 (`Counted`). That the last test of `numeratorcli` looks at the
count and not at the batch is then seen to be harmless but for that case. That
the queue of the pool keeps its type takes an invariant of the server,
`QueueInv`: the queue has no connection twice and exactly those that are queued.

`RpcProofs`, from the assumptions on the constants in `Rpc`: `TypesHold`,
`AnswersAreOwn` (`OwnAnswer`), `AskedIsMeant` (`AskedAsMeant`),
`DeadOnlyForCause` (`DeadForCause`), `SomeoneAlwaysReads` (`SomeoneReads`) and
`CallsImplemented` (`ImplementsCalls`), for any programs. They assume that a
connection makes no more calls than there are sequence ids, without which two
calls may have the same one. The invariant `RpcInv` says that a call has a
sequence id of its own (the numbers roll over and do not meet), that a message
under way is about one call, which no other message is about, that it asks what
the thread of that call asked or answers what was served for it, and that this
thread awaits it, unless the client is dead. Lemmas about `Wire` show that what
a `write` puts into the fields a `read` takes back, behind any fields of a newer
interface that do not use this one's ids with its types, in the message and
inside the structure.

`SomeoneReads` is not inductive: that a leaving thread wakes a useful one rests
on whom `wakeupAnyone_` picks. `WaitInv` adds that one thread at most reads,
that a dead client leaves nobody waiting, that the monitors are those of the
threads in a call (`MonitorsInUse`), and that in a live client nobody waits
where nobody reads, no message is pending and nobody has been told to read
(`PassedOn`).
`wakeupAnyone_` notifies the monitor
with the largest id, and by the first two facts and the lemma `Greatest` (a
finite set of integers has a greatest) the thread it belongs to is in a call: it
waits and is woken, or it is awake already. The refinement maps a message to the
one thread whose call it is about. `served` is set once because `RpcInv` says
that a call under way is not served and that no second message is about it.
`EndInv` says that a thread is outside a call exactly when its call has ended,
and that a client is dead only after a call has failed.

Only model-checked: all liveness, `LockReleased`, `PoolFrees`, `AdminReturns`,
`ToolsEnd`, `SignalEnds`, `ClientsEnd` and `EveryCallEnds`. It is beyond the
prover because fairness and ENABLED are. Every other property of a passing run
is a theorem. Induction over data is avoided by invariants that follow the code's
loops item by item.

## Plan

1. Done: `Ledger`, `Numerator`, `MCNumerator`, `NumeratorProofs`.
2. Done: `DumpRestore`, `MCDumpRestore`, `DumpRestoreProofs`.
3. Done: `Index`, `MemoryStorage`, `MemoryStorageProofs`.
4. Done: `Lifecycle`. 5. Done: `Client`, `ClientProofs`.
6. Done: `Wire`, `Rpc`, `RpcProofs`.
7. Done: `SerialProofs`.
8. Done: `PrefixProofs`, `Calls`, the proofs of `SomeoneReads` and of the types.
9. Done: calls of the memory storage that meet (`torn`), newer fields inside
   structures.

## Not modelled

* Logging, exception texts, option syntax and the build: no state that a
  property depends on. Directories and options that `main` refuses end it before
  it has any state.
* LevelDB, libJudy and Thrift's own classes are external, modelled by what the
  code relies on. Of Thrift that leaves out message types other than the ones
  the stubs send, malformed messages, spurious wakeups and accept errors such as
  running out of descriptors. The bytes of a field are not modelled.
* `NumeratorMultiface`, the factories and the comparison and printing of
  structures in `gen-cpp`: nothing uses them. The Python stubs, which are
  generated from the same interface.
* `-t 0`, a pool without workers, which would serve nobody.
* Four hazards have no property that covers them. An iterator that stops with
  an error in `load_in_memory` looks like the end of the data, and no property of
  the server survives it. An imported id that is the largest `i64` makes the
  counter wrap at the next start, and the runs and theorems start below it.
  Strings that differ after a NUL share an id, by design of an index of C
  strings, and the properties compare strings as it does. A newline or a tab in
  a string breaks the text form of a dump, and `RoundTrip` speaks of text only
  for strings without.
* Two consequences of hazards that have properties are known and in none of
  them: the ids that a torn index answers for known strings, and that a power
  loss takes back answered ids which were not yet synced.
