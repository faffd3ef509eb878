-------------------------------- MODULE Rpc ---------------------------------
(***************************************************************************)
(* One connection between a client program and the server, with the stubs  *)
(* that gen-cpp/Numerator.cpp puts at its ends.  At the client's end it is *)
(* NumeratorClient, which one thread uses, or NumeratorConcurrentClient,   *)
(* which several threads share: whoever holds its read mutex reads the     *)
(* next answer, and hands it over when it is another thread's.  At the     *)
(* server's end a worker of the pool runs NumeratorProcessor, one call     *)
(* after the other.  The structures are those of module Wire.              *)
(*                                                                         *)
(* Thrift itself is external: TConcurrentClientSyncInfo and its sentries   *)
(* are modelled at the calls the stubs make.                               *)
(***************************************************************************)
EXTENDS Wire

CONSTANTS
  Threads,       (* threads of the client program                          *)
  None,          (* no message, nothing served                             *)
  Requests,      (* the queries they ask                                   *)
  Answer(_),     (* the handler's answer to a query                        *)
  MinSeq, MaxSeq,(* bounds of a sequence id, an i32                        *)
  FirstSeq,      (* nextseqid_ of a new client: near the top, to roll over *)
  MaxCalls,      (* bound on program.calls                                 *)
  Programs       (* client programs and their servers, see IsProgram       *)

(***************************************************************************)
(* close: the connection ends, a crash of the server included.             *)
(* misname: an answer carries the name of another method.                  *)
(***************************************************************************)
FaultKinds == {"close", "misname"}

Methods == {"ping", "query", "disable_s2i", "enable_s2i"}

SeqIds == MinSeq..MaxSeq

CallIds == 1..MaxCalls

Refused ==
  [code |-> ErrorCode.STR2ID_QUERIES_DISABLED,
   message |-> RefusalText]

(***************************************************************************)
(* How a call may end for the caller.  app: a TApplicationException of the *)
(* server; protocol: an answer that makes no sense; transport: the         *)
(* connection failed, or the client had died on another thread.            *)
(***************************************************************************)
Ended(kind, query, exc) == [kind |-> kind, query |-> query, exc |-> exc]

Returned(q) == Ended("returned", q, EmptyException)
Thrown(e)   == Ended("thrown", EmptyQuery, e)
Failed(k)   == Ended(k, EmptyQuery, EmptyException)

Outcome ==
  [kind : {"none", "returned", "thrown", "app", "protocol", "transport"},
   query : Query, exc : NumeratorException]

(***************************************************************************)
(* A client program and the server it finds: the client it uses, the       *)
(* threads that share it, the methods they call and how often (a bound),   *)
(* the methods in the server's processMap_, the fields that the newer of   *)
(* the two adds to the messages it sends and to the structures in them,    *)
(* and what goes wrong.                                                    *)
(***************************************************************************)
IsProgram(p) ==
  /\ DOMAIN p = {"stub", "threads", "uses", "calls", "processMap", "newer",
                 "inner", "faults"}
  /\ p.stub \in {"plain", "concurrent"}
  /\ p.threads \subseteq Threads
  /\ p.stub = "plain" => \E t \in Threads : p.threads = {t}
  /\ p.calls \in 0..MaxCalls
  /\ p.uses \subseteq Methods /\ p.processMap \subseteq Methods
  /\ p.newer \in Seq({p.newer[k] : k \in DOMAIN p.newer})
  /\ \A k \in DOMAIN p.newer :
       <<p.newer[k].id, p.newer[k].type>> \notin {<<0, "struct">>, <<1, "struct">>}
  /\ p.inner \in Seq({p.inner[k] : k \in DOMAIN p.inner})
  /\ \A k \in DOMAIN p.inner :
       <<p.inner[k].id, p.inner[k].type>> \notin
         {<<1, "i32">>, <<2, "list">>, <<3, "list">>, <<4, "list">>, <<2, "string">>}
  /\ p.faults \subseteq FaultKinds

OnWire(p, fields) == Extended(p.newer, p.inner, fields)

ASSUME RpcAssumption ==
  /\ None \notin [method : Methods, query : Query, outcome : Outcome]
  /\ Requests \subseteq Query
  /\ \A q \in Requests : Answer(q) \in Query
  /\ \A p \in Programs : IsProgram(p)

ASSUME SeqAssumption ==
  /\ MinSeq \in Int /\ MaxSeq \in Int /\ MaxCalls \in Nat
  /\ FirstSeq \in SeqIds /\ 0 \in SeqIds
  /\ MaxCalls <= MaxSeq - MinSeq + 1

-----------------------------------------------------------------------------

VARIABLES
  program,    (* who uses this connection                                  *)
  open,       (* both ends have the connection                             *)
  toServer,   (* calls under way                                           *)
  toClient,   (* answers under way                                         *)
  calls,      (* calls made on this connection                             *)
  pc, call, seqid,   (* of each client thread                              *)
  got,        (* how its last call ended                                   *)
  nextseqid,  (* from here to pending: TConcurrentClientSyncInfo           *)
  monitors,   (* the keys of seqidToMonitorMap_                            *)
  stop, wakeupSomeone, pending,
  served,     (* history: what the server did for each call                *)
  misnamed    (* history: the server has misnamed an answer                *)

wires   == <<open, toServer, toClient>>
threads == <<calls, pc, call, seqid, got>>
sync    == <<nextseqid, monitors, stop, wakeupSomeone, pending>>
history == <<served, misnamed>>
vars    == <<program, wires, threads, sync, history>>

Concurrent == program.stub = "concurrent"

NoCall == [id |-> 0, method |-> "ping", query |-> EmptyQuery]

(***************************************************************************)
(* A message; id is not sent, it is the model's name of the call.          *)
(***************************************************************************)
Message(name, type, seq, fields, id) ==
  [name |-> name, type |-> type, seqid |-> seq, fields |-> fields, id |-> id]

(***************************************************************************)
(* The messages that there are: those of this interface, with the fields   *)
(* that a newer one adds.                                                  *)
(***************************************************************************)
Results == {Success(Answer(q)) : q \in Requests} \cup {Exc(Refused)}

OwnFields ==
  {NoFields} \cup {WriteQueryArgs(q) : q \in Requests}
    \cup {WriteQueryResult(r) : r \in Results}

AllFields == UNION {{OnWire(p, f) : f \in OwnFields} : p \in Programs}

Messages ==
  [name : Methods, type : {"call", "reply", "exception"}, seqid : SeqIds,
   fields : AllFields, id : CallIds]

ASSUME MessageAssumption == None \notin Messages

Elements(s) == {s[k] : k \in DOMAIN s}

TypeOK ==
  /\ program \in Programs
  /\ open \in BOOLEAN
  /\ toServer \in Seq(Messages) /\ toClient \in Seq(Messages)
  /\ \A m \in Elements(toServer) : m.type = "call"
  /\ \A m \in Elements(toClient) : m.type # "call"
  /\ calls \in 0..MaxCalls
  /\ pc \in [Threads -> {"idle", "sending", "sent", "reading", "waiting",
                         "woken", "lost"}]
  /\ call \in [Threads -> [id : 0..MaxCalls, method : Methods, query : Query]]
  /\ seqid \in [Threads -> SeqIds]
  /\ got \in [Threads -> Outcome]
  /\ nextseqid \in SeqIds /\ monitors \subseteq SeqIds
  /\ stop \in BOOLEAN /\ wakeupSomeone \in BOOLEAN
  /\ pending \in Messages \cup {None}
  /\ served \in [CallIds -> {None} \cup
                   [method : Methods, query : Query, outcome : Outcome]]
  /\ misnamed \in BOOLEAN

Init ==
  /\ program \in Programs
  /\ open = TRUE /\ toServer = <<>> /\ toClient = <<>>
  /\ calls = 0
  /\ pc = [t \in Threads |-> "idle"]
  /\ call = [t \in Threads |-> NoCall]
  /\ seqid = [t \in Threads |-> 0]
  /\ got = [t \in Threads |-> Failed("none")]
  /\ nextseqid = FirstSeq /\ monitors = {}
  /\ stop = FALSE /\ wakeupSomeone = FALSE /\ pending = None
  /\ served = [c \in CallIds |-> None]
  /\ misnamed = FALSE

(***************************************************************************)
(* The program is through with the connection and makes another.           *)
(***************************************************************************)
Reconnect ==
  /\ \A t \in Threads : pc[t] = "idle"
  /\ program' \in Programs
  /\ open' = TRUE /\ toServer' = <<>> /\ toClient' = <<>>
  /\ calls' = 0
  /\ call' = [t \in Threads |-> NoCall]
  /\ seqid' = [t \in Threads |-> 0]
  /\ got' = [t \in Threads |-> Failed("none")]
  /\ nextseqid' = FirstSeq /\ monitors' = {}
  /\ stop' = FALSE /\ wakeupSomeone' = FALSE /\ pending' = None
  /\ served' = [c \in CallIds |-> None]
  /\ misnamed' = FALSE
  /\ UNCHANGED pc

-----------------------------------------------------------------------------
(***************************************************************************)
(* The client sends.                                                       *)
(***************************************************************************)

NextSeqOverflows(n) == n + 1

NextSeq(n) == IF n = MaxSeq THEN MinSeq ELSE n + 1

(***************************************************************************)
(* Bound: calls < program.calls.                                           *)
(***************************************************************************)
Begin(t, method, q, seq) ==
  /\ t \in program.threads
  /\ pc[t] = "idle"
  /\ calls < program.calls
  /\ method \in program.uses
  /\ calls' = calls + 1
  /\ pc' = [pc EXCEPT ![t] = "sending"]
  /\ call' = [call EXCEPT ![t] = [id |-> calls', method |-> method, query |-> q]]
  /\ seqid' = [seqid EXCEPT ![t] = seq]
  /\ got' = [got EXCEPT ![t] = Failed("none")]
  /\ UNCHANGED <<program, wires, stop, wakeupSomeone, pending, history>>

(***************************************************************************)
(* The thread that uses a NumeratorClient: it numbers all its calls 0.     *)
(***************************************************************************)
PlainCall(t, method, q) ==
  /\ ~Concurrent
  /\ Begin(t, method, q, 0)
  /\ UNCHANGED <<nextseqid, monitors>>

(***************************************************************************)
(* generateSeqId; a dead client throws.                                    *)
(***************************************************************************)
ConcurrentCall(t, method, q) ==
  /\ Concurrent
  /\ ~stop
  /\ Begin(t, method, q, nextseqid)
  /\ nextseqid' = NextSeq(nextseqid)
  /\ monitors' = monitors \cup {nextseqid}

DeadCall(t) ==
  /\ Concurrent /\ stop
  /\ t \in program.threads
  /\ pc[t] = "idle"
  /\ got' = [got EXCEPT ![t] = Failed("transport")]
  /\ UNCHANGED <<program, wires, calls, pc, call, seqid, sync, history>>

PlainPing(t)    == PlainCall(t, "ping", EmptyQuery)
PlainQuery(t)   == \E q \in Requests : PlainCall(t, "query", q)
PlainDisable(t) == PlainCall(t, "disable_s2i", EmptyQuery)
PlainEnable(t)  == PlainCall(t, "enable_s2i", EmptyQuery)

Ping(t)    == ConcurrentCall(t, "ping", EmptyQuery)
DoQuery(t) == \E q \in Requests : ConcurrentCall(t, "query", q)
Disable(t) == ConcurrentCall(t, "disable_s2i", EmptyQuery)
Enable(t)  == ConcurrentCall(t, "enable_s2i", EmptyQuery)

ArgsFields(c) ==
  CASE c.method = "ping"        -> PingFields
    [] c.method = "query"       -> WriteQueryArgs(c.query)
    [] c.method = "disable_s2i" -> DisableFields
    [] c.method = "enable_s2i"  -> EnableFields

SendTwice(t) ==
  /\ pc[t] = "sending"
  /\ pc' = [pc EXCEPT ![t] = "sent"]
  /\ LET m == Message(call[t].method, "call", seqid[t],
                      OnWire(program, ArgsFields(call[t])), call[t].id)
     IN  toServer' = IF open THEN toServer \o <<m, m>> ELSE toServer
  /\ UNCHANGED <<program, open, toClient, calls, call, seqid, got, sync, history>>

(***************************************************************************)
(* A call is written as a whole, under the write mutex.  What is written   *)
(* to a connection the other end has left is lost, or fails.               *)
(***************************************************************************)
Send(t) ==
  /\ pc[t] = "sending"
  /\ pc' = [pc EXCEPT ![t] = "sent"]
  /\ toServer' = IF open
                 THEN Append(toServer,
                        Message(call[t].method, "call", seqid[t],
                                OnWire(program, ArgsFields(call[t])), call[t].id))
                 ELSE toServer
  /\ UNCHANGED <<program, open, toClient, calls, call, seqid, got, sync, history>>

(***************************************************************************)
(* markBad_: every waiting thread is woken to find that the client died.   *)
(***************************************************************************)
WakeAll(p) ==
  [u \in Threads |-> IF p[u] = "waiting" THEN "woken" ELSE p[u]]

SendFails(t) ==
  /\ pc[t] = "sending"
  /\ ~open
  /\ got' = [got EXCEPT ![t] = Failed("transport")]
  /\ pc' = WakeAll([pc EXCEPT ![t] = "idle"])
  /\ stop' = Concurrent
  /\ wakeupSomeone' = Concurrent
  /\ UNCHANGED <<program, wires, calls, call, seqid, nextseqid, monitors, pending,
                 history>>

-----------------------------------------------------------------------------
(***************************************************************************)
(* What the stubs make of an answer: how the call ends, and whether the    *)
(* receive sentry is committed.                                            *)
(***************************************************************************)

CommittedReturn(o) == [outcome |-> o, commit |-> o.kind = "returned"]

Committed(o)   == [outcome |-> o, commit |-> TRUE]
Uncommitted(k) == [outcome |-> Failed(k), commit |-> FALSE]

Misdirected(name, m) == m.type # "exception" /\ m.name # name

RecvVoid(name, m) ==
  IF m.type = "exception" THEN Committed(Failed("app"))
  ELSE IF Misdirected(name, m) THEN Uncommitted("protocol")
  ELSE Committed(Returned(EmptyQuery))

RecvPing(m)    == RecvVoid("ping", m)
RecvDisable(m) == RecvVoid("disable_s2i", m)
RecvEnable(m)  == RecvVoid("enable_s2i", m)

RecvQuery(m) ==
  LET r == ReadQueryResult(EmptyQuery, m.fields)
  IN  IF m.type = "exception" THEN Committed(Failed("app"))
      ELSE IF Misdirected("query", m) \/ ~r.ok THEN Uncommitted("protocol")
      ELSE IF "success" \in r.value.isset THEN Committed(Returned(r.value.success))
      ELSE IF "exc" \in r.value.isset THEN Committed(Thrown(r.value.exc))
      ELSE Uncommitted("protocol")

Recv(method, m) ==
  CASE method = "ping"        -> RecvPing(m)
    [] method = "query"       -> RecvQuery(m)
    [] method = "disable_s2i" -> RecvDisable(m)
    [] method = "enable_s2i"  -> RecvEnable(m)

-----------------------------------------------------------------------------
(***************************************************************************)
(* The client receives.  The read mutex is held by the thread that is      *)
(* reading; the other stretches of recv_* that hold it are one step.       *)
(***************************************************************************)

ReadMutexFree == \A u \in Threads : pc[u] # "reading"

MineAnyway(t, m) == TRUE

Mine(t, m) == ~Concurrent \/ m.seqid = seqid[t]

(***************************************************************************)
(* The destructor of the receive sentry.  wakeupAnyone_ notifies the       *)
(* monitor of the largest id in flight, markBad_ all of them; a monitor    *)
(* nobody waits at forgets the notification.                               *)
(***************************************************************************)
WakeNobody(p, ids) == p

WakeLast(p, ids) ==
  [u \in Threads |->
     IF p[u] = "waiting" /\ seqid[u] \in ids /\ \A s \in ids : s <= seqid[u]
     THEN "woken" ELSE p[u]]

Leave(t, outcome, commit) ==
  LET p == [pc EXCEPT ![t] = "idle"]
  IN  /\ got' = [got EXCEPT ![t] = outcome]
      /\ monitors' = monitors \ {seqid[t]}
      /\ pc' = IF commit THEN WakeLast(p, monitors') ELSE WakeAll(p)
      /\ wakeupSomeone' = Concurrent
      /\ stop' = (stop \/ (Concurrent /\ ~commit))
      /\ UNCHANGED <<program, open, toServer, calls, call, seqid, nextseqid,
                     history>>

HandOverSilently(t, m) ==
  /\ pending' = m
  /\ wakeupSomeone' = FALSE
  /\ pc' = [pc EXCEPT ![t] = "waiting"]
  /\ UNCHANGED <<program, open, toServer, calls, call, seqid, got, nextseqid,
                 monitors, stop, history>>

(***************************************************************************)
(* updatePending and waitForWork.  The client may have died meanwhile.     *)
(***************************************************************************)
HandOver(t, m) ==
  /\ pending' = m
  /\ wakeupSomeone' = FALSE
  /\ pc' = [u \in Threads |->
              IF u = t THEN "waiting"
              ELSE IF pc[u] = "waiting" /\ seqid[u] = m.seqid THEN "woken"
              ELSE pc[u]]
  /\ UNCHANGED <<program, open, toServer, calls, call, seqid, got, nextseqid,
                 monitors, stop, history>>

(***************************************************************************)
(* The header of an answer: the thread's own, or another's.                *)
(***************************************************************************)
Own(t, m) ==
  /\ Mine(t, m)
  /\ LET r == Recv(call[t].method, m) IN
     /\ Concurrent \/ ~Misdirected(call[t].method, m)
     /\ Leave(t, r.outcome, r.commit)
  /\ pending' = None

AnotherThreads(t, m) ==
  /\ ~Mine(t, m)
  /\ m.seqid \in monitors
  /\ ~stop
  /\ HandOver(t, m)

(***************************************************************************)
(* Both ways it may end badly: the id is nobody's, or the client has died. *)
(***************************************************************************)
Nobodys(t, m) ==
  /\ ~Mine(t, m)
  /\ m.seqid \notin monitors \/ stop
  /\ pending' = m
  /\ Leave(t, Failed(IF m.seqid \in monitors THEN "transport" ELSE "protocol"),
           FALSE)

(***************************************************************************)
(* NumeratorClient reads on after an answer with the wrong name: it waits  *)
(* for a second one, which nobody sends.                                   *)
(***************************************************************************)
ReadsOn(t, m) ==
  /\ ~Concurrent
  /\ Misdirected(call[t].method, m)
  /\ pc' = [pc EXCEPT ![t] = "lost"]
  /\ UNCHANGED <<program, open, toServer, calls, call, seqid, got, sync, history>>

Examine(t, m) ==
  Own(t, m) \/ AnotherThreads(t, m) \/ Nobodys(t, m) \/ ReadsOn(t, m)

(***************************************************************************)
(* The thread gets the read mutex, at first or when it was woken, and goes *)
(* to getPending.  A thread that was woken for nothing waits again.        *)
(***************************************************************************)
MayWork(t) ==
  \/ pc[t] = "sent"
  \/ pc[t] = "woken" /\ \/ wakeupSomeone
                        \/ pending # None /\ pending.seqid = seqid[t]

Enter(t) ==
  /\ ReadMutexFree
  /\ MayWork(t)
  /\ ~stop
  /\ pending = None
  /\ wakeupSomeone' = FALSE
  /\ pc' = [pc EXCEPT ![t] = "reading"]
  /\ UNCHANGED <<program, wires, calls, call, seqid, got, nextseqid, monitors, stop,
                 pending, history>>

TakePending(t) ==
  /\ ReadMutexFree
  /\ MayWork(t)
  /\ ~stop
  /\ pending # None
  /\ Examine(t, pending)
  /\ UNCHANGED toClient

WaitAgain(t) ==
  /\ ReadMutexFree
  /\ pc[t] = "woken" /\ ~MayWork(t)
  /\ ~stop
  /\ pc' = [pc EXCEPT ![t] = "waiting"]
  /\ UNCHANGED <<program, wires, calls, call, seqid, got, sync, history>>

ClientDied(t) ==
  /\ ReadMutexFree
  /\ pc[t] \in {"sent", "woken"}
  /\ stop
  /\ Leave(t, Failed("transport"), FALSE)
  /\ UNCHANGED <<toClient, pending>>

ReadAnswer(t) ==
  /\ pc[t] = "reading"
  /\ toClient # <<>>
  /\ toClient' = Tail(toClient)
  /\ Examine(t, Head(toClient))

(***************************************************************************)
(* The end of the stream, or of what was left to read of it.               *)
(***************************************************************************)
ReadEnd(t) ==
  /\ pc[t] \in {"reading", "lost"}
  /\ ~open /\ toClient = <<>>
  /\ Leave(t, Failed("transport"), FALSE)
  /\ UNCHANGED <<toClient, pending>>

-----------------------------------------------------------------------------
(***************************************************************************)
(* The server.  query returns or refuses: any other exception of it ends   *)
(* the process.  enable_s2i may throw, which becomes a T_EXCEPTION.        *)
(***************************************************************************)

ReplyTo(m, name, type, fields) ==
  /\ toServer' = Tail(toServer)
  /\ toClient' = Append(toClient,
                   Message(name, type, m.seqid, OnWire(program, fields), m.id))
  /\ UNCHANGED <<program, open, threads, sync>>

Served(m, query, outcome) ==
  served' = [served EXCEPT ![m.id] =
               [method |-> m.name, query |-> query, outcome |-> outcome]]

Next1(name) ==
  open /\ toServer # <<>> /\ Head(toServer).name = name /\ name \in program.processMap

process_ping ==
  LET m == Head(toServer) IN
  /\ Next1("ping")
  /\ ReplyTo(m, "ping", "reply", PingFields)
  /\ Served(m, EmptyQuery, Returned(EmptyQuery))
  /\ UNCHANGED misnamed

process_query ==
  LET m == Head(toServer)
      args == ReadQueryArgs(m.fields) IN
  /\ Next1("query")
  /\ args.ok
  /\ \E r \in {Success(Answer(args.value)), Exc(Refused)} :
       /\ ReplyTo(m, "query", "reply", WriteQueryResult(r))
       /\ Served(m, args.value, IF "exc" \in r.isset THEN Thrown(r.exc)
                                ELSE Returned(r.success))
  /\ UNCHANGED misnamed

process_disable_s2i ==
  LET m == Head(toServer) IN
  /\ Next1("disable_s2i")
  /\ ReplyTo(m, "disable_s2i", "reply", DisableFields)
  /\ Served(m, EmptyQuery, Returned(EmptyQuery))
  /\ UNCHANGED misnamed

process_enable_s2i ==
  LET m == Head(toServer) IN
  /\ Next1("enable_s2i")
  /\ \/ /\ ReplyTo(m, "enable_s2i", "reply", EnableFields)
        /\ Served(m, EmptyQuery, Returned(EmptyQuery))
     \/ /\ ReplyTo(m, "enable_s2i", "exception", NoFields)
        /\ Served(m, EmptyQuery, Failed("app"))
  /\ UNCHANGED misnamed

(***************************************************************************)
(* A method this server does not know.                                     *)
(***************************************************************************)
dispatchCall ==
  LET m == Head(toServer) IN
  /\ open /\ toServer # <<>> /\ m.name \notin program.processMap
  /\ ReplyTo(m, m.name, "exception", NoFields)
  /\ Served(m, EmptyQuery, Failed("app"))
  /\ UNCHANGED misnamed

Misname ==
  LET m == Head(toServer) IN
  /\ "misname" \in program.faults
  /\ open /\ toServer # <<>> /\ ~misnamed
  /\ ReplyTo(m, IF m.name = "ping" THEN "query" ELSE "ping", "reply", NoFields)
  /\ misnamed' = TRUE
  /\ UNCHANGED served

(***************************************************************************)
(* The connection ends; answers that were sent may still arrive.           *)
(***************************************************************************)
Close ==
  /\ "close" \in program.faults
  /\ open
  /\ open' = FALSE
  /\ toServer' = <<>>
  /\ \E k \in 0..Len(toClient) : toClient' = SubSeq(toClient, 1, k)
  /\ UNCHANGED <<program, threads, sync, history>>

-----------------------------------------------------------------------------

Call(t) ==
  \/ PlainPing(t) \/ PlainQuery(t) \/ PlainDisable(t) \/ PlainEnable(t)
  \/ Ping(t) \/ DoQuery(t) \/ Disable(t) \/ Enable(t)
  \/ DeadCall(t)

ThreadStep(t) ==
  \/ Send(t) \/ SendFails(t)
  \/ Enter(t) \/ TakePending(t) \/ WaitAgain(t) \/ ClientDied(t)
  \/ ReadAnswer(t) \/ ReadEnd(t)

process ==
  \/ process_ping \/ process_query \/ process_disable_s2i
  \/ process_enable_s2i \/ dispatchCall

Next ==
  \/ \E t \in Threads : Call(t) \/ ThreadStep(t)
  \/ process \/ Misname \/ Close \/ Reconnect

Spec == Init /\ [][Next]_vars

(***************************************************************************)
(* A thread that can run does, and the worker serves what it can read.     *)
(* Nothing is assumed of the program, which need not call, nor of the      *)
(* connection, which need not last or end.                                 *)
(***************************************************************************)
FairSpec ==
  /\ Spec
  /\ \A t \in Threads : WF_vars(ThreadStep(t))
  /\ WF_vars(process)

-----------------------------------------------------------------------------
(***************************************************************************)
(* Properties.                                                             *)
(***************************************************************************)

(***************************************************************************)
(* A caller whose call has ended with an answer has the answer the server  *)
(* gave to this call, not to another thread's, an earlier one's, or one    *)
(* changed on the way: query returns what the handler returned, throws the *)
(* NumeratorException it threw.                                            *)
(***************************************************************************)
OwnAnswer ==
  \A t \in Threads :
    got[t].kind \in {"returned", "thrown", "app"} =>
      /\ served[call[t].id] # None
      /\ got[t] = served[call[t].id].outcome

(***************************************************************************)
(* The handler is asked what the caller asked, whatever fields a newer     *)
(* client adds to the arguments and to the query in them.                  *)
(***************************************************************************)
AskedAsMeant ==
  \A t \in Threads :
    call[t].id # 0 /\ served[call[t].id] # None =>
      LET s == served[call[t].id]
      IN  s.method = call[t].method /\ (s.outcome.kind # "app" => s.query = call[t].query)

(***************************************************************************)
(* The threads wait for each other only while one of them reads or is on   *)
(* its way to: a thread that leaves recv_* has passed the reading on, and  *)
(* an answer that was handed over finds its owner awake.                   *)
(***************************************************************************)
SomeoneReads ==
  /\ (\E t \in Threads : pc[t] = "waiting")
       => \E u \in Threads : pc[u] \in {"sending", "sent", "woken", "reading"}
  /\ pending # None /\ ~stop
       => \E t \in Threads :
            seqid[t] = pending.seqid /\ pc[t] \in {"sent", "woken"}

(***************************************************************************)
(* The shared client is declared dead only when the connection or the      *)
(* server is to blame, never because of exceptions that are answers.       *)
(***************************************************************************)
DeadForCause == stop => ~open \/ misnamed

(***************************************************************************)
(* Both clients and the processor implement calls that are executed at     *)
(* most once, as they were asked, and end once, with what the execution    *)
(* made of them or with a failure.                                         *)
(***************************************************************************)
MayAsk ==
  [method : Methods \ {"query"}, query : {EmptyQuery}]
    \cup [method : {"query"}, query : Requests]

MayDo(c) ==
  LET Did(q, o) == [method |-> c.method, query |-> q, outcome |-> o]
  IN  {Did(EmptyQuery, Failed("app"))} \cup
      IF c.method = "query"
      THEN {Did(c.query, Returned(Answer(c.query))), Did(c.query, Thrown(Refused))}
      ELSE {Did(EmptyQuery, Returned(EmptyQuery))}

Promise == INSTANCE Calls WITH
  Ids <- CallIds, NotYet <- Failed("none"),
  Failures <- {Failed("protocol"), Failed("transport")}, Asked <- MayAsk

ImplementsCalls == Promise!Spec

(***************************************************************************)
(* Every call ends, with an answer or an exception, for all threads of a   *)
(* shared client: a connection has finitely many calls, and time and again *)
(* none is under way.  A NumeratorClient that reads on after a misnamed    *)
(* answer may wait for ever.                                               *)
(***************************************************************************)
EveryCallEnds == []<>(\A t \in Threads : pc[t] \in {"idle", "lost"})
=============================================================================
