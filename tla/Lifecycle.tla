------------------------------ MODULE Lifecycle ------------------------------
(***************************************************************************)
(* The life of the server process: main up to serve(), the thread that     *)
(* waits for signals, the accept loop and the pool, whose workers serve    *)
(* one connection each until it is closed.  What a query does inside the   *)
(* handler is module Numerator; here it is answered, refused, or ends the  *)
(* process.                                                                *)
(*                                                                         *)
(* TThreadPoolServer, TServerSocket and ThreadManager are external and     *)
(* modelled at the calls of main and sigwaiter: stop() interrupts first    *)
(* the connections, then accept, through sockets that listen() makes.      *)
(***************************************************************************)
EXTENDS Integers, Sequences, FiniteSets

CONSTANTS
  Clients,       (* programs that may connect                              *)
  NThreads,      (* option -t                                              *)
  Signals,       (* SIGTERM, SIGINT, SIGHUP                                *)
  IdOf(_),       (* the id of a string                                     *)
  StringOf(_),   (* the string of an id, None if it has none               *)
  None

ASSUME LifecycleAssumption == NThreads \in Nat \ {0}

VARIABLES
  stage,         (* where main is                                          *)
  pending,       (* blocked signals the process has received               *)
  waiter,        (* where the thread of sigwaiter is                       *)
  interrupted,   (* stop() has interrupted accept                          *)
  children,      (* stop() has interrupted the connections                 *)
  conn,          (* the server's end of each client's connection           *)
  queue,         (* connections that wait for a worker                     *)
  open,          (* the client's end                                       *)
  request,       (* a call that was sent and not answered                  *)
  answer         (* an answer that was sent and not read                   *)

process == <<stage, pending, waiter, interrupted, children>>
wires   == <<conn, queue, open, request, answer>>

Stages == {"starting", "loading", "ready", "binding", "accepting", "joining",
           "ended"}

ConnStates == {"none", "backlog", "queued", "reading", "handling"}

ServerTypeOK ==
  /\ stage \in Stages
  /\ pending \subseteq Signals
  /\ waiter \in {"none", "waiting", "stopping", "stoppingAccept", "finished"}
  /\ interrupted \in BOOLEAN /\ children \in BOOLEAN
  /\ conn \in [Clients -> ConnStates]
  /\ open \in [Clients -> BOOLEAN]
  /\ Len(queue) = Cardinality({c \in Clients : conn[c] = "queued"})
  /\ \A c \in Clients :
       conn[c] = "queued" <=> \E k \in DOMAIN queue : queue[k] = c

ServerInit ==
  /\ stage = "starting"
  /\ pending = {} /\ waiter = "none"
  /\ interrupted = FALSE /\ children = FALSE
  /\ conn = [c \in Clients |-> "none"]
  /\ queue = <<>>
  /\ open = [c \in Clients |-> FALSE]
  /\ request = [c \in Clients |-> None]
  /\ answer = [c \in Clients |-> None]

(***************************************************************************)
(* The process ends, and with it everything but what it has sent.          *)
(***************************************************************************)
End ==
  /\ stage' = "ended"
  /\ pending' = {} /\ waiter' = "none"
  /\ interrupted' = FALSE /\ children' = FALSE
  /\ conn' = [c \in Clients |-> "none"]
  /\ queue' = <<>>
  /\ request' = [c \in Clients |-> None]
  /\ UNCHANGED <<open, answer>>

-----------------------------------------------------------------------------
(***************************************************************************)
(* main.                                                                   *)
(***************************************************************************)

Become(from, to) ==
  /\ stage = from
  /\ stage' = to
  /\ UNCHANGED <<pending, interrupted, children, wires>>

init_signals == Become("starting", "loading") /\ UNCHANGED waiter

Load == Become("loading", "ready") /\ UNCHANGED waiter

LoadFails == stage = "loading" /\ End

StartSigwaiter ==
  /\ Become("ready", "binding")
  /\ waiter' = "waiting"

(***************************************************************************)
(* serve(): the port is bound, or an exception nobody catches.             *)
(***************************************************************************)
Listen == Become("binding", "accepting") /\ UNCHANGED waiter

ListenFails == stage = "binding" /\ End

(***************************************************************************)
(* accept may return a connection although it was interrupted meanwhile.   *)
(***************************************************************************)
Accept(c) ==
  /\ stage = "accepting"
  /\ conn[c] = "backlog"
  /\ conn' = [conn EXCEPT ![c] = "queued"]
  /\ queue' = Append(queue, c)
  /\ UNCHANGED <<process, open, request, answer>>

LeaveAccept ==
  /\ stage = "accepting"
  /\ interrupted
  /\ stage' = "joining"
  /\ conn' = [c \in Clients |-> IF conn[c] = "backlog" THEN "none" ELSE conn[c]]
  /\ request' = [c \in Clients |-> IF conn[c] = "backlog" THEN None ELSE request[c]]
  /\ UNCHANGED <<pending, waiter, interrupted, children, queue, open, answer>>

(***************************************************************************)
(* The pool is joined: it runs what is queued, then main returns.          *)
(***************************************************************************)
Done ==
  /\ stage = "joining"
  /\ \A c \in Clients : conn[c] = "none"
  /\ End

Restart ==
  /\ stage = "ended"
  /\ stage' = "starting"
  /\ UNCHANGED <<pending, waiter, interrupted, children, wires>>

Kill == stage # "ended" /\ End

-----------------------------------------------------------------------------
(***************************************************************************)
(* Signals.                                                                *)
(***************************************************************************)

(***************************************************************************)
(* Before init_signals a signal kills, as Kill does.                       *)
(***************************************************************************)
Raise(s) ==
  /\ stage \notin {"starting", "ended"}
  /\ s \notin pending
  /\ pending' = pending \cup {s}
  /\ UNCHANGED <<stage, waiter, interrupted, children, wires>>

(***************************************************************************)
(* sigwait returns; then server->stop(), and the thread ends.              *)
(***************************************************************************)
TakeSignal ==
  /\ waiter = "waiting"
  /\ \E s \in pending : pending' = pending \ {s}
  /\ waiter' = "stopping"
  /\ UNCHANGED <<stage, interrupted, children, wires>>

HasSockets == stage = "accepting"

StopAcceptOnly ==
  /\ waiter = "stopping"
  /\ waiter' = "stoppingAccept"
  /\ UNCHANGED <<stage, pending, interrupted, children, wires>>

StopChildren ==
  /\ waiter = "stopping"
  /\ waiter' = "stoppingAccept"
  /\ children' = HasSockets
  /\ UNCHANGED <<stage, pending, interrupted, wires>>

StopAccept ==
  /\ waiter = "stoppingAccept"
  /\ waiter' = "finished"
  /\ interrupted' = HasSockets
  /\ UNCHANGED <<stage, pending, children, wires>>

sigwaiter == TakeSignal \/ StopChildren \/ StopAccept

-----------------------------------------------------------------------------
(***************************************************************************)
(* The workers.                                                            *)
(***************************************************************************)

Busy == {c \in Clients : conn[c] \in {"reading", "handling"}}

Take ==
  /\ queue # <<>>
  /\ Cardinality(Busy) < NThreads
  /\ conn' = [conn EXCEPT ![Head(queue)] = "reading"]
  /\ queue' = Tail(queue)
  /\ UNCHANGED <<process, open, request, answer>>

ReadCall(c) ==
  /\ conn[c] = "reading"
  /\ request[c] # None /\ ~children
  /\ conn' = [conn EXCEPT ![c] = "handling"]
  /\ UNCHANGED <<process, queue, open, request, answer>>

HangUpKept(c) ==
  /\ conn[c] = "reading"
  /\ children
  /\ conn' = [conn EXCEPT ![c] = "none"]
  /\ request' = [request EXCEPT ![c] = None]
  /\ UNCHANGED <<process, queue, open, answer>>

(***************************************************************************)
(* The read is interrupted, or finds that the client has gone.             *)
(***************************************************************************)
HangUp(c) ==
  /\ conn[c] = "reading"
  /\ children \/ (request[c] = None /\ ~open[c])
  /\ conn' = [conn EXCEPT ![c] = "none"]
  /\ request' = [request EXCEPT ![c] = None]
  /\ UNCHANGED <<process, queue, open, answer>>

Ping == [op |-> "ping", items |-> <<>>]

(***************************************************************************)
(* What the handler answers: ids; strings and the places of those that are *)
(* missing; or a NumeratorException.  ids and strings are both in result.  *)
(***************************************************************************)
Response(kind, result, failures) ==
  [kind |-> kind, result |-> result, failures |-> failures]

ResponseTo(q) ==
  CASE q.op = "ping" -> Response("void", <<>>, {})
    [] q.op = "s2i"  ->
         Response("ids", [i \in DOMAIN q.items |-> IdOf(q.items[i])], {})
    [] q.op = "i2s"  ->
         LET missing == {i \in DOMAIN q.items : StringOf(q.items[i]) = None}
         IN  Response("strings",
               [i \in DOMAIN q.items |->
                  IF i \in missing THEN "" ELSE StringOf(q.items[i])],
               {i - 1 : i \in missing})

Refusal == Response("refused", <<>>, {})

Reply(c, response) ==
  /\ conn[c] = "handling"
  /\ conn' = [conn EXCEPT ![c] = "reading"]
  /\ request' = [request EXCEPT ![c] = None]
  /\ answer' = [answer EXCEPT ![c] = IF open[c] THEN response ELSE None]
  /\ UNCHANGED <<process, queue, open>>

Handle(c) == conn[c] = "handling" /\ Reply(c, ResponseTo(request[c]))

Refuse(c) ==
  /\ conn[c] = "handling"
  /\ request[c].op = "s2i"
  /\ Reply(c, Refusal)

(***************************************************************************)
(* query catches a std::exception: exit(EXIT_FAILURE).                     *)
(***************************************************************************)
Exit(c) ==
  /\ conn[c] = "handling"
  /\ request[c].op # "ping"
  /\ End

-----------------------------------------------------------------------------
(***************************************************************************)
(* What clients do to their end.                                           *)
(***************************************************************************)

Connect(c, q) ==
  /\ stage = "accepting"
  /\ conn' = [conn EXCEPT ![c] = "backlog"]
  /\ open' = [open EXCEPT ![c] = TRUE]
  /\ request' = [request EXCEPT ![c] = q]
  /\ UNCHANGED <<process, queue, answer>>

(***************************************************************************)
(* What is sent to a server that has hung up is lost.                      *)
(***************************************************************************)
Ask(c, q) ==
  /\ request' = [request EXCEPT ![c] = IF conn[c] = "none" THEN None ELSE q]
  /\ answer' = [answer EXCEPT ![c] = None]
  /\ UNCHANGED <<process, conn, queue, open>>

Consume(c) ==
  /\ answer' = [answer EXCEPT ![c] = None]
  /\ UNCHANGED <<process, conn, queue, open, request>>

Close(c) ==
  /\ open' = [open EXCEPT ![c] = FALSE]
  /\ answer' = [answer EXCEPT ![c] = None]
  /\ UNCHANGED <<process, conn, queue, request>>

-----------------------------------------------------------------------------

main == init_signals \/ Load \/ StartSigwaiter \/ Listen \/ LeaveAccept \/ Done

Serve(c) == Accept(c) \/ ReadCall(c) \/ HangUp(c) \/ Handle(c)

Operator == Restart \/ Kill \/ \E s \in Signals : Raise(s)

Failure == LoadFails \/ ListenFails \/ \E c \in Clients : Refuse(c) \/ Exit(c)

ServerNext ==
  \/ main \/ sigwaiter \/ Take \/ (\E c \in Clients : Serve(c))
  \/ Operator \/ Failure
=============================================================================
