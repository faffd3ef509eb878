------------------------------- MODULE Client -------------------------------
(***************************************************************************)
(* Command line clients beside the server of module Lifecycle: numeratorcli *)
(* and client.py.  Both ping the server, read a file line by line, ask     *)
(* for a batch of lines at a time and print what they are answered.        *)
(***************************************************************************)
EXTENDS Lifecycle

CONSTANTS
  Jobs,          (* what the clients are started with: [Clients -> Job]    *)
  Lines,         (* lines of data files                                    *)
  Strip(_),      (* a line without the spaces around it                    *)
  IdIn(_),       (* the id a line spells, None if it spells none           *)
  W              (* size_t: 0..W-1                                         *)

(***************************************************************************)
(* program, type, batch: the command line.  fits: the address has a host   *)
(* and a port.  file: the data, <<>> in a sequence of its own, or none if  *)
(* the file cannot be opened.  pipe: it is a pipe, whose lines come when   *)
(* they come.  garbage: the value numeratorcli finds in cnt.               *)
(***************************************************************************)
IsJob(j) ==
  /\ j.program \in {"cli", "py"}
  /\ j.batch \in 0..(W - 1)
  /\ j.fits \in BOOLEAN /\ j.pipe \in BOOLEAN
  /\ j.garbage \in 0..(W - 1)
  /\ j.files \in Seq(Seq(Lines)) /\ Len(j.files) <= 1

ASSUME ClientAssumption ==
  /\ W \in Nat \ {0}
  /\ \A jobs \in Jobs :
       DOMAIN jobs = Clients /\ \A c \in Clients : IsJob(jobs[c])

VARIABLES
  job,           (* the command lines                                      *)
  pc,            (* where each client is                                   *)
  read,          (* lines it has read                                      *)
  cnt,           (* cnt                                                    *)
  batch,         (* strings or ids, the one that is used                   *)
  out            (* lines it has printed                                   *)

locals == <<job, pc, read, cnt, batch, out>>
vars   == <<process, wires, locals>>

PcStates == {"off", "parsed", "pinging", "looping", "asking", "lastAsking",
             "done", "failed"}

TypeOK ==
  /\ ServerTypeOK
  /\ job \in Jobs
  /\ pc \in [Clients -> PcStates]
  /\ read \in [Clients -> Nat]
  /\ cnt \in [Clients -> 0..(W - 1)]
  /\ \A c \in Clients : pc[c] \in {"off", "parsed", "done", "failed"} => ~open[c]

Init ==
  /\ ServerInit
  /\ job \in Jobs
  /\ pc = [c \in Clients |-> "off"]
  /\ read = [c \in Clients |-> 0]
  /\ cnt = [c \in Clients |-> 0]
  /\ batch = [c \in Clients |-> <<>>]
  /\ out = [c \in Clients |-> <<>>]

-----------------------------------------------------------------------------

Data(c) == job[c].files[1]

IsCli(c) == job[c].program = "cli"

(***************************************************************************)
(* The client is through, and its end of the connection closed.            *)
(***************************************************************************)
Quit(c, how) ==
  /\ pc' = [pc EXCEPT ![c] = how]
  /\ Close(c)
  /\ UNCHANGED <<job, read, cnt>>

Fail(c) == Quit(c, "failed") /\ UNCHANGED <<batch, out>>

(***************************************************************************)
(* numeratorcli throws for a batch of 0; client.py takes it for 1.         *)
(***************************************************************************)
parse_cmd_line_args(c) ==
  /\ job[c].type \in {"s2i", "i2s"}
  /\ IsCli(c) => job[c].batch > 0

split_host_port(c) == job[c].fits

Start(c) ==
  /\ pc[c] = "off"
  /\ pc' = [pc EXCEPT ![c] =
              IF parse_cmd_line_args(c) /\ split_host_port(c) THEN "parsed"
              ELSE "failed"]
  /\ UNCHANGED <<process, wires, job, read, cnt, batch, out>>

(***************************************************************************)
(* transport->open() and the ping, which needs an answer.                  *)
(***************************************************************************)
Open(c) ==
  /\ pc[c] = "parsed"
  /\ Connect(c, Ping)
  /\ pc' = [pc EXCEPT ![c] = "pinging"]
  /\ UNCHANGED <<job, read, cnt, batch, out>>

OpenRefused(c) ==
  /\ pc[c] = "parsed"
  /\ stage # "accepting"
  /\ Fail(c)

(***************************************************************************)
(* run() begins: the file is opened, cnt is what the stack holds.          *)
(***************************************************************************)
BeginLoop(c) ==
  /\ pc[c] = "pinging"
  /\ answer[c] # None
  /\ \/ /\ job[c].files # <<>>
        /\ pc' = [pc EXCEPT ![c] = "looping"]
        /\ cnt' = [cnt EXCEPT ![c] = IF IsCli(c) THEN job[c].garbage ELSE 0]
        /\ Consume(c)
        /\ UNCHANGED <<job, read, batch, out>>
     \/ job[c].files = <<>> /\ Fail(c)

(***************************************************************************)
(* What a line asks for.  lexical_cast takes no spaces, int() does, and    *)
(* client.py strips every line.                                            *)
(***************************************************************************)
Item(c, line) ==
  LET text == IF IsCli(c) THEN line ELSE Strip(line)
  IN  IF job[c].type = "i2s" THEN IdIn(text) ELSE text

Query(c, items) == [op |-> job[c].type, items |-> items]

IncrementedUnbounded(n) == n + 1

Incremented(n) == IF n = W - 1 THEN 0 ELSE n + 1

(***************************************************************************)
(* One turn of the loop: the batch is asked for when it is full.           *)
(***************************************************************************)
ReadLine(c) ==
  LET item == Item(c, Data(c)[read[c] + 1])
      n    == Incremented(cnt[c])
  IN
  /\ pc[c] = "looping"
  /\ read[c] < Len(Data(c))
  /\ item # None
  /\ read' = [read EXCEPT ![c] = @ + 1]
  /\ cnt' = [cnt EXCEPT ![c] = n]
  /\ batch' = [batch EXCEPT ![c] = Append(@, item)]
  /\ IF n >= job[c].batch
     THEN pc' = [pc EXCEPT ![c] = "asking"] /\ Ask(c, Query(c, batch'[c]))
     ELSE UNCHANGED <<pc, process, wires>>
  /\ UNCHANGED <<job, out>>

(***************************************************************************)
(* bad_lexical_cast, ValueError.                                           *)
(***************************************************************************)
BadLine(c) ==
  /\ pc[c] = "looping"
  /\ read[c] < Len(Data(c))
  /\ Item(c, Data(c)[read[c] + 1]) = None
  /\ Fail(c)

RestNever(c) == FALSE

(***************************************************************************)
(* The test that there is something left to ask for.                       *)
(***************************************************************************)
Rest(c) == IF IsCli(c) THEN cnt[c] > 0 ELSE batch[c] # <<>>

EndOfFile(c) ==
  /\ pc[c] = "looping"
  /\ read[c] = Len(Data(c))
  /\ IF Rest(c)
     THEN /\ pc' = [pc EXCEPT ![c] = "lastAsking"]
          /\ Ask(c, Query(c, batch[c]))
          /\ UNCHANGED <<job, read, cnt, batch, out>>
     ELSE Quit(c, "done") /\ UNCHANGED <<batch, out>>

-----------------------------------------------------------------------------

NotFound == "!!! NOT FOUND !!!"

PrintedFromOne(r) ==
  [i \in DOMAIN r.result |-> IF i \in r.failures THEN NotFound ELSE r.result[i]]

(***************************************************************************)
(* The lines that do_query prints; failures counts from 0.                 *)
(***************************************************************************)
Printed(r) ==
  [i \in DOMAIN r.result |->
     IF i - 1 \in r.failures THEN NotFound ELSE r.result[i]]

Answered(c) ==
  /\ pc[c] \in {"asking", "lastAsking"}
  /\ answer[c] # None /\ answer[c].kind # "refused"
  /\ out' = [out EXCEPT ![c] = @ \o Printed(answer[c])]

NextBatchKept(c) ==
  /\ pc[c] = "asking"
  /\ Answered(c)
  /\ pc' = [pc EXCEPT ![c] = "looping"]
  /\ cnt' = [cnt EXCEPT ![c] = 0]
  /\ Consume(c)
  /\ UNCHANGED <<job, read, batch>>

NextBatch(c) ==
  /\ pc[c] = "asking"
  /\ Answered(c)
  /\ pc' = [pc EXCEPT ![c] = "looping"]
  /\ cnt' = [cnt EXCEPT ![c] = 0]
  /\ batch' = [batch EXCEPT ![c] = <<>>]
  /\ Consume(c)
  /\ UNCHANGED <<job, read>>

LastBatch(c) ==
  /\ pc[c] = "lastAsking"
  /\ Answered(c)
  /\ batch' = [batch EXCEPT ![c] = <<>>]
  /\ Quit(c, "done")

Refused(c) ==
  /\ pc[c] \in {"asking", "lastAsking"}
  /\ answer[c] # None /\ answer[c].kind = "refused"
  /\ Fail(c)

(***************************************************************************)
(* The server has hung up: TTransportException.                            *)
(***************************************************************************)
ConnectionLost(c) ==
  /\ pc[c] \in {"pinging", "asking", "lastAsking"}
  /\ conn[c] = "none" /\ answer[c] = None
  /\ Fail(c)

Killed(c) ==
  /\ pc[c] \notin {"off", "done", "failed"}
  /\ Fail(c)

-----------------------------------------------------------------------------

AwaitStep(c) == BeginLoop(c) \/ NextBatch(c) \/ LastBatch(c) \/ Refused(c)
                  \/ ConnectionLost(c)

InputStep(c) == ReadLine(c) \/ BadLine(c) \/ EndOfFile(c)

ClientStep(c) == Open(c) \/ OpenRefused(c) \/ AwaitStep(c) \/ InputStep(c)

Next ==
  \/ ServerNext /\ UNCHANGED locals
  \/ \E c \in Clients : Start(c) \/ ClientStep(c) \/ Killed(c)

Spec == Init /\ [][Next]_vars

(***************************************************************************)
(* The server's threads run, the handler answers (module Numerator shows   *)
(* that it does), and so does a client, but nobody need start one, nor     *)
(* need a pipe have another line.                                          *)
(***************************************************************************)
FairSpec ==
  /\ Spec
  /\ WF_vars(main /\ UNCHANGED locals)
  /\ WF_vars(sigwaiter /\ UNCHANGED locals)
  /\ WF_vars(Take /\ UNCHANGED locals)
  /\ \A c \in Clients :
       /\ WF_vars(Serve(c) /\ UNCHANGED locals)
       /\ WF_vars(Open(c) \/ OpenRefused(c) \/ AwaitStep(c)
                    \/ (~job[c].pipe /\ InputStep(c)))

-----------------------------------------------------------------------------
(***************************************************************************)
(* Properties.                                                             *)
(***************************************************************************)

(***************************************************************************)
(* The line that should come out for a line of the file.                   *)
(***************************************************************************)
Expected(c, line) ==
  LET item == Item(c, line)
  IN  IF job[c].type = "s2i" THEN IdOf(item)
      ELSE IF StringOf(item) = None THEN NotFound ELSE StringOf(item)

(***************************************************************************)
(* Output and input stay in step, whatever is in cnt and whoever fails:    *)
(* the k-th line printed belongs to the k-th line of the file, and a line  *)
(* that was read is printed or still in the batch.                         *)
(***************************************************************************)
OutputRight ==
  \A c \in Clients :
    /\ \A k \in DOMAIN out[c] : out[c][k] = Expected(c, Data(c)[k])
    /\ Len(out[c]) + Len(batch[c]) = read[c]

(***************************************************************************)
(* cnt was -1, so that it is 0 after the first line.                       *)
(***************************************************************************)
CountWrapped(c) == IsCli(c) /\ job[c].garbage = W - 1

(***************************************************************************)
(* A client that ends well has printed a line for every line of its file,  *)
(* with whatever cnt began, except that a count of -1 drops the only line  *)
(* of a file.                                                              *)
(***************************************************************************)
AllAsked ==
  \A c \in Clients :
    pc[c] = "done" =>
      \/ Len(out[c]) = Len(Data(c))
      \/ CountWrapped(c) /\ Len(Data(c)) = 1

(***************************************************************************)
(* No query is larger than the batch size that was asked for, except that  *)
(* the first one of a count of -1 has a line more.                         *)
(***************************************************************************)
BatchBound ==
  \A c \in Clients :
    request[c] # None =>
      \/ Len(request[c].items) <= job[c].batch
      \/ ~IsCli(c) /\ job[c].batch = 0 /\ Len(request[c].items) = 1
      \/ CountWrapped(c) /\ out[c] = <<>> /\ Len(request[c].items) = job[c].batch + 1

(***************************************************************************)
(* A signal that finds the server accepting ends it, however many          *)
(* connections are idle and whoever waits for a worker.                    *)
(***************************************************************************)
SignalEnds ==
  (stage = "accepting" /\ waiter = "waiting" /\ pending # {}) ~> stage = "ended"

(***************************************************************************)
(* Every client ends and each waits in vain for none, with fewer workers   *)
(* than clients, as long as no client holds its worker for a pipe.         *)
(***************************************************************************)
ClientsEnd ==
  []<>((\E c \in Clients : job[c].pipe)
         \/ \A c \in Clients : pc[c] \in {"off", "done", "failed"})

(***************************************************************************)
(* signal_handler.cpp 38: a signal is received, the process is "exiting".  *)
(***************************************************************************)
SignalReceivedEnds == waiter = "stopping" ~> stage = "ended"
=============================================================================
