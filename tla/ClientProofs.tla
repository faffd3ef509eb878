---------------------------- MODULE ClientProofs ----------------------------
(***************************************************************************)
(* Theorems about Client: what the clients print and ask for is right for  *)
(* any number of clients and workers, any files, command lines and width   *)
(* of size_t, whatever fails.                                              *)
(***************************************************************************)
EXTENDS Client, SequenceTheorems, FiniteSetTheorems, TLAPS

-----------------------------------------------------------------------------
(***************************************************************************)
(* What a line can ask for, and what can be printed.                       *)
(***************************************************************************)
Items == Lines \cup {Strip(l) : l \in Lines}
           \cup {IdIn(l) : l \in Lines} \cup {IdIn(Strip(l)) : l \in Lines}

Prints == {NotFound, ""} \cup {IdOf(i) : i \in Items} \cup {StringOf(i) : i \in Items}

(***************************************************************************)
(* The client's end of its connection is open.                             *)
(***************************************************************************)
Connected == {"pinging", "looping", "asking", "lastAsking"}

Asking == {"asking", "lastAsking"}

(***************************************************************************)
(* The variables are functions of the clients.                             *)
(***************************************************************************)
Shapes ==
  /\ job \in Jobs
  /\ conn \in [Clients -> ConnStates]
  /\ DOMAIN open = Clients /\ DOMAIN request = Clients /\ DOMAIN answer = Clients
  /\ DOMAIN pc = Clients
  /\ read \in [Clients -> Nat]
  /\ cnt \in [Clients -> 0..(W - 1)]
  /\ batch \in [Clients -> Seq(Items)]
  /\ out \in [Clients -> Seq(Prints)]

(***************************************************************************)
(* One call at a time: what is under way is the ping or asks for the       *)
(* batch, and the answer that waits is the answer to that.                 *)
(***************************************************************************)
OneCall(c) ==
  /\ pc[c] \in PcStates
  /\ answer[c] # None => request[c] = None
  /\ conn[c] = "handling" => request[c] # None
  /\ open[c] <=> pc[c] \in Connected
  /\ ~open[c] => answer[c] = None
  /\ pc[c] \in {"off", "parsed", "looping"} => request[c] = None /\ answer[c] = None
  /\ request[c] # None => request[c] \in {Ping, Query(c, batch[c])}
  /\ pc[c] \in Asking /\ request[c] # None => request[c] = Query(c, batch[c])
  /\ pc[c] \in Asking /\ answer[c] # None
       => answer[c] \in {ResponseTo(Query(c, batch[c])), Refusal}

(***************************************************************************)
(* The file splits into what is printed, what is in the batch and what is  *)
(* still to be read.                                                       *)
(***************************************************************************)
InStep(c) ==
  /\ pc[c] \in {"off", "parsed", "pinging"} => out[c] = <<>> /\ batch[c] = <<>>
  /\ pc[c] \in {"parsed"} \cup Connected => parse_cmd_line_args(c)
  /\ pc[c] \in {"looping", "done"} \cup Asking => job[c].files # <<>>
  /\ Len(out[c]) + Len(batch[c]) = read[c]
  /\ read[c] > 0 => job[c].files # <<>> /\ read[c] <= Len(Data(c))
  /\ pc[c] \in {"lastAsking", "done"} => read[c] = Len(Data(c))
  /\ \A k \in DOMAIN out[c] : out[c][k] = Expected(c, Data(c)[k])
  /\ \A k \in DOMAIN batch[c] :
       batch[c][k] = Item(c, Data(c)[Len(out[c]) + k])

(***************************************************************************)
(* The count is at least the batch, and below the batch size, unless it    *)
(* was -1: then it is one less than the first batch.                       *)
(***************************************************************************)
Behind(c) == CountWrapped(c) /\ out[c] = <<>> /\ cnt[c] = Len(batch[c]) - 1

Counted(c) ==
  /\ pc[c] = "looping" /\ batch[c] # <<>> =>
       cnt[c] < job[c].batch /\ (cnt[c] >= Len(batch[c]) \/ Behind(c))
  /\ pc[c] = "looping" /\ batch[c] = <<>> =>
       \/ cnt[c] = 0
       \/ IsCli(c) /\ out[c] = <<>> /\ cnt[c] = job[c].garbage

(***************************************************************************)
(* The parts of BatchBound and AllAsked that are about one client.         *)
(***************************************************************************)
Bounded(c) ==
  request[c] # None =>
    \/ Len(request[c].items) <= job[c].batch
    \/ ~IsCli(c) /\ job[c].batch = 0 /\ Len(request[c].items) = 1
    \/ CountWrapped(c) /\ out[c] = <<>> /\ Len(request[c].items) = job[c].batch + 1

AtEnd(c) ==
  pc[c] = "done" => \/ batch[c] = <<>>
                    \/ CountWrapped(c) /\ Len(Data(c)) = 1

ClientInv(c) == OneCall(c) /\ InStep(c) /\ Counted(c) /\ Bounded(c) /\ AtEnd(c)

SessionInv == Shapes /\ \A c \in Clients : ClientInv(c)

-----------------------------------------------------------------------------
(***************************************************************************)
(* A command line is one that ClientAssumption allows, and its file holds  *)
(* lines.                                                                  *)
(***************************************************************************)
LEMMA JobFacts ==
  ASSUME job \in Jobs, NEW c \in Clients
  PROVE  /\ IsJob(job[c])
         /\ job[c].files # <<>> => Data(c) \in Seq(Lines)
<1>1. IsJob(job[c])
  BY ClientAssumption
<1>2. ASSUME job[c].files # <<>> PROVE Data(c) \in Seq(Lines)
  <2>1. job[c].files \in Seq(Seq(Lines)) /\ Len(job[c].files) <= 1
    BY <1>1 DEF IsJob
  <2>2. Len(job[c].files) # 0
    BY <1>2, <2>1, EmptySeq
  <2>3. 1 \in 1..Len(job[c].files)
    BY <2>1, <2>2, LenProperties
  <2>4. QED
    BY <2>1, <2>3, ElementOfSeq DEF Data
<1>3. QED
  BY <1>1, <1>2

(***************************************************************************)
(* A line becomes an item of a query, whichever program reads it.          *)
(***************************************************************************)
LEMMA ItemIsOne ==
  ASSUME NEW c, NEW l \in Lines
  PROVE  Item(c, l) \in Items
BY DEF Item, Items

(***************************************************************************)
(* What is printed for an item.                                            *)
(***************************************************************************)
PrintOf(c, item) ==
  IF job[c].type = "s2i" THEN IdOf(item)
  ELSE IF StringOf(item) = None THEN NotFound ELSE StringOf(item)

(***************************************************************************)
(* The answer to a query is printed as one line for each item, in order.   *)
(***************************************************************************)
LEMMA PrintedInOrder ==
  ASSUME NEW c, job[c].type \in {"s2i", "i2s"},
         NEW items \in Seq(Items)
  PROVE  LET p == Printed(ResponseTo(Query(c, items)))
         IN  /\ p \in Seq(Prints)
             /\ Len(p) = Len(items)
             /\ \A i \in DOMAIN items : p[i] = PrintOf(c, items[i])
<1> DEFINE p == Printed(ResponseTo(Query(c, items)))
<1>1. Len(items) \in Nat /\ DOMAIN items = 1..Len(items)
  BY LenProperties
<1>2. \A i \in DOMAIN items : items[i] \in Items
  BY ElementOfSeq, <1>1
<1>3. /\ DOMAIN p = DOMAIN items
      /\ \A i \in DOMAIN items : p[i] = PrintOf(c, items[i])
      /\ p = [i \in DOMAIN p |-> p[i]]
  <2>1. CASE job[c].type = "s2i"
    <3>1. ResponseTo(Query(c, items))
            = Response("ids", [i \in DOMAIN items |-> IdOf(items[i])], {})
      BY <2>1 DEF ResponseTo, Query
    <3>2. p = [i \in DOMAIN items |-> IdOf(items[i])]
      BY <3>1 DEF Printed, Response
    <3>3. QED BY <2>1, <3>2 DEF PrintOf
  <2>2. CASE job[c].type = "i2s"
    <3> DEFINE missing == {i \in DOMAIN items : StringOf(items[i]) = None}
               result == [i \in DOMAIN items |->
                            IF i \in missing THEN "" ELSE StringOf(items[i])]
               failures == {i - 1 : i \in missing}
    <3>1. ResponseTo(Query(c, items)) = Response("strings", result, failures)
      BY <2>2 DEF ResponseTo, Query
    <3>2. \A i \in DOMAIN items : i - 1 \in failures <=> StringOf(items[i]) = None
      BY <1>1
    <3>3. /\ DOMAIN result = DOMAIN items
          /\ \A i \in DOMAIN items : StringOf(items[i]) # None => result[i] = StringOf(items[i])
      OBVIOUS
    <3> HIDE DEF missing, result, failures
    <3>4. p = [i \in DOMAIN result |-> IF i - 1 \in failures THEN NotFound ELSE result[i]]
      BY <3>1 DEF Printed, Response
    <3>5. QED BY <2>2, <3>2, <3>3, <3>4 DEF PrintOf
  <2>3. QED BY <2>1, <2>2
<1>4. \A i \in DOMAIN items : p[i] \in Prints
  BY <1>2, <1>3 DEF PrintOf, Prints
<1> HIDE DEF p
<1>5. p \in [1..Len(items) -> Prints]
  BY <1>1, <1>3, <1>4
<1>6. p \in Seq(Prints) /\ Len(p) = Len(items)
  BY <1>1, <1>5
<1>7. QED
  BY <1>3, <1>6 DEF p

-----------------------------------------------------------------------------
(***************************************************************************)
(* What a step of the server may do to a connection: nothing that matters, *)
(* drop it and its call, or answer the call it handles.                    *)
(***************************************************************************)
Untouched(c) ==
  /\ request'[c] = request[c] /\ answer'[c] = answer[c]
  /\ conn'[c] = "handling" => conn[c] = "handling" \/ request[c] # None

Dropped(c) ==
  request'[c] = None /\ answer'[c] = answer[c] /\ conn'[c] # "handling"

AnsweredNow(c) ==
  /\ conn[c] = "handling" /\ conn'[c] # "handling" /\ request'[c] = None
  /\ answer'[c] \in {None, ResponseTo(request[c]), Refusal}
  /\ ~open[c] => answer'[c] = None

ServerTouch(c) == Untouched(c) \/ Dropped(c) \/ AnsweredNow(c)

Ends ==
  /\ conn' \in [Clients -> ConnStates]
  /\ open' = open
  /\ DOMAIN request' = Clients /\ DOMAIN answer' = Clients
  /\ \A c \in Clients : ServerTouch(c)

(***************************************************************************)
(* The end of the server closes its end of every connection and does       *)
(* nothing else to the clients.                                            *)
(***************************************************************************)
LEMMA EndTouches ==
  ASSUME Shapes, End
  PROVE  Ends
BY DEF End, Ends, ServerTouch, Dropped, ConnStates, Shapes

(***************************************************************************)
(* A step of the server that leaves the connections alone is within what a *)
(* server may do to them.                                                  *)
(***************************************************************************)
LEMMA WiresKept ==
  ASSUME Shapes, UNCHANGED wires
  PROVE  Ends
BY DEF wires, Ends, ServerTouch, Untouched, Shapes

(***************************************************************************)
(* So is an answer: it takes the request and leaves the response to it.    *)
(***************************************************************************)
LEMMA ReplyTouches ==
  ASSUME Shapes, NEW d \in Clients, NEW r \in {ResponseTo(request[d]), Refusal},
         Reply(d, r)
  PROVE  Ends
<1>1. conn' \in [Clients -> ConnStates]
  BY DEF Reply, Shapes, ConnStates
<1>2. /\ open' = open
      /\ DOMAIN request' = Clients /\ DOMAIN answer' = Clients
  BY DEF Reply, Shapes
<1>3. AnsweredNow(d)
  BY DEF AnsweredNow, Reply, Shapes
<1>4. \A c \in Clients \ {d} : Untouched(c)
  BY DEF Untouched, Reply, Shapes
<1>5. QED
  BY <1>1, <1>2, <1>3, <1>4 DEF Ends, ServerTouch

(***************************************************************************)
(* Every step of the server is.                                            *)
(***************************************************************************)
LEMMA ServerTouches ==
  ASSUME Shapes, ServerNext
  PROVE  Ends
<1>1. CASE init_signals \/ Load \/ StartSigwaiter \/ Listen \/ Restart \/ sigwaiter
             \/ \E s \in Signals : Raise(s)
  BY <1>1, WiresKept DEF init_signals, Load, StartSigwaiter, Listen, Become, Restart,
                         sigwaiter, TakeSignal, StopChildren, StopAccept, Raise
<1>2. CASE Done \/ Kill \/ LoadFails \/ ListenFails \/ \E c \in Clients : Exit(c)
  BY <1>2, EndTouches DEF Done, Kill, LoadFails, ListenFails, Exit
<1>3. CASE LeaveAccept
  BY <1>3 DEF LeaveAccept, Ends, ServerTouch, Untouched, Dropped, Shapes, ConnStates
<1>4. CASE Take
  BY <1>4 DEF Take, Ends, ServerTouch, Untouched, Shapes, ConnStates
<1>5. ASSUME NEW d \in Clients, Accept(d) \/ ReadCall(d)
      PROVE  Ends
  BY <1>5 DEF Accept, ReadCall, Ends, ServerTouch, Untouched, Shapes, ConnStates
<1>6. ASSUME NEW d \in Clients, HangUp(d)
      PROVE  Ends
  BY <1>6 DEF HangUp, Ends, ServerTouch, Untouched, Dropped, Shapes, ConnStates
<1>7. ASSUME NEW d \in Clients, Handle(d) \/ Refuse(d)
      PROVE  Ends
  BY <1>7, ReplyTouches DEF Handle, Refuse
<1>8. QED
  BY <1>1, <1>2, <1>3, <1>4, <1>5, <1>6, <1>7
     DEF ServerNext, main, Serve, Operator, Failure

(***************************************************************************)
(* The server leaves every client's part of the invariant alone.           *)
(***************************************************************************)
LEMMA ServerKeeps ==
  ASSUME SessionInv, ServerNext, UNCHANGED locals
  PROVE  SessionInv'
<1>1. Ends
  BY ServerTouches DEF SessionInv
<1>2. Shapes'
  BY <1>1 DEF Ends, SessionInv, Shapes, locals
<1>3. ASSUME NEW c \in Clients PROVE ClientInv(c)'
  <2>1. ClientInv(c) /\ ServerTouch(c) /\ open' = open
    BY <1>1, <1>3 DEF SessionInv, Ends
  <2>2. InStep(c)' /\ Counted(c)' /\ AtEnd(c)'
    BY <2>1 DEF ClientInv, InStep, Counted, Behind, AtEnd, CountWrapped, locals, Data,
                Item, Expected, IsCli, parse_cmd_line_args
  <2>3. request'[c] = request[c] \/ request'[c] = None
    BY <2>1 DEF ServerTouch, Untouched, Dropped, AnsweredNow
  <2>4. Bounded(c)'
    BY <2>1, <2>3 DEF ClientInv, Bounded, CountWrapped, IsCli, locals
  <2>5. Query(c, batch[c])' = Query(c, batch[c])
    BY DEF Query, locals
  <2>6. OneCall(c)'
    <3>1. CASE Untouched(c)
      BY <2>1, <2>5, <3>1 DEF ClientInv, OneCall, Untouched, locals
    <3>2. CASE Dropped(c)
      BY <2>1, <2>5, <3>2 DEF ClientInv, OneCall, Dropped, locals
    <3>3. CASE AnsweredNow(c)
      BY <2>1, <2>5, <3>3 DEF ClientInv, OneCall, AnsweredNow, locals
    <3>4. QED BY <2>1, <3>1, <3>2, <3>3 DEF ServerTouch
  <2>7. QED BY <2>2, <2>4, <2>6 DEF ClientInv
<1>4. QED
  BY <1>2, <1>3 DEF SessionInv

-----------------------------------------------------------------------------
(***************************************************************************)
(* A client's part of the invariant is about that client only.             *)
(***************************************************************************)
Same(c) ==
  /\ pc'[c] = pc[c] /\ read'[c] = read[c] /\ cnt'[c] = cnt[c]
  /\ batch'[c] = batch[c] /\ out'[c] = out[c]
  /\ conn'[c] = conn[c] /\ (open'[c] <=> open[c])
  /\ request'[c] = request[c] /\ answer'[c] = answer[c]

(***************************************************************************)
(* A client keeps its part of the invariant while nothing of it changes.   *)
(***************************************************************************)
LEMMA SameKept ==
  ASSUME NEW c, ClientInv(c), job' = job, Same(c)
  PROVE  ClientInv(c)'
<1>1. OneCall(c)'
  BY DEF ClientInv, OneCall, Same, Query
<1>2. InStep(c)'
  <2>1. \A k \in DOMAIN out'[c] : (out[c][k] = Expected(c, Data(c)[k]))'
    BY DEF ClientInv, InStep, Same, Data, Item, Expected, IsCli
  <2>2. \A k \in DOMAIN batch'[c] : (batch[c][k] = Item(c, Data(c)[Len(out[c]) + k]))'
    BY DEF ClientInv, InStep, Same, Data, Item, IsCli
  <2>3. (/\ pc[c] \in {"parsed"} \cup Connected => parse_cmd_line_args(c)
         /\ read[c] > 0 => job[c].files # <<>> /\ read[c] <= Len(Data(c))
         /\ pc[c] \in {"lastAsking", "done"} => read[c] = Len(Data(c)))'
    BY DEF ClientInv, InStep, Same, Data, IsCli, parse_cmd_line_args
  <2>4. QED
    BY <2>1, <2>2, <2>3 DEF ClientInv, InStep, Same
<1>3. Counted(c)'
  BY DEF ClientInv, Counted, Behind, CountWrapped, Same, IsCli
<1>4. Bounded(c)' /\ AtEnd(c)'
  BY DEF ClientInv, Bounded, AtEnd, CountWrapped, Same, Data, IsCli
<1>5. QED
  BY <1>1, <1>2, <1>3, <1>4 DEF ClientInv

(***************************************************************************)
(* A step that changes one client keeps the invariant if that client keeps *)
(* its part.                                                               *)
(***************************************************************************)
LEMMA OneClient ==
  ASSUME SessionInv, NEW d \in Clients, job' = job, Shapes',
         \A c \in Clients \ {d} : Same(c),
         ClientInv(d)'
  PROVE  SessionInv'
<1>1. \A c \in Clients : ClientInv(c)
  BY DEF SessionInv
<1>2. \A c \in Clients \ {d} : ClientInv(c)'
  BY <1>1, SameKept
<1>3. QED
  BY <1>2 DEF SessionInv

(***************************************************************************)
(* A client may give up anywhere: what it has printed stays right.         *)
(***************************************************************************)
LEMMA FailKeeps ==
  ASSUME SessionInv, NEW d \in Clients, Fail(d)
  PROVE  SessionInv'
<1>1. /\ pc' = [pc EXCEPT ![d] = "failed"]
      /\ open' = [open EXCEPT ![d] = FALSE] /\ answer' = [answer EXCEPT ![d] = None]
      /\ UNCHANGED <<conn, request, job, read, cnt, batch, out>>
  BY DEF Fail, Quit, Close
<1>2. Shapes'
  BY <1>1 DEF SessionInv, Shapes
<1>3. \A c \in Clients \ {d} : Same(c)
  BY <1>1 DEF Same, SessionInv, Shapes
<1>4. ClientInv(d)
  BY DEF SessionInv
<1>5. pc'[d] = "failed" /\ ~open'[d] /\ answer'[d] = None
  BY <1>1 DEF SessionInv, Shapes
<1>6. OneCall(d)'
  BY <1>1, <1>4, <1>5 DEF ClientInv, OneCall, PcStates, Connected, Asking, Query
<1>7. InStep(d)'
  BY <1>1, <1>4, <1>5 DEF ClientInv, InStep, Connected, Asking, Data, Item, Expected, IsCli
<1>8. Counted(d)' /\ Bounded(d)' /\ AtEnd(d)'
  BY <1>1, <1>4, <1>5 DEF ClientInv, Counted, Bounded, AtEnd, CountWrapped, IsCli
<1>9. QED
  BY <1>1, <1>2, <1>3, <1>6, <1>7, <1>8, OneClient DEF ClientInv

(***************************************************************************)
(* A client starts with nothing read and nothing printed.                  *)
(***************************************************************************)
LEMMA StartKeeps ==
  ASSUME SessionInv, NEW d \in Clients, Start(d)
  PROVE  SessionInv'
<1>1. PICK how \in {"parsed", "failed"} :
        /\ pc' = [pc EXCEPT ![d] = how]
        /\ how = "parsed" => parse_cmd_line_args(d)
  BY DEF Start
<1>2. /\ pc[d] = "off"
      /\ UNCHANGED <<conn, open, request, answer, job, read, cnt, batch, out>>
  BY DEF Start, wires
<1>3. Shapes'
  BY <1>1, <1>2 DEF SessionInv, Shapes
<1>4. pc'[d] = how /\ \A c \in Clients \ {d} : Same(c)
  BY <1>1, <1>2 DEF Same, SessionInv, Shapes
<1>5. ClientInv(d)
  BY DEF SessionInv
<1>6. OneCall(d)'
  BY <1>2, <1>4, <1>5 DEF ClientInv, OneCall, PcStates, Connected, Asking, Query
<1>7. InStep(d)'
  BY <1>1, <1>2, <1>4, <1>5
     DEF ClientInv, InStep, Connected, Asking, Data, Item, Expected, IsCli, parse_cmd_line_args
<1>8. Counted(d)' /\ Bounded(d)' /\ AtEnd(d)'
  BY <1>2, <1>4, <1>5 DEF ClientInv, Counted, Bounded, AtEnd, CountWrapped, IsCli
<1>9. QED
  BY <1>2, <1>3, <1>4, <1>6, <1>7, <1>8, OneClient DEF ClientInv

(***************************************************************************)
(* The first call of a connection is the ping.                             *)
(***************************************************************************)
LEMMA OpenKeeps ==
  ASSUME SessionInv, NEW d \in Clients, Open(d)
  PROVE  SessionInv'
<1>1. /\ pc[d] = "parsed"
      /\ pc' = [pc EXCEPT ![d] = "pinging"]
      /\ conn' = [conn EXCEPT ![d] = "backlog"]
      /\ open' = [open EXCEPT ![d] = TRUE] /\ request' = [request EXCEPT ![d] = Ping]
      /\ UNCHANGED <<answer, job, read, cnt, batch, out>>
  BY DEF Open, Connect
<1>2. Shapes'
  BY <1>1 DEF SessionInv, Shapes, ConnStates
<1>3. \A c \in Clients \ {d} : Same(c)
  BY <1>1 DEF Same, SessionInv, Shapes
<1>4. ClientInv(d)
  BY DEF SessionInv
<1>5. pc'[d] = "pinging" /\ open'[d] /\ request'[d] = Ping /\ conn'[d] = "backlog"
  BY <1>1 DEF SessionInv, Shapes
<1>6. OneCall(d)'
  BY <1>1, <1>4, <1>5 DEF ClientInv, OneCall, PcStates, Connected, Asking, Query
<1>7. InStep(d)'
  BY <1>1, <1>4, <1>5
     DEF ClientInv, InStep, Connected, Asking, Data, Item, Expected, IsCli, parse_cmd_line_args
<1>8. Counted(d)' /\ AtEnd(d)'
  BY <1>1, <1>4, <1>5 DEF ClientInv, Counted, AtEnd
<1>9. Bounded(d)'
  <2>1. Len(Ping.items) = 0 /\ job[d].batch >= 0
    BY JobFacts, ClientAssumption DEF IsJob, Ping, SessionInv, Shapes
  <2>2. QED BY <1>1, <1>5, <2>1, JobFacts, ClientAssumption
               DEF Bounded, SessionInv, Shapes, IsJob
<1>10. QED
  BY <1>1, <1>2, <1>3, <1>6, <1>7, <1>8, <1>9, OneClient DEF ClientInv

(***************************************************************************)
(* The loop over the file begins with an empty batch.                      *)
(***************************************************************************)
LEMMA BeginKeeps ==
  ASSUME SessionInv, NEW d \in Clients, BeginLoop(d)
  PROVE  SessionInv'
<1>1. CASE Fail(d)
  BY <1>1, FailKeeps
<1>2. CASE ~Fail(d)
  <2>0. ClientInv(d) /\ IsJob(job[d])
    BY JobFacts DEF SessionInv, Shapes
  <2>1. PICK n \in 0..(W - 1) :
          /\ cnt' = [cnt EXCEPT ![d] = n]
          /\ n = 0 \/ (IsCli(d) /\ n = job[d].garbage)
    BY <1>2, <2>0, ClientAssumption DEF BeginLoop, IsJob
  <2>2. /\ pc[d] = "pinging" /\ answer[d] # None /\ job[d].files # <<>>
        /\ pc' = [pc EXCEPT ![d] = "looping"]
        /\ answer' = [answer EXCEPT ![d] = None]
        /\ UNCHANGED <<conn, open, request, job, read, batch, out>>
    BY <1>2 DEF BeginLoop, Consume
  <2>3. Shapes'
    BY <2>1, <2>2 DEF SessionInv, Shapes
  <2>4. \A c \in Clients \ {d} : Same(c)
    BY <2>1, <2>2 DEF Same, SessionInv, Shapes
  <2>5. pc'[d] = "looping" /\ answer'[d] = None /\ cnt'[d] = n /\ request[d] = None
    BY <2>0, <2>1, <2>2 DEF SessionInv, Shapes, ClientInv, OneCall
  <2>6. OneCall(d)'
    BY <2>0, <2>2, <2>5 DEF ClientInv, OneCall, PcStates, Connected, Asking, Query
  <2>7. InStep(d)'
    BY <2>0, <2>2, <2>5
       DEF ClientInv, InStep, Connected, Asking, Data, Item, Expected, IsCli, parse_cmd_line_args
  <2>8. Counted(d)'
    BY <2>0, <2>1, <2>2, <2>5 DEF ClientInv, InStep, Counted, IsCli
  <2>9. Bounded(d)' /\ AtEnd(d)'
    BY <2>2, <2>5 DEF Bounded, AtEnd
  <2>10. QED
    BY <2>2, <2>3, <2>4, <2>6, <2>7, <2>8, <2>9, OneClient DEF ClientInv
<1>3. QED BY <1>1, <1>2

-----------------------------------------------------------------------------
(***************************************************************************)
(* A line that is read joins the batch.                                    *)
(***************************************************************************)
LEMMA ReadLineKeeps ==
  ASSUME SessionInv, NEW d \in Clients, ReadLine(d)
  PROVE  SessionInv'
<1> DEFINE item == Item(d, Data(d)[read[d] + 1])
           n == Incremented(cnt[d])
           k == Len(batch[d])
           done == Len(out[d])
           size == Len(Data(d))
<1>1. /\ read' = [read EXCEPT ![d] = @ + 1]
      /\ cnt' = [cnt EXCEPT ![d] = n]
      /\ batch' = [batch EXCEPT ![d] = Append(@, item)]
  BY DEF ReadLine
<1>2. pc[d] = "looping" /\ read[d] < size /\ UNCHANGED <<job, out, conn, open>>
  BY DEF ReadLine, Ask, wires
<1>3. ClientInv(d) /\ Shapes
  BY DEF SessionInv
<1>4. job[d].files # <<>> /\ Data(d) \in Seq(Lines) /\ IsJob(job[d])
  BY <1>2, <1>3, JobFacts DEF ClientInv, InStep, Shapes
<1>5. batch[d] \in Seq(Items) /\ out[d] \in Seq(Prints)
  BY <1>3 DEF Shapes
<1>6. /\ k \in Nat /\ done \in Nat /\ size \in Nat
      /\ DOMAIN batch[d] = 1..k /\ DOMAIN Data(d) = 1..size
  BY <1>4, <1>5, LenProperties
<1>7. read[d] \in Nat /\ read[d] = done + k
  BY <1>3 DEF ClientInv, InStep, Shapes
<1> HIDE DEF item, n, k, done, size
<1>8. read[d] + 1 \in 1..size /\ read[d] + 1 = done + (k + 1) /\ read[d] + 1 <= size
  BY <1>2, <1>6, <1>7
<1>9. item \in Items
  BY <1>4, <1>8, ElementOfSeq, ItemIsOne DEF item, size
<1>10. batch'[d] = Append(batch[d], item)
  BY <1>1, <1>3 DEF Shapes
<1>11. /\ batch'[d] \in Seq(Items) /\ Len(batch'[d]) = k + 1
       /\ \A i \in 1..k : batch'[d][i] = batch[d][i]
       /\ batch'[d][k + 1] = item
  BY <1>5, <1>9, <1>10, AppendProperties DEF k
<1>12. DOMAIN batch'[d] = 1..(k + 1)
  BY <1>11, LenProperties
<1>13. batch'[d] # <<>>
  BY <1>6, <1>11, EmptySeq
<1>14. /\ n \in 0..(W - 1)
       /\ n < job[d].batch =>
            \/ n >= k + 1
            \/ CountWrapped(d) /\ out[d] = <<>> /\ n = k
       /\ n >= job[d].batch =>
            \/ k + 1 <= job[d].batch
            \/ ~IsCli(d) /\ job[d].batch = 0 /\ k = 0
            \/ CountWrapped(d) /\ out[d] = <<>> /\ k = job[d].batch
  <2>1. /\ job[d].batch \in 0..(W - 1) /\ job[d].garbage \in 0..(W - 1)
        /\ cnt[d] \in 0..(W - 1)
        /\ IsCli(d) => job[d].batch > 0
    BY <1>2, <1>3, <1>4 DEF IsJob, Shapes, ClientInv, InStep, parse_cmd_line_args, Connected
  <2>2. k > 0 => batch[d] # <<>>
    BY EmptySeq DEF k
  <2>3. k = 0 => batch[d] = <<>>
    BY <1>5, EmptySeq DEF k
  <2>4. k > 0 => /\ cnt[d] < job[d].batch
                 /\ cnt[d] >= k \/ (CountWrapped(d) /\ out[d] = <<>> /\ cnt[d] = k - 1)
    BY <1>2, <1>3, <2>2 DEF ClientInv, Counted, Behind, k
  <2>5. k = 0 => cnt[d] = 0 \/ (IsCli(d) /\ out[d] = <<>> /\ cnt[d] = job[d].garbage)
    BY <1>2, <1>3, <2>3 DEF ClientInv, Counted
  <2> DEFINE cli == IsCli(d)
             first == out[d] = <<>>
  <2>6. /\ CountWrapped(d) <=> cli /\ job[d].garbage = W - 1
        /\ cli \in BOOLEAN /\ first \in BOOLEAN
    BY DEF CountWrapped, IsCli
  <2>7. /\ cli => job[d].batch > 0
        /\ k > 0 => /\ cnt[d] < job[d].batch
                    /\ \/ cnt[d] >= k
                       \/ cli /\ job[d].garbage = W - 1 /\ first /\ cnt[d] = k - 1
        /\ k = 0 => cnt[d] = 0 \/ (cli /\ first /\ cnt[d] = job[d].garbage)
    BY <2>1, <2>4, <2>5, <2>6
  <2> HIDE DEF cli, first
  <2>8. /\ n \in 0..(W - 1)
        /\ n < job[d].batch =>
             \/ n >= k + 1
             \/ cli /\ job[d].garbage = W - 1 /\ first /\ n = k
        /\ n >= job[d].batch =>
             \/ k + 1 <= job[d].batch
             \/ ~cli /\ job[d].batch = 0 /\ k = 0
             \/ cli /\ job[d].garbage = W - 1 /\ first /\ k = job[d].batch
    BY <1>6, <2>1, <2>6, <2>7, ClientAssumption DEF n, Incremented
  <2>9. QED BY <2>6, <2>8 DEF cli, first
<1>15. /\ read' \in [Clients -> Nat] /\ read'[d] = read[d] + 1
       /\ cnt' \in [Clients -> 0..(W - 1)] /\ cnt'[d] = n
  BY <1>1, <1>3, <1>14 DEF Shapes
<1>16. batch' \in [Clients -> Seq(Items)]
  BY <1>1, <1>3, <1>10, <1>11 DEF Shapes
<1>17. ASSUME pc'[d] \in {"looping", "asking"}
       PROVE  InStep(d)' /\ AtEnd(d)'
  <2>1. \A i \in DOMAIN batch'[d] :
          (batch[d][i] = Item(d, Data(d)[Len(out[d]) + i]))'
    <3>1. \A i \in 1..k : batch[d][i] = Item(d, Data(d)[done + i])
      BY <1>3, <1>6 DEF ClientInv, InStep, done
    <3>2. item = Item(d, Data(d)[done + (k + 1)])
      BY <1>8 DEF item
    <3>3. \A i \in 1..(k + 1) : i \in 1..k \/ i = k + 1
      BY <1>6
    <3>4. \A i \in 1..(k + 1) : batch'[d][i] = Item(d, Data(d)[done + i])
      BY <1>11, <3>1, <3>2, <3>3
    <3>5. QED BY <1>2, <1>12, <3>4 DEF Item, Data, IsCli, done
  <2>2. \A i \in DOMAIN out'[d] : (out[d][i] = Expected(d, Data(d)[i]))'
    BY <1>2, <1>3 DEF ClientInv, InStep, Data, Item, Expected, IsCli
  <2>3. (Len(out[d]) + Len(batch[d]) = read[d])'
    <3>1. done + (k + 1) = read'[d]
      BY <1>8, <1>15
    <3>2. QED BY <1>2, <1>11, <3>1 DEF done
  <2>4. (job[d].files # <<>> /\ read[d] <= Len(Data(d)) /\ parse_cmd_line_args(d))'
    <3>1. parse_cmd_line_args(d)
      BY <1>2, <1>3 DEF ClientInv, InStep, Connected
    <3>2. read'[d] <= size
      BY <1>8, <1>15
    <3>3. QED BY <1>2, <1>4, <3>1, <3>2 DEF parse_cmd_line_args, IsCli, Data, size
  <2>5. QED BY <1>17, <2>1, <2>2, <2>3, <2>4 DEF InStep, AtEnd
<1>18. CASE n >= job[d].batch
  <2>1. /\ pc' = [pc EXCEPT ![d] = "asking"]
        /\ Ask(d, Query(d, batch'[d]))
    BY <1>18 DEF ReadLine, n
  <2>2. /\ pc'[d] = "asking" /\ answer'[d] = None
        /\ request'[d] \in {None, Query(d, batch'[d])}
    BY <1>3, <2>1 DEF Ask, Shapes
  <2>3. Query(d, batch'[d]) = Query(d, batch[d])' /\ Query(d, batch'[d]).items = batch'[d]
    BY <1>2 DEF Query
  <2>4. Shapes' /\ \A c \in Clients \ {d} : Same(c)
    <3>1. Shapes'
      BY <1>2, <1>3, <1>15, <1>16, <2>1 DEF Ask, Shapes
    <3>2. QED BY <1>1, <1>2, <1>3, <2>1, <3>1 DEF Ask, Shapes, Same
  <2>5. request[d] = None /\ conn[d] # "handling" /\ open[d]
    BY <1>2, <1>3 DEF ClientInv, OneCall, Connected
  <2>6. OneCall(d)'
    BY <1>2, <2>2, <2>3, <2>5 DEF OneCall, PcStates, Connected, Asking
  <2>7. Counted(d)'
    BY <2>2 DEF Counted
  <2>8. Bounded(d)'
    <3>1. /\ k + 1 <= job[d].batch <=> (Len(batch[d]) <= job[d].batch)'
          /\ (k = 0 => k + 1 = 1)
          /\ k = job[d].batch => k + 1 = job[d].batch + 1
      BY <1>2, <1>11
    <3>2. \/ (Len(batch[d]) <= job[d].batch)'
          \/ (~IsCli(d) /\ job[d].batch = 0 /\ Len(batch[d]) = 1)'
          \/ (CountWrapped(d) /\ out[d] = <<>> /\ Len(batch[d]) = job[d].batch + 1)'
      BY <1>2, <1>11, <1>14, <1>18, <3>1 DEF CountWrapped, IsCli
    <3>3. request'[d] # None => request'[d].items = batch'[d]
      BY <2>2, <2>3
    <3>4. QED BY <3>2, <3>3 DEF Bounded
  <2>9. QED BY <1>2, <1>17, <2>2, <2>4, <2>6, <2>7, <2>8, OneClient DEF ClientInv
<1>19. CASE ~(n >= job[d].batch)
  <2>1. UNCHANGED <<pc, request, answer>>
    BY <1>19 DEF ReadLine, n, wires
  <2>2. Shapes' /\ \A c \in Clients \ {d} : Same(c)
    <3>1. Shapes'
      BY <1>2, <1>3, <1>15, <1>16, <2>1 DEF Shapes
    <3>2. QED BY <1>1, <1>2, <1>3, <2>1, <3>1 DEF Shapes, Same
  <2>3. request[d] = None /\ answer[d] = None /\ conn[d] # "handling" /\ open[d]
    BY <1>2, <1>3 DEF ClientInv, OneCall, Connected
  <2>4. OneCall(d)' /\ Bounded(d)'
    BY <1>2, <2>1, <2>3 DEF OneCall, Bounded, PcStates, Connected, Asking
  <2>5. n < job[d].batch
    BY <1>4, <1>14, <1>19, ClientAssumption DEF IsJob
  <2>6. n = k => cnt'[d] = Len(batch'[d]) - 1
    BY <1>6, <1>11, <1>15
  <2>7. n < job[d].batch /\ (n >= Len(batch'[d]) \/ Behind(d)')
    BY <1>2, <1>11, <1>14, <2>5, <2>6 DEF Behind, CountWrapped, IsCli
  <2>8. Counted(d)'
    BY <1>2, <1>13, <1>15, <2>7 DEF Counted
  <2>9. QED BY <1>2, <1>17, <2>1, <2>2, <2>4, <2>8, OneClient DEF ClientInv
<1>20. QED BY <1>18, <1>19

-----------------------------------------------------------------------------
(***************************************************************************)
(* At the end of the file the rest of a batch is asked for, unless cnt is  *)
(* 0: it is if the batch is empty, or if cnt began at -1 with one line.    *)
(***************************************************************************)
LEMMA EndOfFileKeeps ==
  ASSUME SessionInv, NEW d \in Clients, EndOfFile(d)
  PROVE  SessionInv'
<1> DEFINE k == Len(batch[d])
           done == Len(out[d])
<1>1. /\ pc[d] = "looping" /\ read[d] = Len(Data(d))
      /\ UNCHANGED <<job, read, cnt, batch, out, conn>>
  BY DEF EndOfFile, Ask, Quit, Close
<1>2. ClientInv(d) /\ Shapes
  BY DEF SessionInv
<1>3. batch[d] \in Seq(Items) /\ out[d] \in Seq(Prints)
  BY <1>2 DEF Shapes
<1>4. /\ k \in Nat /\ done \in Nat
      /\ k = 0 <=> batch[d] = <<>>
      /\ done = 0 <=> out[d] = <<>>
  BY <1>3, LenProperties, EmptySeq
<1>5. read[d] \in Nat /\ read[d] = done + k
  BY <1>2 DEF ClientInv, InStep, Shapes
<1>6. batch[d] # <<>> =>
        /\ cnt[d] < job[d].batch
        /\ cnt[d] >= k \/ (CountWrapped(d) /\ out[d] = <<>> /\ cnt[d] = k - 1)
  BY <1>1, <1>2 DEF ClientInv, Counted, Behind
<1> HIDE DEF k, done
<1>7. cnt[d] \in Nat /\ job[d].batch \in Nat /\ IsJob(job[d])
  BY <1>2, JobFacts, ClientAssumption DEF Shapes, IsJob
<1>8. request[d] = None /\ answer[d] = None /\ conn[d] # "handling" /\ open[d]
  BY <1>1, <1>2 DEF ClientInv, OneCall, Connected
<1>9. ASSUME pc'[d] \in {"lastAsking", "done"}
      PROVE  InStep(d)'
  <2>1. \A i \in DOMAIN batch'[d] :
          (batch[d][i] = Item(d, Data(d)[Len(out[d]) + i]))'
    BY <1>1, <1>2 DEF ClientInv, InStep, Item, Data, IsCli
  <2>2. \A i \in DOMAIN out'[d] : (out[d][i] = Expected(d, Data(d)[i]))'
    BY <1>1, <1>2 DEF ClientInv, InStep, Data, Item, Expected, IsCli
  <2>3. (/\ job[d].files # <<>> /\ parse_cmd_line_args(d)
         /\ read[d] = Len(Data(d)) /\ read[d] <= Len(Data(d)))'
    BY <1>1, <1>2, <1>5 DEF ClientInv, InStep, parse_cmd_line_args, IsCli, Data, Connected
  <2>4. QED BY <1>1, <1>2, <1>9, <2>1, <2>2, <2>3 DEF ClientInv, InStep
<1>10. CASE Rest(d)
  <2>1. pc' = [pc EXCEPT ![d] = "lastAsking"] /\ Ask(d, Query(d, batch[d]))
    BY <1>10 DEF EndOfFile
  <2>2. /\ pc'[d] = "lastAsking" /\ answer'[d] = None
        /\ request'[d] \in {None, Query(d, batch[d])}
    BY <1>2, <2>1 DEF Ask, Shapes
  <2>3. Query(d, batch[d])' = Query(d, batch[d]) /\ Query(d, batch[d]).items = batch[d]
    BY <1>1 DEF Query
  <2>4. Shapes'
    BY <1>1, <1>2, <2>1 DEF Ask, Shapes
  <2>5. \A c \in Clients \ {d} : Same(c)
    BY <1>1, <1>2, <2>1 DEF Ask, Shapes, Same
  <2>6. OneCall(d)'
    BY <1>1, <1>8, <2>1, <2>2, <2>3 DEF Ask, OneCall, PcStates, Connected, Asking
  <2>7. k <= job[d].batch
    BY <1>4, <1>6, <1>7
  <2>8. Bounded(d)'
    BY <1>1, <2>2, <2>3, <2>7 DEF Bounded, k
  <2>9. InStep(d)' /\ Counted(d)' /\ AtEnd(d)'
    BY <1>9, <2>2 DEF Counted, AtEnd
  <2>10. QED BY <1>1, <2>4, <2>5, <2>6, <2>8, <2>9, OneClient DEF ClientInv
<1>11. CASE ~Rest(d)
  <2>1. /\ pc' = [pc EXCEPT ![d] = "done"]
        /\ open' = [open EXCEPT ![d] = FALSE] /\ answer' = [answer EXCEPT ![d] = None]
        /\ UNCHANGED request
    BY <1>11 DEF EndOfFile, Quit, Close
  <2>2. pc'[d] = "done" /\ ~open'[d] /\ answer'[d] = None
    BY <1>2, <2>1 DEF Shapes
  <2>3. Shapes'
    BY <1>1, <1>2, <2>1 DEF Shapes
  <2>4. \A c \in Clients \ {d} : Same(c)
    BY <1>1, <1>2, <2>1 DEF Shapes, Same
  <2>5. OneCall(d)' /\ Bounded(d)' /\ Counted(d)'
    BY <1>1, <1>8, <2>1, <2>2
       DEF OneCall, Bounded, Counted, PcStates, Connected, Asking
  <2>6. batch[d] = <<>> \/ (CountWrapped(d) /\ read[d] = 1)
    <3>1. CASE IsCli(d)
      <4>1. cnt[d] = 0
        BY <1>7, <1>11, <3>1 DEF Rest
      <4>2. QED BY <1>4, <1>5, <1>6, <4>1
    <3>2. CASE ~IsCli(d)
      BY <1>11, <3>2 DEF Rest
    <3>3. QED BY <3>1, <3>2
  <2>7. AtEnd(d)'
    BY <1>1, <2>6 DEF AtEnd, CountWrapped, IsCli, Data
  <2>8. QED BY <1>1, <1>9, <2>2, <2>3, <2>4, <2>5, <2>7, OneClient DEF ClientInv
<1>12. QED BY <1>10, <1>11

(***************************************************************************)
(* The answer that comes for a batch is that batch's, and its lines follow *)
(* those that were printed.                                                *)
(***************************************************************************)
LEMMA AnsweredInStep ==
  ASSUME SessionInv, NEW d \in Clients, Answered(d), job' = job,
         batch' = [batch EXCEPT ![d] = <<>>]
  PROVE  /\ out' \in [Clients -> Seq(Prints)]
         /\ Len(out'[d]) = read[d]
         /\ \A i \in DOMAIN out'[d] : (out[d][i] = Expected(d, Data(d)[i]))'
         /\ \A c \in Clients \ {d} : out'[c] = out[c]
<1> DEFINE p == Printed(ResponseTo(Query(d, batch[d])))
           k == Len(batch[d])
           done == Len(out[d])
<1>1. ClientInv(d) /\ Shapes
  BY DEF SessionInv
<1>2. batch[d] \in Seq(Items) /\ out[d] \in Seq(Prints)
  BY <1>1 DEF Shapes
<1>3. k \in Nat /\ done \in Nat /\ DOMAIN batch[d] = 1..k /\ DOMAIN out[d] = 1..done
  BY <1>2, LenProperties
<1>4. answer[d] = ResponseTo(Query(d, batch[d])) /\ job[d].type \in {"s2i", "i2s"}
  BY <1>1 DEF ClientInv, OneCall, InStep, Answered, Asking, Connected, Refusal, Response,
              parse_cmd_line_args
<1>5. out' = [out EXCEPT ![d] = @ \o p]
  BY <1>4 DEF Answered
<1>6. /\ p \in Seq(Prints) /\ Len(p) = k
      /\ \A i \in DOMAIN batch[d] : p[i] = PrintOf(d, batch[d][i])
  BY <1>2, <1>4, PrintedInOrder
<1>7. done + k = read[d]
  BY <1>1 DEF ClientInv, InStep
<1>8. \A i \in 1..done : out[d][i] = Expected(d, Data(d)[i])
  BY <1>1, <1>3 DEF ClientInv, InStep
<1>9. \A i \in 1..k : batch[d][i] = Item(d, Data(d)[done + i])
  BY <1>1, <1>3 DEF ClientInv, InStep
<1> HIDE DEF p, k, done
<1>10. /\ out[d] \o p \in Seq(Prints)
       /\ Len(out[d] \o p) = done + k
       /\ \A i \in 1..(done + k) :
            (out[d] \o p)[i] = IF i <= done THEN out[d][i] ELSE p[i - done]
  BY <1>2, <1>6, ConcatProperties DEF done
<1>11. out'[d] = out[d] \o p
  BY <1>1, <1>5 DEF Shapes
<1>12. out' \in [Clients -> Seq(Prints)] /\ \A c \in Clients \ {d} : out'[c] = out[c]
  BY <1>1, <1>5, <1>10, <1>11 DEF Shapes
<1>13. DOMAIN out'[d] = 1..(done + k)
  BY <1>10, <1>11, LenProperties
<1>14. \A i \in 1..(done + k) : out'[d][i] = Expected(d, Data(d)[i])
  <2>1. SUFFICES ASSUME NEW i \in 1..(done + k)
                 PROVE  out'[d][i] = Expected(d, Data(d)[i])
    OBVIOUS
  <2>2. CASE i <= done
    <3>1. i \in 1..done
      BY <1>3, <2>2
    <3>2. QED BY <1>8, <1>10, <1>11, <2>2, <3>1
  <2>3. CASE ~(i <= done)
    <3>1. PICK j \in 1..k : i - done = j /\ done + j = i
      BY <1>3, <2>3
    <3>2. out'[d][i] = p[j]
      BY <1>10, <1>11, <2>3, <3>1
    <3>3. p[j] = PrintOf(d, Item(d, Data(d)[i]))
      BY <1>3, <1>6, <1>9, <3>1
    <3>4. QED BY <3>2, <3>3 DEF PrintOf, Expected
  <2>4. QED BY <2>2, <2>3
<1>15. \A i \in DOMAIN out'[d] : (out[d][i] = Expected(d, Data(d)[i]))'
  BY <1>13, <1>14 DEF Expected, Item, Data, IsCli
<1>16. QED
  BY <1>7, <1>10, <1>11, <1>12, <1>15

(***************************************************************************)
(* An answered batch is printed and emptied, and a batch size or a last    *)
(* test that miscounts loses nothing but what Counted names.               *)
(***************************************************************************)
LEMMA AnswerKeeps ==
  ASSUME SessionInv, NEW d \in Clients, NextBatch(d) \/ LastBatch(d)
  PROVE  SessionInv'
<1>1. /\ pc[d] \in Asking /\ Answered(d) /\ answer[d] # None
      /\ batch' = [batch EXCEPT ![d] = <<>>]
      /\ answer' = [answer EXCEPT ![d] = None]
      /\ UNCHANGED <<job, read, conn, request>>
  BY DEF NextBatch, LastBatch, Answered, Consume, Quit, Close, Asking
<1>2. ClientInv(d) /\ Shapes /\ W \in Nat \ {0}
  BY ClientAssumption DEF SessionInv
<1>3. /\ out' \in [Clients -> Seq(Prints)]
      /\ Len(out'[d]) = read[d]
      /\ \A i \in DOMAIN out'[d] : (out[d][i] = Expected(d, Data(d)[i]))'
      /\ \A c \in Clients \ {d} : out'[c] = out[c]
  BY <1>1, AnsweredInStep
<1>4. /\ batch' \in [Clients -> Seq(Items)] /\ batch'[d] = <<>>
      /\ \A c \in Clients \ {d} : batch'[c] = batch[c]
  BY <1>1, <1>2, EmptySeq DEF Shapes
<1>5. request'[d] = None /\ answer'[d] = None /\ conn'[d] # "handling" /\ open[d]
  BY <1>1, <1>2 DEF ClientInv, OneCall, Shapes, Connected, Asking
<1>6. ASSUME pc'[d] \in {"looping", "done"}, pc'[d] = "done" => pc[d] = "lastAsking"
      PROVE  InStep(d)' /\ AtEnd(d)'
  <2>1. read[d] \in Nat /\ DOMAIN batch'[d] = {} /\ Len(batch'[d]) = 0
    BY <1>2, <1>4 DEF Shapes
  <2>2. (Len(out[d]) + Len(batch[d]) = read[d])'
    BY <1>1, <1>3, <2>1
  <2>3. (/\ job[d].files # <<>> /\ parse_cmd_line_args(d)
         /\ read[d] > 0 => read[d] <= Len(Data(d))
         /\ pc[d] = "done" => read[d] = Len(Data(d)))'
    BY <1>1, <1>2, <1>6
       DEF ClientInv, InStep, parse_cmd_line_args, IsCli, Data, Connected, Asking
  <2>4. QED BY <1>3, <1>4, <1>6, <2>1, <2>2, <2>3 DEF InStep, AtEnd
<1>7. CASE NextBatch(d)
  <2>1. /\ pc[d] = "asking"
        /\ pc' = [pc EXCEPT ![d] = "looping"] /\ cnt' = [cnt EXCEPT ![d] = 0]
        /\ open' = open
    BY <1>7 DEF NextBatch, Consume
  <2>2. pc'[d] = "looping" /\ cnt'[d] = 0
    BY <1>2, <2>1 DEF Shapes
  <2>3. Shapes'
    BY <1>1, <1>2, <1>3, <1>4, <2>1 DEF Shapes
  <2>4. \A c \in Clients \ {d} : Same(c)
    BY <1>1, <1>2, <1>3, <1>4, <2>1 DEF Shapes, Same
  <2>5. OneCall(d)' /\ Bounded(d)' /\ Counted(d)'
    BY <1>4, <1>5, <2>1, <2>2
       DEF OneCall, Bounded, Counted, PcStates, Connected, Asking
  <2>6. InStep(d)' /\ AtEnd(d)'
    BY <1>6, <2>2
  <2>7. QED BY <1>1, <2>3, <2>4, <2>5, <2>6, OneClient DEF ClientInv
<1>8. CASE LastBatch(d)
  <2>1. /\ pc[d] = "lastAsking"
        /\ pc' = [pc EXCEPT ![d] = "done"] /\ cnt' = cnt
        /\ open' = [open EXCEPT ![d] = FALSE]
    BY <1>8 DEF LastBatch, Quit, Close
  <2>2. pc'[d] = "done" /\ ~open'[d]
    BY <1>2, <2>1 DEF Shapes
  <2>3. Shapes'
    BY <1>1, <1>2, <1>3, <1>4, <2>1 DEF Shapes
  <2>4. \A c \in Clients \ {d} : Same(c)
    BY <1>1, <1>2, <1>3, <1>4, <2>1 DEF Shapes, Same
  <2>5. OneCall(d)' /\ Bounded(d)' /\ Counted(d)'
    BY <1>4, <1>5, <2>2 DEF OneCall, Bounded, Counted, PcStates, Connected, Asking
  <2>6. InStep(d)' /\ AtEnd(d)'
    BY <1>6, <2>1, <2>2
  <2>7. QED BY <1>1, <2>3, <2>4, <2>5, <2>6, OneClient DEF ClientInv
<1>9. QED BY <1>7, <1>8

-----------------------------------------------------------------------------
(***************************************************************************)
(* No client runs at the start.                                            *)
(***************************************************************************)
LEMMA InitSession == Init => SessionInv
<1>1. SUFFICES ASSUME Init PROVE SessionInv
  OBVIOUS
<1>2. W \in Nat \ {0} /\ <<>> \in Seq(Items) /\ <<>> \in Seq(Prints) /\ Len(<<>>) = 0
  BY ClientAssumption, EmptySeq
<1>3. Shapes
  BY <1>1, <1>2 DEF Init, ServerInit, Shapes, ConnStates
<1>4. ASSUME NEW c \in Clients PROVE ClientInv(c)
  <2>1. /\ pc[c] = "off" /\ conn[c] = "none" /\ ~open[c]
        /\ request[c] = None /\ answer[c] = None
        /\ out[c] = <<>> /\ batch[c] = <<>> /\ read[c] = 0
    BY <1>1 DEF Init, ServerInit
  <2>2. OneCall(c)
    BY <2>1 DEF OneCall, PcStates, Connected, Asking
  <2>3. InStep(c)
    BY <1>2, <2>1 DEF InStep, Connected, Asking
  <2>4. Counted(c) /\ Bounded(c) /\ AtEnd(c)
    BY <2>1 DEF Counted, Bounded, AtEnd
  <2>5. QED BY <2>2, <2>3, <2>4 DEF ClientInv
<1>5. QED
  BY <1>3, <1>4 DEF SessionInv

(***************************************************************************)
(* Every step, of the server or of a client, keeps the invariant.          *)
(***************************************************************************)
LEMMA StepSession == SessionInv /\ [Next]_vars => SessionInv'
<1>1. SUFFICES ASSUME SessionInv, [Next]_vars PROVE SessionInv'
  OBVIOUS
<1>2. CASE ServerNext /\ UNCHANGED locals
  BY <1>1, <1>2, ServerKeeps
<1>3. ASSUME NEW d \in Clients, Start(d) \/ Open(d) \/ BeginLoop(d)
      PROVE  SessionInv'
  BY <1>1, <1>3, StartKeeps, OpenKeeps, BeginKeeps
<1>4. ASSUME NEW d \in Clients, ReadLine(d) \/ EndOfFile(d)
      PROVE  SessionInv'
  BY <1>1, <1>4, ReadLineKeeps, EndOfFileKeeps
<1>5. ASSUME NEW d \in Clients, NextBatch(d) \/ LastBatch(d)
      PROVE  SessionInv'
  BY <1>1, <1>5, AnswerKeeps
<1>6. ASSUME NEW d \in Clients,
             OpenRefused(d) \/ BadLine(d) \/ Refused(d) \/ ConnectionLost(d) \/ Killed(d)
      PROVE  SessionInv'
  <2>1. Fail(d)
    BY <1>6 DEF OpenRefused, BadLine, Refused, ConnectionLost, Killed
  <2>2. QED BY <1>1, <2>1, FailKeeps
<1>7. CASE UNCHANGED vars
  <2>1. UNCHANGED <<conn, open, request, answer, locals>>
    BY <1>7 DEF vars, wires
  <2>2. Shapes'
    BY <1>1, <2>1 DEF SessionInv, Shapes, locals
  <2>3. \A c \in Clients : ClientInv(c) /\ Same(c)
    BY <1>1, <2>1 DEF SessionInv, Same, locals
  <2>4. job' = job
    BY <2>1 DEF locals
  <2>5. QED BY <2>2, <2>3, <2>4, SameKept DEF SessionInv
<1>8. QED
  BY <1>1, <1>2, <1>3, <1>4, <1>5, <1>6, <1>7
     DEF Next, ClientStep, AwaitStep, InputStep

(***************************************************************************)
(* The invariant behind the three theorems.                                *)
(***************************************************************************)
LEMMA SessionKept == Spec => []SessionInv
BY InitSession, StepSession, PTL DEF Spec

(***************************************************************************)
(* Every line that numeratorcli or client.py prints belongs to the line of *)
(* the file in the same place, and no line that was read is lost, whatever *)
(* cnt began with, wherever the batches end and whoever fails.             *)
(***************************************************************************)
THEOREM OutputIsRight == Spec => []OutputRight
<1>1. SessionInv => OutputRight
  BY DEF SessionInv, ClientInv, InStep, OutputRight
<1>2. QED
  BY <1>1, SessionKept, PTL

(***************************************************************************)
(* A client that ends well has printed every line, for every width of      *)
(* size_t and every value that the stack left in cnt; only a count of -1   *)
(* and a file of one line go wrong.                                        *)
(***************************************************************************)
THEOREM AllAreAsked == Spec => []AllAsked
<1>1. SessionInv => AllAsked
  <2>1. SUFFICES ASSUME SessionInv, NEW c \in Clients, pc[c] = "done"
                 PROVE  \/ Len(out[c]) = Len(Data(c))
                        \/ CountWrapped(c) /\ Len(Data(c)) = 1
    BY DEF AllAsked
  <2>2. Len(out[c]) + Len(batch[c]) = Len(Data(c)) /\ AtEnd(c)
    BY <2>1 DEF SessionInv, ClientInv, InStep
  <2>3. out[c] \in Seq(Prints)
    BY <2>1 DEF SessionInv, Shapes
  <2>4. Len(out[c]) \in Nat
    BY <2>3, LenProperties
  <2>5. batch[c] = <<>> => Len(batch[c]) = 0
    BY EmptySeq
  <2>6. CASE batch[c] = <<>>
    BY <2>2, <2>4, <2>5, <2>6
  <2>7. QED BY <2>1, <2>2, <2>6 DEF AtEnd
<1>2. QED
  BY <1>1, SessionKept, PTL

(***************************************************************************)
(* No query is larger than the batch size, but for the first one of a      *)
(* count of -1, which has a line more.                                     *)
(***************************************************************************)
THEOREM BatchesBounded == Spec => []BatchBound
<1>1. SessionInv => BatchBound
  BY DEF SessionInv, ClientInv, Bounded, BatchBound
<1>2. QED
  BY <1>1, SessionKept, PTL

-----------------------------------------------------------------------------
(***************************************************************************)
(* The queue of the pool.                                                  *)
(***************************************************************************)

(***************************************************************************)
(* The queue holds each connection that waits for a worker, once.          *)
(***************************************************************************)
QueueInv ==
  /\ queue \in Seq(Clients)
  /\ \A j, k \in DOMAIN queue : queue[j] = queue[k] => j = k
  /\ \A c \in Clients :
       conn[c] = "queued" <=> \E k \in DOMAIN queue : queue[k] = c

(***************************************************************************)
(* The server's own variables, and that a program has one connection only. *)
(***************************************************************************)
ServerInv ==
  /\ stage \in Stages
  /\ pending \subseteq Signals
  /\ waiter \in {"none", "waiting", "stopping", "stoppingAccept", "finished"}
  /\ interrupted \in BOOLEAN /\ children \in BOOLEAN
  /\ open \in [Clients -> BOOLEAN]
  /\ pc \in [Clients -> PcStates]
  /\ \A c \in Clients : pc[c] \in {"off", "parsed"} => conn[c] = "none"
  /\ QueueInv

(***************************************************************************)
(* The connections that wait are as many as the queue is long.             *)
(***************************************************************************)
LEMMA QueueCounts ==
  ASSUME QueueInv
  PROVE  Len(queue) = Cardinality({c \in Clients : conn[c] = "queued"})
<1> DEFINE waits == {c \in Clients : conn[c] = "queued"}
<1>1. /\ Len(queue) \in Nat /\ DOMAIN queue = 1..Len(queue)
      /\ \A k \in DOMAIN queue : queue[k] \in Clients
  BY LenProperties, ElementOfSeq DEF QueueInv
<1>2. queue \in [1..Len(queue) -> waits]
  <2>1. queue = [k \in DOMAIN queue |-> queue[k]]
    BY DEF QueueInv
  <2>2. \A k \in DOMAIN queue : queue[k] \in waits
    BY <1>1 DEF QueueInv
  <2> HIDE DEF waits
  <2> QED
    BY <1>1, <2>1, <2>2
<1>3. \A j, k \in 1..Len(queue) : queue[j] = queue[k] => j = k
  BY <1>1 DEF QueueInv
<1>4. \A c \in waits : \E k \in 1..Len(queue) : queue[k] = c
  BY <1>1 DEF QueueInv
<1> HIDE DEF waits
<1>5. queue \in Bijection(1..Len(queue), waits)
  BY <1>2, <1>3, <1>4 DEF Bijection, Injection, Surjection, IsInjective
<1>6. ExistsBijection(1..Len(queue), waits)
  BY <1>5 DEF ExistsBijection
<1>7. Cardinality(waits) = Len(queue)
  BY <1>1, <1>6, FS_CountingElements
<1> QED
  BY <1>7 DEF waits

(***************************************************************************)
(* A connection joins the queue at its end.                                *)
(***************************************************************************)
LEMMA AcceptQueues ==
  ASSUME Shapes, QueueInv, NEW d \in Clients, Accept(d)
  PROVE  QueueInv'
<1>1. /\ conn[d] = "backlog" /\ conn'[d] = "queued"
      /\ \A c \in Clients : c # d => conn'[c] = conn[c]
      /\ queue \in Seq(Clients) /\ queue' = Append(queue, d)
  BY DEF Accept, Shapes, QueueInv
<1>2. /\ queue' \in Seq(Clients) /\ Len(queue) \in Nat
      /\ DOMAIN queue = 1..Len(queue)
      /\ DOMAIN queue' = 1..(Len(queue) + 1)
      /\ \A k \in 1..Len(queue) : queue'[k] = queue[k]
      /\ queue'[Len(queue) + 1] = d
  BY <1>1, AppendProperties, LenProperties
<1>3. \A k \in DOMAIN queue' : k \in DOMAIN queue \/ k = Len(queue) + 1
  BY <1>2
<1>4. \A k \in DOMAIN queue : queue[k] # d
  BY <1>1 DEF QueueInv
<1>5. \A j, k \in DOMAIN queue' : queue'[j] = queue'[k] => j = k
  BY <1>2, <1>3, <1>4 DEF QueueInv
<1>6. \A c \in Clients :
        conn'[c] = "queued" <=> \E k \in DOMAIN queue' : queue'[k] = c
  <2>1. DOMAIN queue \subseteq DOMAIN queue' /\ Len(queue) + 1 \in DOMAIN queue'
    BY <1>2
  <2> QED
    BY <1>1, <1>2, <1>3, <1>4, <2>1 DEF QueueInv
<1> QED
  BY <1>2, <1>5, <1>6 DEF QueueInv

(***************************************************************************)
(* A worker takes the one that has waited longest.                         *)
(***************************************************************************)
LEMMA TakeQueues ==
  ASSUME Shapes, QueueInv, Take
  PROVE  QueueInv'
<1> DEFINE d == queue[1]
<1>1. /\ queue \in Seq(Clients) /\ queue # <<>> /\ queue' = Tail(queue)
      /\ conn' = [conn EXCEPT ![Head(queue)] = "reading"]
  BY DEF Take, QueueInv
<1>2. /\ Len(queue) \in Nat /\ DOMAIN queue = 1..Len(queue) /\ Len(queue) # 0
  BY <1>1, LenProperties, EmptySeq
<1>3. /\ queue' \in Seq(Clients) /\ Head(queue) = d
      /\ Len(queue') = Len(queue) - 1
      /\ \A k \in 1..(Len(queue) - 1) : queue'[k] = queue[k + 1]
  BY <1>1, <1>2, HeadTailProperties
<1>4. DOMAIN queue' = 1..(Len(queue) - 1) /\ 1 \in DOMAIN queue /\ d \in Clients
  BY <1>2, <1>3, LenProperties, ElementOfSeq DEF QueueInv
<1>5. /\ conn'[d] = "reading"
      /\ \A c \in Clients : c # d => conn'[c] = conn[c]
  BY <1>1, <1>3, <1>4 DEF Shapes
<1>6. \A k \in DOMAIN queue' :
        /\ k + 1 \in DOMAIN queue /\ k + 1 # 1 /\ queue'[k] = queue[k + 1]
        /\ queue'[k] # d
  <2>1. ASSUME NEW k \in DOMAIN queue' PROVE k + 1 \in DOMAIN queue /\ k + 1 # 1
    BY <1>2, <1>4
  <2> QED
    BY <1>3, <1>4, <2>1 DEF QueueInv
<1>7. \A i \in DOMAIN queue : i = 1 \/ (i - 1 \in DOMAIN queue' /\ queue'[i - 1] = queue[i])
  BY <1>2, <1>3, <1>4
<1>8. \A j, k \in DOMAIN queue' : queue'[j] = queue'[k] => j = k
  <2> SUFFICES ASSUME NEW j \in DOMAIN queue', NEW k \in DOMAIN queue',
                      queue'[j] = queue'[k]
               PROVE  j = k
    OBVIOUS
  <2>1. j + 1 = k + 1
    BY <1>6 DEF QueueInv
  <2>2. j \in Int /\ k \in Int
    BY <1>4
  <2> QED
    BY <2>1, <2>2
<1>9. \A c \in Clients :
        conn'[c] = "queued" <=> \E k \in DOMAIN queue' : queue'[k] = c
  <2> SUFFICES ASSUME NEW c \in Clients
               PROVE  conn'[c] = "queued" <=> \E k \in DOMAIN queue' : queue'[k] = c
    OBVIOUS
  <2> HIDE DEF d
  <2>1. CASE c = d
    BY <1>5, <1>6, <2>1
  <2>2. CASE c # d
    <3>1. conn'[c] = "queued" <=> \E k \in DOMAIN queue : queue[k] = c
      BY <1>5, <2>2 DEF QueueInv
    <3>2. (\E k \in DOMAIN queue : queue[k] = c)
            => \E k \in DOMAIN queue' : queue'[k] = c
      BY <1>7, <2>2 DEF d
    <3>3. (\E k \in DOMAIN queue' : queue'[k] = c)
            => \E k \in DOMAIN queue : queue[k] = c
      BY <1>6
    <3> QED
      BY <3>1, <3>2, <3>3
  <2> QED
    BY <2>1, <2>2
<1> QED
  BY <1>3, <1>8, <1>9 DEF QueueInv

(***************************************************************************)
(* The end of the process empties it.                                      *)
(***************************************************************************)
LEMMA EndEmpties ==
  ASSUME ServerInv, End, UNCHANGED pc
  PROVE  ServerInv'
<1>1. queue' = <<>> /\ \A c \in Clients : conn'[c] = "none"
  BY DEF End
<1>2. queue' \in Seq(Clients) /\ DOMAIN queue' = {}
  BY <1>1, EmptySeq
<1>3. QueueInv'
  BY <1>1, <1>2 DEF QueueInv
<1> QED
  BY <1>1, <1>3 DEF End, ServerInv, Stages

(***************************************************************************)
(* Every other step leaves alone who is queued.                            *)
(***************************************************************************)
LEMMA QueueFrame ==
  ASSUME QueueInv, queue' = queue,
         \A c \in Clients : conn'[c] = "queued" <=> conn[c] = "queued"
  PROVE  QueueInv'
BY DEF QueueInv

(***************************************************************************)
(* The server's steps.                                                     *)
(***************************************************************************)
LEMMA ServerQueues ==
  ASSUME Shapes, ServerInv, ServerNext, UNCHANGED locals
  PROVE  ServerInv'
<1> USE DEF process, wires, locals
<1>1. CASE \/ init_signals \/ Load \/ StartSigwaiter \/ Listen \/ Restart \/ sigwaiter
           \/ \E s \in Signals : Raise(s)
  <2>1. UNCHANGED wires
    BY <1>1 DEF init_signals, Load, StartSigwaiter, Listen, Become, Restart,
       sigwaiter, TakeSignal, StopChildren, StopAccept, Raise
  <2>2. QueueInv'
    BY <2>1, QueueFrame DEF ServerInv
  <2>3. /\ stage' \in Stages /\ pending' \subseteq Signals
        /\ waiter' \in {"none", "waiting", "stopping", "stoppingAccept", "finished"}
        /\ interrupted' \in BOOLEAN /\ children' \in BOOLEAN
    BY <1>1 DEF ServerInv, init_signals, Load, StartSigwaiter, Listen, Become, Restart,
       sigwaiter, TakeSignal, StopChildren, StopAccept, Raise, HasSockets, Stages
  <2> QED
    BY <2>1, <2>2, <2>3 DEF ServerInv
<1>2. CASE Done \/ Kill \/ LoadFails \/ ListenFails \/ \E c \in Clients : Exit(c)
  BY <1>2, EndEmpties DEF Done, Kill, LoadFails, ListenFails, Exit
<1>3. CASE LeaveAccept
  <2>1. /\ queue' = queue
        /\ \A c \in Clients : conn'[c] = IF conn[c] = "backlog" THEN "none" ELSE conn[c]
    BY <1>3 DEF LeaveAccept
  <2>2. QueueInv'
    BY <2>1, QueueFrame DEF ServerInv
  <2> QED
    BY <1>3, <2>1, <2>2 DEF ServerInv, LeaveAccept, Stages
<1>4. CASE Take
  <2>1. QueueInv'
    BY <1>4, TakeQueues DEF ServerInv
  <2>2. /\ queue \in Seq(Clients) /\ queue # <<>>
        /\ conn' = [conn EXCEPT ![Head(queue)] = "reading"]
    BY <1>4 DEF Take, ServerInv, QueueInv
  <2>3. 1 \in DOMAIN queue /\ Head(queue) = queue[1] /\ queue[1] \in Clients
    BY <2>2, HeadTailProperties, LenProperties, EmptySeq, ElementOfSeq
  <2>4. conn[Head(queue)] = "queued"
    BY <2>3 DEF ServerInv, QueueInv
  <2>5. \A c \in Clients : pc[c] \in {"off", "parsed"} => conn'[c] = "none"
    BY <2>2, <2>3, <2>4 DEF ServerInv, Shapes
  <2> QED
    BY <1>4, <2>1, <2>5 DEF ServerInv, Take
<1>5. ASSUME NEW d \in Clients, Accept(d) PROVE ServerInv'
  <2>1. QueueInv'
    BY <1>5, AcceptQueues DEF ServerInv
  <2> QED
    BY <1>5, <2>1 DEF ServerInv, Accept, Shapes
<1>6. ASSUME NEW d \in Clients, ReadCall(d) \/ HangUp(d) \/ Handle(d) \/ Refuse(d)
      PROVE  ServerInv'
  <2>1. /\ conn[d] \in {"reading", "handling"} /\ queue' = queue /\ open' = open
        /\ \E s \in {"none", "reading", "handling"} : conn' = [conn EXCEPT ![d] = s]
        /\ UNCHANGED process
    BY <1>6 DEF ReadCall, HangUp, Handle, Refuse, Reply
  <2>2. QueueInv'
    BY <2>1, QueueFrame DEF ServerInv, Shapes
  <2> QED
    BY <2>1, <2>2 DEF ServerInv, Shapes
<1> QED
  BY <1>1, <1>2, <1>3, <1>4, <1>5, <1>6 DEF ServerNext, main, Serve, Operator, Failure

(***************************************************************************)
(* The clients' steps: a program connects once, when it has parsed its     *)
(* command line.                                                           *)
(***************************************************************************)
LEMMA ClientQueues ==
  ASSUME SessionInv, ServerInv, NEW d \in Clients,
         Start(d) \/ ClientStep(d) \/ Killed(d)
  PROVE  ServerInv'
<1> USE DEF process, wires
<1>1. CASE Open(d)
  <2>1. /\ pc[d] = "parsed" /\ queue' = queue
        /\ conn' = [conn EXCEPT ![d] = "backlog"]
        /\ open' = [open EXCEPT ![d] = TRUE]
        /\ pc' = [pc EXCEPT ![d] = "pinging"]
        /\ UNCHANGED process
    BY <1>1 DEF Open, Connect
  <2>2. conn[d] = "none"
    BY <2>1 DEF ServerInv
  <2>3. QueueInv'
    BY <2>1, <2>2, QueueFrame DEF ServerInv, SessionInv, Shapes
  <2> QED
    BY <2>1, <2>3 DEF ServerInv, SessionInv, Shapes, PcStates
<1>2. CASE ~Open(d)
  <2>1. /\ UNCHANGED process /\ conn' = conn /\ queue' = queue
        /\ open' = open \/ open' = [open EXCEPT ![d] = FALSE]
    BY <1>2 DEF Start, ClientStep, OpenRefused, AwaitStep, InputStep, BeginLoop,
       NextBatch, LastBatch, Refused, ConnectionLost, ReadLine, BadLine, EndOfFile,
       Killed, Fail, Quit, Close, Consume, Ask
  <2>2. \A c \in Clients : pc'[c] \in {"off", "parsed"} => pc[c] \in {"off", "parsed"}
    BY <1>2 DEF SessionInv, Shapes, Start, ClientStep, OpenRefused, AwaitStep, InputStep,
       BeginLoop, NextBatch, LastBatch, Refused, ConnectionLost, ReadLine, BadLine,
       EndOfFile, Killed, Fail, Quit
  <2>3. QueueInv'
    BY <2>1, QueueFrame DEF ServerInv
  <2>4. pc' = pc \/ \E s \in PcStates : pc' = [pc EXCEPT ![d] = s]
    BY <1>2 DEF Start, ClientStep, OpenRefused, AwaitStep, InputStep, BeginLoop,
       NextBatch, LastBatch, Refused, ConnectionLost, ReadLine, BadLine, EndOfFile,
       Killed, Fail, Quit, PcStates
  <2> QED
    BY <2>1, <2>2, <2>3, <2>4 DEF ServerInv
<1> QED
  BY <1>1, <1>2

(***************************************************************************)
(* The variables keep their types, with as many connections in the queue   *)
(* as wait for a worker and each of them once, for any number of clients   *)
(* and workers, through signals, kills and restarts.                       *)
(***************************************************************************)
THEOREM TypesKept == Spec => []TypeOK
<1>1. Init => ServerInv
  <2> SUFFICES ASSUME Init PROVE ServerInv
    OBVIOUS
  <2>1. /\ queue = <<>> /\ \A c \in Clients : conn[c] = "none"
    BY DEF Init, ServerInit
  <2>2. queue \in Seq(Clients) /\ DOMAIN queue = {}
    BY <2>1, EmptySeq
  <2>3. QueueInv
    BY <2>1, <2>2 DEF QueueInv
  <2> QED
    BY <2>1, <2>3 DEF Init, ServerInit, ServerInv, Stages, PcStates
<1>2. SessionInv /\ ServerInv /\ [Next]_vars => ServerInv'
  <2> SUFFICES ASSUME SessionInv, ServerInv, [Next]_vars PROVE ServerInv'
    OBVIOUS
  <2>1. CASE ServerNext /\ UNCHANGED locals
    BY <2>1, ServerQueues DEF SessionInv
  <2>2. ASSUME NEW d \in Clients, Start(d) \/ ClientStep(d) \/ Killed(d)
        PROVE  ServerInv'
    BY <2>2, ClientQueues
  <2>3. CASE UNCHANGED vars
    <3>1. UNCHANGED <<process, wires, pc>>
      BY <2>3 DEF vars, locals
    <3>2. QueueInv'
      BY <3>1, QueueFrame DEF ServerInv, wires
    <3> QED
      BY <3>1, <3>2 DEF ServerInv, process, wires
  <2> QED
    BY <2>1, <2>2, <2>3 DEF Next
<1>3. SessionInv /\ ServerInv => TypeOK
  <2> SUFFICES ASSUME SessionInv, ServerInv PROVE TypeOK
    OBVIOUS
  <2>1. Len(queue) = Cardinality({c \in Clients : conn[c] = "queued"})
    BY QueueCounts DEF ServerInv
  <2>2. ServerTypeOK
    BY <2>1 DEF ServerInv, QueueInv, SessionInv, Shapes, ServerTypeOK
  <2>3. \A c \in Clients : OneCall(c)
    BY DEF SessionInv, ClientInv
  <2>4. \A c \in Clients : pc[c] \in {"off", "parsed", "done", "failed"} => ~open[c]
    BY <2>3 DEF OneCall, Connected
  <2> QED
    BY <2>2, <2>4 DEF ServerInv, SessionInv, Shapes, TypeOK
<1> QED
  BY <1>1, <1>2, <1>3, SessionKept, PTL DEF Spec
=============================================================================
