------------------------------ MODULE RpcProofs ------------------------------
(***************************************************************************)
(* Theorems about Rpc, for any number of threads and calls, any queries,   *)
(* any width of a sequence id that holds the calls of a connection, and    *)
(* any fields that a newer interface adds.                                 *)
(***************************************************************************)
EXTENDS Rpc, SequenceTheorems, FiniteSetTheorems, TLAPS

-----------------------------------------------------------------------------
(***************************************************************************)
(* What a newer interface adds is not what this one sends.                 *)
(***************************************************************************)
Unclaimed(inner) ==
  \A k \in DOMAIN inner :
    <<inner[k].id, inner[k].type>> \notin
      {<<1, "i32">>, <<2, "list">>, <<3, "list">>, <<4, "list">>, <<2, "string">>}

LEMMA NewerFields ==
  ASSUME NEW p \in Programs
  PROVE  /\ p.newer \in Seq({p.newer[k] : k \in DOMAIN p.newer})
         /\ \A k \in DOMAIN p.newer :
              /\ ~(p.newer[k].id = 0 /\ p.newer[k].type = "struct")
              /\ ~(p.newer[k].id = 1 /\ p.newer[k].type = "struct")
         /\ p.inner \in Seq({p.inner[k] : k \in DOMAIN p.inner})
         /\ Unclaimed(p.inner)
<1>1. IsProgram(p)
  BY RpcAssumption
<1>2. \A k \in DOMAIN p.newer :
        <<p.newer[k].id, p.newer[k].type>> \notin {<<0, "struct">>, <<1, "struct">>}
  BY <1>1 DEF IsProgram
<1>3. Unclaimed(p.inner)
  BY <1>1 DEF IsProgram, Unclaimed
<1> QED
  BY <1>1, <1>2, <1>3 DEF IsProgram

(***************************************************************************)
(* What is written is read back: one field behind those of a newer         *)
(* interface, and the structures.                                          *)
(***************************************************************************)
LEMMA FieldBehind ==
  ASSUME NEW S, NEW newer \in Seq(S), NEW f
  PROVE  LET n == Len(newer) + 1 IN
         /\ n \in Nat \ {0} /\ DOMAIN newer = 1..(n - 1)
         /\ DOMAIN (newer \o <<f>>) = 1..n
         /\ \A k \in 1..(n - 1) : (newer \o <<f>>)[k] = newer[k]
         /\ (newer \o <<f>>)[n] = f
<1>1. newer \in Seq(S \cup {f}) /\ <<f>> \in Seq(S \cup {f})
  OBVIOUS
<1>2. Len(<<f>>) = 1 /\ <<f>>[1] = f /\ Len(newer) \in Nat
  OBVIOUS
<1> QED
  BY <1>1, <1>2, ConcatProperties

Sends(p, i, v) == OnWire(p, <<Field(i, "struct", v)>>)

LEMMA SendsField ==
  ASSUME NEW p, NEW i, NEW v
  PROVE  Sends(p, i, v) = p.newer \o <<Field(i, "struct", p.inner \o v)>>
<1> DEFINE f == Field(i, "struct", v)
           g == Field(i, "struct", p.inner \o v)
<1>1. f.value = v
  BY DEF Field
<1>2. [f EXCEPT !.value = p.inner \o v] = g
  <2>1. \A a, b, c, x :
          [[id |-> a, type |-> b, value |-> c] EXCEPT !.value = x]
            = [id |-> a, type |-> b, value |-> x]
    OBVIOUS
  <2>2. \A x : [f EXCEPT !.value = x] = Field(i, "struct", x)
    BY <2>1, Zenon DEF Field
  <2> HIDE DEF f
  <2> QED BY <2>2, Zenon
<1>3. [f EXCEPT !.value = p.inner \o @] = g
  BY <1>1, <1>2
<1> HIDE DEF f, g
<1>4. [k \in DOMAIN <<f>> |-> [<<f>>[k] EXCEPT !.value = p.inner \o @]] = <<g>>
  <2>1. DOMAIN <<f>> = {1} /\ <<f>>[1] = f
    OBVIOUS
  <2>2. [k \in {1} |-> [<<f>>[k] EXCEPT !.value = p.inner \o @]] = [k \in {1} |-> g]
    BY <1>3, <2>1
  <2>3. [k \in {1} |-> g] = <<g>>
    OBVIOUS
  <2> QED BY <2>1, <2>2, <2>3
<1> QED
  BY <1>4 DEF Sends, OnWire, Extended, f, g

(***************************************************************************)
(* Among the fields of a newer interface a reader finds its own.           *)
(***************************************************************************)
LEMMA FieldReadBack ==
  ASSUME NEW p \in Programs, NEW v, NEW i \in {0, 1}
  PROVE  /\ Sent(Sends(p, i, v), i, "struct") # {}
         /\ \A old : Read(Sends(p, i, v), i, "struct", old) = p.inner \o v
         /\ Sent(Sends(p, i, v), 1 - i, "struct") = {}
         /\ \A old : Read(Sends(p, i, v), 1 - i, "struct", old) = old
<1> DEFINE f == Field(i, "struct", p.inner \o v)
           n == Len(p.newer) + 1
           fields == Sends(p, i, v)
<1>1. f.id = i /\ f.type = "struct" /\ f.value = p.inner \o v
  BY DEF Field
<1>2. \A k \in DOMAIN p.newer :
        \A j \in {0, 1} : ~(p.newer[k].id = j /\ p.newer[k].type = "struct")
  BY NewerFields
<1>3. /\ n \in Nat \ {0} /\ DOMAIN p.newer = 1..(n - 1) /\ DOMAIN fields = 1..n
      /\ \A k \in 1..(n - 1) : fields[k] = p.newer[k]
      /\ fields[n] = f
  <2>1. fields = p.newer \o <<f>>
    BY SendsField
  <2> HIDE DEF f, fields
  <2> QED
    BY <2>1, NewerFields, FieldBehind
<1> HIDE DEF f, n, fields
<1>4. \A k \in 1..(n - 1) :
        \A j \in {0, 1} : ~(fields[k].id = j /\ fields[k].type = "struct")
  BY <1>2, <1>3
<1>5. Sent(fields, i, "struct") = {n}
  <2>1. \A k \in 1..(n - 1) : ~(fields[k].id = i /\ fields[k].type = "struct")
    BY <1>4
  <2>2. n \in 1..n /\ \A k \in 1..n : k # n => k \in 1..(n - 1)
    BY <1>3
  <2> QED
    BY <1>1, <1>3, <2>1, <2>2 DEF Sent
<1>6. 1 - i \in {0, 1} /\ 1 - i # i
  OBVIOUS
<1>7. Sent(fields, 1 - i, "struct") = {}
  BY <1>1, <1>3, <1>4, <1>6 DEF Sent
<1>8. \A old : /\ Read(fields, i, "struct", old) = p.inner \o v
               /\ Read(fields, 1 - i, "struct", old) = old
  BY <1>5, <1>7, <1>1, <1>3 DEF Read
<1> QED
  BY <1>5, <1>7, <1>8 DEF fields

(***************************************************************************)
(* So does the reader of a structure among the fields inside it.           *)
(***************************************************************************)
LEMMA ReadBehind ==
  ASSUME NEW S, NEW inner \in Seq(S), NEW T, NEW w \in Seq(T), NEW id, NEW type,
         NEW j \in DOMAIN w, Sent(w, id, type) = {j},
         \A k \in DOMAIN inner : ~(inner[k].id = id /\ inner[k].type = type)
  PROVE  /\ Sent(inner \o w, id, type) # {}
         /\ \A old : Read(inner \o w, id, type, old) = w[j].value
<1> DEFINE n == Len(inner)
           all == inner \o w
<1>1. /\ n \in Nat /\ DOMAIN inner = 1..n
      /\ Len(w) \in Nat /\ DOMAIN w = 1..Len(w) /\ j \in Nat
  BY LenProperties
<1>2. inner \in Seq(S \cup T) /\ w \in Seq(S \cup T)
  OBVIOUS
<1>3. /\ DOMAIN all = 1..(n + Len(w))
      /\ \A k \in 1..(n + Len(w)) : all[k] = IF k <= n THEN inner[k] ELSE w[k - n]
  BY <1>1, <1>2, ConcatProperties, LenProperties
<1> HIDE DEF all, n
<1>4. n + j \in DOMAIN all /\ all[n + j] = w[j]
  BY <1>1, <1>3
<1>5. \A k \in DOMAIN all : k \in Sent(all, id, type) <=> k = n + j
  <2>1. SUFFICES ASSUME NEW k \in DOMAIN all
                 PROVE  k \in Sent(all, id, type) <=> k = n + j
    OBVIOUS
  <2>2. CASE k <= n
    <3>1. k \in DOMAIN inner /\ all[k] = inner[k] /\ k # n + j
      BY <1>1, <1>3, <2>2
    <3> QED BY <3>1 DEF Sent
  <2>3. CASE ~(k <= n)
    <3>1. PICK l \in DOMAIN w : l = k - n /\ all[k] = w[l] /\ (k = n + j <=> l = j)
      BY <1>1, <1>3, <2>3
    <3>2. k \in Sent(all, id, type) <=> l \in Sent(w, id, type)
      BY <3>1 DEF Sent
    <3> QED BY <3>1, <3>2
  <2> QED BY <2>2, <2>3
<1>6. Sent(all, id, type) = {n + j}
  BY <1>4, <1>5 DEF Sent
<1> QED
  BY <1>4, <1>6 DEF Read, all

(***************************************************************************)
(* ReadQuery takes back what WriteQuery has put into the fields.           *)
(***************************************************************************)
LEMMA QueryReadBehind ==
  ASSUME NEW S, NEW inner \in Seq(S), Unclaimed(inner), NEW q \in Query, NEW old
  PROVE  ReadQuery(old, inner \o WriteQuery(q)) = Parsed(TRUE, q)
<1> DEFINE w == WriteQuery(q)
           T == {w[1], w[2], w[3], w[4]}
<1>1. /\ Sent(w, 1, "i32") = {1} /\ Sent(w, 2, "list") = {2}
      /\ Sent(w, 3, "list") = {3} /\ Sent(w, 4, "list") = {4}
  BY DEF Sent, WriteQuery, Field
<1>2. w[1].value = q.op /\ w[2].value = q.strings /\ w[3].value = q.ids
      /\ w[4].value = q.failures
  BY DEF WriteQuery, Field
<1>3. w \in Seq(T) /\ DOMAIN w = 1..4
  BY DEF WriteQuery
<1>4. \A k \in DOMAIN inner :
        /\ ~(inner[k].id = 1 /\ inner[k].type = "i32")
        /\ ~(inner[k].id = 2 /\ inner[k].type = "list")
        /\ ~(inner[k].id = 3 /\ inner[k].type = "list")
        /\ ~(inner[k].id = 4 /\ inner[k].type = "list")
  BY DEF Unclaimed
<1> HIDE DEF w, T
<1> DEFINE all == inner \o w
<1>5. Sent(all, 1, "i32") # {} /\ \A o : Read(all, 1, "i32", o) = q.op
  <2>1. 1 \in DOMAIN w
    BY <1>3
  <2> QED BY <2>1, <1>1, <1>2, <1>3, <1>4, ReadBehind
<1>6. \A o : Read(all, 2, "list", o) = q.strings
  <2>1. 2 \in DOMAIN w
    BY <1>3
  <2> QED BY <2>1, <1>1, <1>2, <1>3, <1>4, ReadBehind
<1>7. \A o : Read(all, 3, "list", o) = q.ids
  <2>1. /\ 3 \in DOMAIN w /\ Sent(w, 3, "list") = {3}
        /\ \A k \in DOMAIN inner : ~(inner[k].id = 3 /\ inner[k].type = "list")
    BY <1>1, <1>3, <1>4
  <2>2. \A o : Read(all, 3, "list", o) = w[3].value
    BY <2>1, <1>3, ReadBehind
  <2> QED BY <2>2, <1>2
<1>8. \A o : Read(all, 4, "list", o) = q.failures
  <2>1. 4 \in DOMAIN w
    BY <1>3
  <2> QED BY <2>1, <1>1, <1>2, <1>3, <1>4, ReadBehind
<1> HIDE DEF all
<1>9. q = [op |-> q.op, strings |-> q.strings, ids |-> q.ids, failures |-> q.failures]
  BY DEF Query
<1> QED
  BY <1>5, <1>6, <1>7, <1>8, <1>9 DEF ReadQuery, Parsed, w, all

(***************************************************************************)
(* The same of NumeratorException.                                         *)
(***************************************************************************)
LEMMA ExceptionReadBehind ==
  ASSUME NEW S, NEW inner \in Seq(S), Unclaimed(inner),
         NEW e \in NumeratorException, NEW old
  PROVE  ReadException(old, inner \o WriteException(e)) = Parsed(TRUE, e)
<1> DEFINE w == WriteException(e)
           T == {w[1], w[2]}
<1>1. Sent(w, 1, "i32") = {1} /\ Sent(w, 2, "string") = {2}
  BY DEF Sent, WriteException, Field
<1>2. w[1].value = e.code /\ w[2].value = e.message
  BY DEF WriteException, Field
<1>3. w \in Seq(T) /\ DOMAIN w = 1..2
  BY DEF WriteException
<1>4. \A k \in DOMAIN inner :
        /\ ~(inner[k].id = 1 /\ inner[k].type = "i32")
        /\ ~(inner[k].id = 2 /\ inner[k].type = "string")
  BY DEF Unclaimed
<1> HIDE DEF w, T
<1> DEFINE all == inner \o w
<1>5. Sent(all, 1, "i32") # {} /\ \A o : Read(all, 1, "i32", o) = e.code
  <2>1. 1 \in DOMAIN w
    BY <1>3
  <2> QED BY <2>1, <1>1, <1>2, <1>3, <1>4, ReadBehind
<1>6. \A o : Read(all, 2, "string", o) = e.message
  <2>1. 2 \in DOMAIN w
    BY <1>3
  <2> QED BY <2>1, <1>1, <1>2, <1>3, <1>4, ReadBehind
<1> HIDE DEF all
<1>7. e = [code |-> e.code, message |-> e.message]
  BY DEF NumeratorException
<1> QED
  BY <1>5, <1>6, <1>7 DEF ReadException, Parsed, w, all

(***************************************************************************)
(* Both with the fields of a program's interface inside, and without.      *)
(***************************************************************************)
LEMMA QueryReadBack ==
  ASSUME NEW q \in Query, NEW old
  PROVE  /\ \A p \in Programs : ReadQuery(old, p.inner \o WriteQuery(q)) = Parsed(TRUE, q)
         /\ ReadQuery(old, WriteQuery(q)) = Parsed(TRUE, q)
<1>1. \A p \in Programs : ReadQuery(old, p.inner \o WriteQuery(q)) = Parsed(TRUE, q)
  BY NewerFields, QueryReadBehind
<1>2. <<>> \in Seq({}) /\ Unclaimed(<<>>)
  BY DEF Unclaimed
<1>3. <<>> \o WriteQuery(q) = WriteQuery(q)
  BY DEF WriteQuery
<1> QED
  BY <1>1, <1>2, <1>3, QueryReadBehind

LEMMA ExceptionReadBack ==
  ASSUME NEW e \in NumeratorException, NEW old
  PROVE  /\ \A p \in Programs :
              ReadException(old, p.inner \o WriteException(e)) = Parsed(TRUE, e)
         /\ ReadException(old, WriteException(e)) = Parsed(TRUE, e)
<1>1. \A p \in Programs :
        ReadException(old, p.inner \o WriteException(e)) = Parsed(TRUE, e)
  BY NewerFields, ExceptionReadBehind
<1>2. <<>> \in Seq({}) /\ Unclaimed(<<>>)
  BY DEF Unclaimed
<1>3. <<>> \o WriteException(e) = WriteException(e)
  BY DEF WriteException
<1> QED
  BY <1>1, <1>2, <1>3, ExceptionReadBehind

(***************************************************************************)
(* The values that the stubs and the handler put on the wire.              *)
(***************************************************************************)
LEMMA WireTypes ==
  /\ EmptyQuery \in Query /\ EmptyException \in NumeratorException
  /\ Refused \in NumeratorException
<1>1. EmptyQuery \in Query
  BY DEF EmptyQuery, Query
<1>3. EmptyException \in NumeratorException
  BY DEF EmptyException, NumeratorException
<1>4. Refused \in NumeratorException
  BY DEF Refused, NumeratorException, ErrorCode
<1> QED
  BY <1>1, <1>3, <1>4

(***************************************************************************)
(* The arguments and both kinds of results of query.                       *)
(***************************************************************************)
LEMMA ArgsReadBack ==
  ASSUME NEW p \in Programs, NEW q \in Query
  PROVE  ReadQueryArgs(OnWire(p, WriteQueryArgs(q))) = Parsed(TRUE, q)
<1>1. OnWire(p, WriteQueryArgs(q)) = Sends(p, 1, WriteQuery(q))
  BY DEF WriteQueryArgs, Sends
<1>2. /\ Sent(Sends(p, 1, WriteQuery(q)), 1, "struct") # {}
      /\ Read(Sends(p, 1, WriteQuery(q)), 1, "struct", <<>>) = p.inner \o WriteQuery(q)
  BY FieldReadBack
<1>3. ReadQuery(EmptyQuery, p.inner \o WriteQuery(q)) = Parsed(TRUE, q)
  BY QueryReadBack
<1>4. ReadQueryArgs(Sends(p, 1, WriteQuery(q))) = Parsed(TRUE, q)
  BY <1>2, <1>3 DEF ReadQueryArgs
<1> QED
  BY <1>1, <1>4

(***************************************************************************)
(* RecvQuery ends with what WriteQueryResult was given: the query, or the  *)
(* exception, with the receive sentry committed.                           *)
(***************************************************************************)
LEMMA ResultReadBack ==
  ASSUME NEW p \in Programs, NEW m, m.type = "reply", m.name = "query"
  PROVE  /\ \A q \in Query :
              m.fields = OnWire(p, WriteQueryResult(Success(q)))
                => Recv("query", m) = Committed(Returned(q))
         /\ \A e \in NumeratorException :
              m.fields = OnWire(p, WriteQueryResult(Exc(e)))
                => Recv("query", m) = Committed(Thrown(e))
<1> DEFINE r == ReadQueryResult(EmptyQuery, m.fields)
<1>1. ~Misdirected("query", m) /\ m.type # "exception"
  BY DEF Misdirected
<1>2. ASSUME NEW q \in Query,
             m.fields = OnWire(p, WriteQueryResult(Success(q)))
      PROVE  Recv("query", m) = Committed(Returned(q))
  <2> DEFINE fields == Sends(p, 0, WriteQuery(q))
  <2>1. m.fields = fields
    BY <1>2 DEF WriteQueryResult, Success, Sends
  <2>2. /\ Sent(fields, 0, "struct") # {} /\ Sent(fields, 1, "struct") = {}
        /\ \A old : /\ Read(fields, 0, "struct", old) = p.inner \o WriteQuery(q)
                    /\ Read(fields, 1, "struct", old) = old
    BY FieldReadBack
  <2> HIDE DEF fields
  <2>3. r = Parsed(TRUE, [isset |-> {"success"}, success |-> q,
                          exc |-> EmptyException])
    <3>1. /\ ReadQuery(EmptyQuery, p.inner \o WriteQuery(q)) = Parsed(TRUE, q)
          /\ ReadException(EmptyException, WriteException(EmptyException)) = Parsed(TRUE, EmptyException)
      BY QueryReadBack, ExceptionReadBack, WireTypes
    <3>2. {g \in {"success"} : Sent(fields, 0, "struct") # {}} \cup
          {g \in {"exc"} : Sent(fields, 1, "struct") # {}} = {"success"}
      BY <2>2
    <3>3. /\ Read(fields, 0, "struct", WriteQuery(EmptyQuery)) = p.inner \o WriteQuery(q)
          /\ Read(fields, 1, "struct", WriteException(EmptyException))
               = WriteException(EmptyException)
      BY <2>2
    <3>4. Parsed(TRUE, q).ok /\ Parsed(TRUE, q).value = q
          /\ Parsed(TRUE, EmptyException).ok /\ Parsed(TRUE, EmptyException).value = EmptyException
      BY DEF Parsed
    <3> QED
      BY <2>1, <3>1, <3>2, <3>3, <3>4 DEF ReadQueryResult
  <2> HIDE DEF r
  <2>4. r.ok /\ "success" \in r.value.isset /\ r.value.success = q
    BY <2>3 DEF Parsed
  <2> QED
    BY <1>1, <2>4 DEF Recv, RecvQuery, r
<1>3. ASSUME NEW e \in NumeratorException,
             m.fields = OnWire(p, WriteQueryResult(Exc(e)))
      PROVE  Recv("query", m) = Committed(Thrown(e))
  <2> DEFINE fields == Sends(p, 1, WriteException(e))
  <2>1. m.fields = fields
    BY <1>3 DEF WriteQueryResult, Exc, Sends
  <2>2. /\ Sent(fields, 1, "struct") # {} /\ Sent(fields, 0, "struct") = {}
        /\ \A old : /\ Read(fields, 1, "struct", old) = p.inner \o WriteException(e)
                    /\ Read(fields, 0, "struct", old) = old
    BY FieldReadBack
  <2> HIDE DEF fields
  <2>3. r = Parsed(TRUE, [isset |-> {"exc"}, success |-> EmptyQuery, exc |-> e])
    <3>1. /\ ReadQuery(EmptyQuery, WriteQuery(EmptyQuery)) = Parsed(TRUE, EmptyQuery)
          /\ ReadException(EmptyException, p.inner \o WriteException(e)) = Parsed(TRUE, e)
      BY QueryReadBack, ExceptionReadBack, WireTypes
    <3>2. {g \in {"success"} : Sent(fields, 0, "struct") # {}} \cup
          {g \in {"exc"} : Sent(fields, 1, "struct") # {}} = {"exc"}
      BY <2>2
    <3>3. /\ Read(fields, 0, "struct", WriteQuery(EmptyQuery)) = WriteQuery(EmptyQuery)
          /\ Read(fields, 1, "struct", WriteException(EmptyException))
               = p.inner \o WriteException(e)
      BY <2>2
    <3>4. Parsed(TRUE, EmptyQuery).ok /\ Parsed(TRUE, EmptyQuery).value = EmptyQuery
          /\ Parsed(TRUE, e).ok /\ Parsed(TRUE, e).value = e
      BY DEF Parsed
    <3> QED
      BY <2>1, <3>1, <3>2, <3>3, <3>4 DEF ReadQueryResult
  <2> HIDE DEF r
  <2>4. r.ok /\ "success" \notin r.value.isset /\ "exc" \in r.value.isset
        /\ r.value.exc = e
    BY <2>3 DEF Parsed
  <2> QED
    BY <1>1, <2>4 DEF Recv, RecvQuery, r
<1> QED
  BY <1>2, <1>3

-----------------------------------------------------------------------------
(***************************************************************************)
(* No two messages of a channel are about one call.                        *)
(***************************************************************************)
Distinct(s) == \A j, k \in DOMAIN s : s[j].id = s[k].id => j = k

(***************************************************************************)
(* Answers that were sent and not taken, and all messages.                 *)
(***************************************************************************)
Unread == Elements(toClient) \cup ({pending} \ {None})

Mail == Elements(toServer) \cup Unread

(***************************************************************************)
(* The sequence id of the i-th call of a connection.                       *)
(***************************************************************************)
number == [i \in 1..(MaxCalls + 1) |->
             IF FirstSeq + i - 1 <= MaxSeq THEN FirstSeq + i - 1
             ELSE FirstSeq + i - 1 - (MaxSeq - MinSeq + 1)]

(***************************************************************************)
(* Of the threads: a call has a number of its own, and a thread that is in *)
(* a call has its monitor.                                                 *)
(***************************************************************************)
Asks(c) == IF c.method = "query" THEN c.query \in Requests ELSE c.query = EmptyQuery

ThreadsOk ==
  /\ program \in Programs
  /\ open \in BOOLEAN
  /\ calls \in 0..MaxCalls /\ calls <= program.calls
  /\ pc \in [Threads -> {"idle", "sending", "sent", "reading", "waiting",
                         "woken", "lost"}]
  /\ call \in [Threads -> [id : 0..MaxCalls, method : Methods, query : Query]]
  /\ seqid \in [Threads -> SeqIds]
  /\ got \in [Threads -> Outcome]
  /\ nextseqid \in SeqIds /\ monitors \subseteq SeqIds
  /\ stop \in BOOLEAN /\ wakeupSomeone \in BOOLEAN /\ misnamed \in BOOLEAN

CallsInv ==
  /\ \A t \in Threads :
       /\ call[t].id <= calls
       /\ call[t].id # 0 => /\ Asks(call[t])
                            /\ Concurrent => seqid[t] = number[call[t].id]
       /\ pc[t] # "idle" => /\ t \in program.threads /\ call[t].id # 0
                            /\ Concurrent => seqid[t] \in monitors
  /\ \A t, u \in Threads : call[t].id = call[u].id /\ call[t].id # 0 => t = u
  /\ Concurrent => nextseqid = number[calls + 1]
  /\ ~Concurrent => ~stop /\ pending = None

(***************************************************************************)
(* A call under way asks what its thread asks, and is not served yet.      *)
(***************************************************************************)
Numbered(m) == m.id <= calls /\ (Concurrent => m.seqid = number[m.id])

CallOk(m) ==
  /\ m.type = "call" /\ Numbered(m)
  /\ served[m.id] = None
  /\ \E t \in Threads :
       /\ call[t].id = m.id /\ call[t].method = m.name
       /\ m.name = "query" =>
            m.fields = OnWire(program, WriteQueryArgs(call[t].query))

(***************************************************************************)
(* An answer under way is what the server made of the call, or misnamed.   *)
(***************************************************************************)
AnswerOk(m) ==
  /\ m.type \in {"reply", "exception"} /\ Numbered(m)
  /\ \E t \in Threads, name \in Methods :
       /\ call[t].id = m.id /\ call[t].method = name
       /\ \/ misnamed /\ Misdirected(name, m)
          \/ /\ served[m.id] # None /\ ~Misdirected(name, m)
             /\ \E o \in Outcome : /\ served[m.id].outcome = o
                                   /\ Recv(name, m) = Committed(o)

(***************************************************************************)
(* Unless the client has died, the thread that made the call waits.        *)
(***************************************************************************)
Awaiting == {"sent", "reading", "waiting", "woken"}

Awaited(m) ==
  stop \/ \E t \in Threads : call[t].id = m.id /\ pc[t] \in Awaiting

MailInv ==
  /\ toServer \in Seq(Messages) /\ toClient \in Seq(Messages)
  /\ pending \in Messages \cup {None}
  /\ ~open => toServer = <<>>
  /\ \A m \in Elements(toServer) : CallOk(m)
  /\ \A m \in Unread : AnswerOk(m)
  /\ \A m \in Mail : Awaited(m)

(***************************************************************************)
(* No two messages are about one call.                                     *)
(***************************************************************************)
Alone ==
  /\ Distinct(toServer) /\ Distinct(toClient)
  /\ \A m \in Elements(toServer) : \A n \in Unread : m.id # n.id
  /\ pending # None => \A n \in Elements(toClient) : n.id # pending.id

(***************************************************************************)
(* What was served, and that a call still to be sent was not.              *)
(***************************************************************************)
ServedInv ==
  /\ served \in [CallIds -> {None} \cup
                   [method : Methods, query : Query, outcome : Outcome]]
  /\ \A i \in CallIds : i > calls => served[i] = None
  /\ \A t \in Threads :
       pc[t] = "sending" => /\ served[call[t].id] = None
                            /\ \A m \in Mail : m.id # call[t].id

Answers == {"returned", "thrown", "app"}

Told ==
  \A t \in Threads :
    got[t].kind \in Answers =>
      /\ call[t].id # 0
      /\ served[call[t].id] # None
      /\ got[t] = served[call[t].id].outcome

RpcInv ==
  /\ ThreadsOk /\ CallsInv /\ MailInv /\ Alone /\ ServedInv
  /\ Told /\ AskedAsMeant /\ DeadForCause

-----------------------------------------------------------------------------
(***************************************************************************)
(* Numbers roll over but are not used twice on a connection.               *)
(***************************************************************************)
LEMMA Numbers ==
  /\ number \in [1..(MaxCalls + 1) -> SeqIds]
  /\ \A i, j \in 1..MaxCalls : number[i] = number[j] => i = j
  /\ \A i \in 1..MaxCalls : NextSeq(number[i]) = number[i + 1]
  /\ number[1] = FirstSeq
<1>1. \A i \in 1..(MaxCalls + 1) :
        number[i] = IF FirstSeq + i - 1 <= MaxSeq THEN FirstSeq + i - 1
                    ELSE FirstSeq + i - 1 - (MaxSeq - MinSeq + 1)
  BY DEF number
<1>2. number \in [1..(MaxCalls + 1) -> SeqIds]
  BY SeqAssumption DEF number, SeqIds
<1>3. \A i, j \in 1..MaxCalls : number[i] = number[j] => i = j
  BY <1>1, SeqAssumption DEF SeqIds
<1>4. \A i \in 1..MaxCalls : NextSeq(number[i]) = number[i + 1]
  <2>1. SUFFICES ASSUME NEW i \in 1..MaxCalls
                 PROVE  NextSeq(number[i]) = number[i + 1]
    OBVIOUS
  <2>2. i \in 1..(MaxCalls + 1) /\ i + 1 \in 1..(MaxCalls + 1)
    BY SeqAssumption
  <2> QED
    BY <2>1, <2>2, <1>1, SeqAssumption DEF NextSeq, SeqIds
<1>5. number[1] = FirstSeq
  BY <1>1, SeqAssumption DEF SeqIds
<1> QED
  BY <1>2, <1>3, <1>4, <1>5

(***************************************************************************)
(* What is sent is the structure's own fields with those of a newer        *)
(* interface.                                                              *)
(***************************************************************************)
LEMMA FieldsWithNewer ==
  ASSUME NEW p \in Programs, NEW f \in OwnFields
  PROVE  OnWire(p, f) \in AllFields
<1>1. OnWire(p, f) \in {OnWire(p, g) : g \in OwnFields}
  BY Zenon
<1>2. {OnWire(p, g) : g \in OwnFields}
        \in {{OnWire(r, g) : g \in OwnFields} : r \in Programs}
  BY Zenon
<1> QED
  BY <1>1, <1>2, Zenon DEF AllFields

(***************************************************************************)
(* All that is under way is a message.                                     *)
(***************************************************************************)
LEMMA MailHasMessages == RpcInv => Mail \subseteq Messages
<1>1. SUFFICES ASSUME RpcInv PROVE Mail \subseteq Messages
  OBVIOUS
<1>2. \A s \in Seq(Messages) : Elements(s) \subseteq Messages
  BY DEF Elements
<1> QED
  BY <1>1, <1>2 DEF RpcInv, MailInv, Mail, Unread

(***************************************************************************)
(* The sequences of messages: sending, taking the first, losing the last.  *)
(***************************************************************************)
LEMMA AppendMessage ==
  ASSUME NEW S, NEW s \in Seq(S), NEW m \in S
  PROVE  /\ Append(s, m) \in Seq(S)
         /\ Elements(Append(s, m)) = Elements(s) \cup {m}
         /\ Distinct(s) /\ (\A n \in Elements(s) : n.id # m.id)
              => Distinct(Append(s, m))
<1>1. /\ Len(s) \in Nat /\ DOMAIN s = 1..Len(s)
      /\ Append(s, m) \in Seq(S) /\ DOMAIN Append(s, m) = 1..(Len(s) + 1)
      /\ \A k \in 1..Len(s) : Append(s, m)[k] = s[k]
      /\ Append(s, m)[Len(s) + 1] = m
  BY AppendProperties
<1> DEFINE a == Append(s, m)
           n == Len(s)
<1> HIDE DEF a, n
<1>2. \A k : k \in 1..(n + 1) <=> k \in 1..n \/ k = n + 1
  BY <1>1 DEF n
<1>3. Elements(a) = Elements(s) \cup {m}
  BY <1>1, <1>2 DEF Elements, a, n
<1>4. ASSUME Distinct(s), \A e \in Elements(s) : e.id # m.id
      PROVE  Distinct(a)
  BY <1>1, <1>2, <1>4 DEF Distinct, Elements, a, n
<1> QED
  BY <1>1, <1>3, <1>4 DEF a

(***************************************************************************)
(* Taking the first message leaves messages of other calls.                *)
(***************************************************************************)
LEMMA TakeMessage ==
  ASSUME NEW S, NEW s \in Seq(S), s # <<>>
  PROVE  /\ Tail(s) \in Seq(S)
         /\ Head(s) \in Elements(s) /\ Elements(s) \subseteq S
         /\ Elements(Tail(s)) \subseteq Elements(s)
         /\ Distinct(s) => /\ Distinct(Tail(s))
                           /\ \A n \in Elements(Tail(s)) : n.id # Head(s).id
<1>1. /\ Len(s) \in Nat \ {0} /\ DOMAIN s = 1..Len(s)
      /\ Head(s) = s[1]
      /\ Tail(s) \in Seq(S) /\ DOMAIN Tail(s) = 1..(Len(s) - 1)
      /\ \A k \in 1..(Len(s) - 1) : Tail(s)[k] = s[k + 1]
  BY HeadTailProperties
<1>2. \A k \in 1..Len(s) : s[k] \in S
  OBVIOUS
<1> DEFINE a == Tail(s)
           n == Len(s)
<1> HIDE DEF a, n
<1>3. 1 \in 1..n /\ \A k \in 1..(n - 1) : k + 1 \in 1..n /\ k + 1 # 1
  BY <1>1 DEF n
<1>4. Head(s) \in Elements(s) /\ Elements(s) \subseteq S
  BY <1>1, <1>2, <1>3 DEF Elements, n
<1>5. Elements(a) \subseteq Elements(s)
  BY <1>1, <1>3 DEF Elements, a, n
<1>6. ASSUME Distinct(s)
      PROVE  Distinct(a) /\ \A e \in Elements(a) : e.id # Head(s).id
  <2>1. \A j, k \in 1..(n - 1) : a[j].id = a[k].id => j + 1 = k + 1
    BY <1>1, <1>3, <1>6 DEF Distinct, a, n
  <2>2. \A k \in 1..(n - 1) : a[k].id # s[1].id
    BY <1>1, <1>3, <1>6 DEF Distinct, a, n
  <2>3. \A j, k \in 1..(n - 1) : j + 1 = k + 1 => j = k
    OBVIOUS
  <2> QED
    BY <1>1, <2>1, <2>2, <2>3 DEF Distinct, Elements, a, n
<1> QED
  BY <1>1, <1>4, <1>5, <1>6 DEF a

(***************************************************************************)
(* What a closed connection still delivers was sent.                       *)
(***************************************************************************)
LEMMA PrefixOfMessages ==
  ASSUME NEW S, NEW s \in Seq(S), NEW k \in 0..Len(s)
  PROVE  /\ SubSeq(s, 1, k) \in Seq(S)
         /\ Elements(SubSeq(s, 1, k)) \subseteq Elements(s)
         /\ Distinct(s) => Distinct(SubSeq(s, 1, k))
<1> DEFINE a == SubSeq(s, 1, k)
<1>1. /\ a \in Seq(S) /\ DOMAIN a = 1..k /\ DOMAIN s = 1..Len(s)
      /\ \A i \in 1..k : a[i] = s[i] /\ i \in 1..Len(s)
  BY SubSeqProperties
<1> HIDE DEF a
<1> QED
  BY <1>1 DEF Elements, Distinct, a

-----------------------------------------------------------------------------
(***************************************************************************)
(* The beginning, and that of the next connection.                         *)
(***************************************************************************)
LEMMA NoMessages ==
  /\ <<>> \in Seq(Messages) /\ Elements(<<>>) = {} /\ Distinct(<<>>)
BY DEF Elements, Distinct

(***************************************************************************)
(* The invariant holds of a new connection.                                *)
(***************************************************************************)
LEMMA InitInv == Init => RpcInv
<1>1. SUFFICES ASSUME Init PROVE RpcInv
  OBVIOUS
<1>2. Failed("none") \in Outcome /\ EmptyQuery \in Query
  BY WireTypes DEF Failed, Ended, Outcome
<1>3. ThreadsOk
  <2>1. program \in Programs /\ 0 <= program.calls
    <3>1. program \in Programs
      BY <1>1 DEF Init
    <3>2. IsProgram(program)
      BY <3>1, RpcAssumption
    <3> QED
      BY <3>1, <3>2, SeqAssumption DEF IsProgram
  <2>2. calls \in 0..MaxCalls /\ calls <= program.calls
    BY <1>1, <2>1, SeqAssumption DEF Init
  <2>3. call \in [Threads -> [id : 0..MaxCalls, method : Methods, query : Query]]
    BY <1>1, <1>2, SeqAssumption DEF Init, NoCall, Methods
  <2>4. seqid \in [Threads -> SeqIds] /\ nextseqid \in SeqIds
    BY <1>1, SeqAssumption DEF Init
  <2> QED
    BY <1>1, <1>2, <2>1, <2>2, <2>3, <2>4 DEF Init, ThreadsOk
<1>4. CallsInv
  BY <1>1, Numbers DEF Init, CallsInv, NoCall
<1>5. Mail = {} /\ Unread = {} /\ Elements(toServer) = {} /\ Elements(toClient) = {}
  BY <1>1, NoMessages DEF Init, Mail, Unread
<1>6. MailInv
  BY <1>1, <1>5, NoMessages DEF Init, MailInv
<1>7. Alone
  BY <1>1, <1>5, NoMessages DEF Init, Alone
<1>8. ServedInv
  BY <1>1, <1>5 DEF Init, ServedInv
<1>9. Told /\ AskedAsMeant /\ DeadForCause
  BY <1>1 DEF Init, Told, Answers, AskedAsMeant, DeadForCause, NoCall, Failed, Ended
<1> QED
  BY <1>3, <1>4, <1>6, <1>7, <1>8, <1>9 DEF RpcInv

(***************************************************************************)
(* The next connection begins as the first one.                            *)
(***************************************************************************)
LEMMA ReconnectKeeps == RpcInv /\ Reconnect => RpcInv'
<1>1. RpcInv /\ Reconnect => Init'
  BY DEF RpcInv, ThreadsOk, Reconnect, Init
<1> QED
  BY <1>1, InitInv, PTL

(***************************************************************************)
(* The type invariant is a part of it.                                     *)
(***************************************************************************)
LEMMA TypesFollow == RpcInv => TypeOK
<1>1. SUFFICES ASSUME RpcInv PROVE TypeOK
  OBVIOUS
<1>2. \A m \in Elements(toServer) : m.type = "call"
  BY <1>1 DEF RpcInv, MailInv, CallOk
<1>3. \A m \in Elements(toClient) : m.type # "call"
  BY <1>1 DEF RpcInv, MailInv, Unread, AnswerOk
<1> QED
  BY <1>1, <1>2, <1>3 DEF RpcInv, ThreadsOk, MailInv, ServedInv, TypeOK

-----------------------------------------------------------------------------
(***************************************************************************)
(* Messages keep their meaning while calls and what was served stay, and a *)
(* step of a thread that is neither its first nor Send keeps the rest if   *)
(* it keeps what it touches.                                               *)
(***************************************************************************)
LEMMA MeaningKept ==
  ASSUME UNCHANGED <<program, calls, call, served>>, misnamed => misnamed', NEW m
  PROVE  /\ CallOk(m) => CallOk(m)'
         /\ AnswerOk(m) => AnswerOk(m)'
BY DEF CallOk, AnswerOk, Numbered, Concurrent

Quiet ==
  UNCHANGED <<program, open, toServer, calls, call, seqid, nextseqid, history>>

(***************************************************************************)
(* Steps of the client's threads that make no call and send nothing: what  *)
(* is left to show of them.                                                *)
(***************************************************************************)
LEMMA ThreadFrame ==
  ASSUME RpcInv, Quiet,
         pc' \in [Threads -> {"idle", "sending", "sent", "reading", "waiting",
                              "woken", "lost"}],
         got' \in [Threads -> Outcome], monitors' \subseteq SeqIds,
         stop' \in BOOLEAN, wakeupSomeone' \in BOOLEAN,
         toClient' \in Seq(Messages), pending' \in Messages \cup {None},
         Unread' \subseteq Unread, Distinct(toClient)',
         (pending # None => \A n \in Elements(toClient) : n.id # pending.id)',
         \A u \in Threads :
           /\ pc'[u] # "idle" => /\ pc[u] # "idle"
                                 /\ Concurrent => seqid[u] \in monitors'
           /\ pc'[u] = "sending" => pc[u] = "sending",
         ~Concurrent => ~stop' /\ pending' = None,
         \A m \in Mail' : Awaited(m)',
         Told', DeadForCause'
  PROVE  RpcInv'
<1>1. Elements(toServer)' = Elements(toServer) /\ Mail' \subseteq Mail
  BY DEF Quiet, Mail, Elements
<1>2. ThreadsOk'
  BY DEF RpcInv, ThreadsOk, Quiet, history
<1>3. CallsInv'
  BY DEF RpcInv, CallsInv, Quiet, Concurrent
<1>4. MailInv'
  <2>1. \A m \in Elements(toServer)' : CallOk(m)'
    BY <1>1, MeaningKept DEF RpcInv, MailInv, Quiet, history
  <2>2. \A m \in Unread' : AnswerOk(m)'
    BY MeaningKept DEF RpcInv, MailInv, Quiet, history
  <2>3. toServer' \in Seq(Messages) /\ (~open' => toServer' = <<>>)
    BY DEF RpcInv, MailInv, Quiet
  <2> QED
    BY <2>1, <2>2, <2>3 DEF MailInv
<1>5. Alone'
  <2>1. Distinct(toServer)'
    BY DEF RpcInv, Alone, Quiet, Distinct
  <2>2. \A m \in Elements(toServer)' : \A n \in Unread' : m.id # n.id
    BY <1>1 DEF RpcInv, Alone
  <2> QED
    BY <2>1, <2>2 DEF Alone
<1>6. ServedInv'
  BY <1>1 DEF RpcInv, ServedInv, Quiet, history
<1>7. AskedAsMeant'
  BY DEF RpcInv, AskedAsMeant, Quiet, history
<1> QED
  BY <1>2, <1>3, <1>4, <1>5, <1>6, <1>7 DEF RpcInv

-----------------------------------------------------------------------------
(***************************************************************************)
(* Sequence ids tell the threads of a shared client apart, so an answer    *)
(* with a thread's own id is the answer to its call.                       *)
(***************************************************************************)
LEMMA OwnNumber ==
  ASSUME RpcInv, Concurrent, NEW t \in Threads, NEW u \in Threads,
         call[t].id # 0, call[u].id # 0, seqid[t] = seqid[u]
  PROVE  t = u
<1>1. call[t].id \in 1..MaxCalls /\ call[u].id \in 1..MaxCalls
  BY SeqAssumption DEF RpcInv, ThreadsOk
<1>2. seqid[t] = number[call[t].id] /\ seqid[u] = number[call[u].id]
  BY DEF RpcInv, CallsInv
<1>3. call[t].id = call[u].id
  BY <1>1, <1>2, Numbers
<1> QED
  BY <1>3 DEF RpcInv, CallsInv

(***************************************************************************)
(* What a thread takes for its own is about its own call.                  *)
(***************************************************************************)
LEMMA OwnMessage ==
  ASSUME RpcInv, NEW t \in Threads, pc[t] # "idle",
         NEW m \in Unread, Mine(t, m)
  PROVE  m.id = call[t].id
<1>1. AnswerOk(m) /\ Awaited(m) /\ m \in Messages
  BY DEF RpcInv, MailInv, Mail, Unread, Elements
<1>2. call[t].id # 0 /\ t \in program.threads
  BY DEF RpcInv, CallsInv
<1>3. CASE Concurrent
  <2>1. m.id \in 1..MaxCalls /\ call[t].id \in 1..MaxCalls
    BY <1>1, <1>2, SeqAssumption DEF Messages, CallIds, RpcInv, ThreadsOk
  <2>2. number[m.id] = number[call[t].id]
    BY <1>1, <1>2, <1>3 DEF AnswerOk, Numbered, Mine, RpcInv, CallsInv
  <2> QED
    BY <2>1, <2>2, Numbers
<1>4. CASE ~Concurrent
  <2>1. PICK u \in Threads : call[u].id = m.id /\ pc[u] \in Awaiting
    BY <1>1, <1>4 DEF Awaited, RpcInv, CallsInv
  <2>2. u \in program.threads
    BY <2>1 DEF Awaiting, RpcInv, CallsInv
  <2>3. IsProgram(program)
    BY RpcAssumption DEF RpcInv, ThreadsOk
  <2>4. \E w \in Threads : program.threads = {w}
    BY <2>3, <1>4 DEF IsProgram, Concurrent
  <2> QED
    BY <1>2, <2>1, <2>2, <2>4
<1> QED
  BY <1>3, <1>4

(***************************************************************************)
(* Waking threads changes nothing else.                                    *)
(***************************************************************************)
PcStates == {"idle", "sending", "sent", "reading", "waiting", "woken", "lost"}

Wakes(p, r) ==
  /\ r \in [Threads -> PcStates]
  /\ \A u \in Threads : r[u] = p[u] \/ (p[u] = "waiting" /\ r[u] = "woken")

(***************************************************************************)
(* Both ways to wake threads are such wakings.                             *)
(***************************************************************************)
LEMMA Wakings ==
  ASSUME NEW p \in [Threads -> PcStates]
  PROVE  Wakes(p, WakeAll(p)) /\ \A ids : Wakes(p, WakeLast(p, ids))
BY DEF Wakes, WakeAll, WakeLast, PcStates

(***************************************************************************)
(* The end of a call.                                                      *)
(***************************************************************************)
LEMMA LeaveKeeps ==
  ASSUME RpcInv, NEW t \in Threads, NEW o \in Outcome, NEW commit \in BOOLEAN,
         Leave(t, o, commit), pc[t] # "idle",
         toClient' \in Seq(Messages), pending' \in Messages \cup {None},
         Unread' \subseteq Unread, Distinct(toClient)',
         (pending # None => \A n \in Elements(toClient) : n.id # pending.id)',
         ~Concurrent => pending' = None,
         stop' \/ \A m \in Mail' : m.id # call[t].id,
         o.kind \in Answers =>
           served[call[t].id] # None /\ o = served[call[t].id].outcome,
         ~commit /\ Concurrent => ~open \/ misnamed \/ stop
  PROVE  RpcInv'
<1> DEFINE p == [pc EXCEPT ![t] = "idle"]
<1>1. p \in [Threads -> PcStates] /\ p[t] = "idle"
      /\ \A u \in Threads : u # t => p[u] = pc[u]
  BY DEF RpcInv, ThreadsOk, PcStates
<1>2. Wakes(p, pc')
  BY <1>1, Wakings DEF Leave
<1> HIDE DEF p
<1>3. /\ pc'[t] = "idle"
      /\ \A u \in Threads : u # t =>
           pc'[u] = pc[u] \/ (pc[u] = "waiting" /\ pc'[u] = "woken")
  BY <1>1, <1>2 DEF Wakes
<1>4. Quiet
  BY DEF Leave, Quiet
<1>5. ASSUME NEW u \in Threads
      PROVE  /\ pc'[u] # "idle" => /\ pc[u] # "idle"
                                   /\ Concurrent => seqid[u] \in monitors'
             /\ pc'[u] = "sending" => pc[u] = "sending"
  <2>1. CASE u = t
    BY <2>1, <1>3
  <2>2. CASE u # t
    <3>1. ASSUME pc'[u] # "idle", Concurrent PROVE seqid[u] \in monitors'
      <4>1. call[t].id # 0 /\ call[u].id # 0 /\ seqid[u] \in monitors
        BY <1>3, <2>2, <3>1 DEF RpcInv, CallsInv
      <4>2. seqid[u] # seqid[t]
        BY <2>2, <3>1, <4>1, OwnNumber
      <4> QED
        BY <4>1, <4>2 DEF Leave
    <3> QED
      BY <1>3, <2>2, <3>1
  <2> QED
    BY <2>1, <2>2
<1>6. ASSUME NEW m \in Mail' PROVE Awaited(m)'
  <2>1. CASE stop'
    BY <2>1 DEF Awaited
  <2>2. CASE ~stop'
    <3>1. m \in Mail /\ m.id # call[t].id /\ ~stop
      BY <2>2, <1>4, <1>6 DEF Mail, Quiet, Elements, Leave
    <3>2. PICK u \in Threads : call[u].id = m.id /\ pc[u] \in Awaiting
      BY <3>1 DEF RpcInv, MailInv, Awaited
    <3>3. u # t /\ pc'[u] \in Awaiting
      BY <3>1, <3>2, <1>3 DEF Awaiting
    <3> QED
      BY <3>2, <3>3, <1>4 DEF Awaited, Quiet
  <2> QED
    BY <2>1, <2>2
<1>7. got' \in [Threads -> Outcome] /\ got'[t] = o
      /\ \A u \in Threads : u # t => got'[u] = got[u]
  BY DEF Leave, RpcInv, ThreadsOk
<1>8. Told'
  <2>1. call[t].id # 0
    BY DEF RpcInv, CallsInv
  <2> QED
    BY <1>4, <1>7, <2>1 DEF Told, RpcInv, Quiet, history
<1>9. DeadForCause'
  <2>1. stop' => stop \/ (Concurrent /\ ~commit)
    BY DEF Leave
  <2>2. stop => ~open \/ misnamed
    BY DEF RpcInv, DeadForCause
  <2>3. stop' => ~open \/ misnamed
    BY <2>1, <2>2
  <2>4. open' = open /\ misnamed' = misnamed
    BY <1>4 DEF Quiet, history
  <2> QED
    BY <2>3, <2>4 DEF DeadForCause
<1>10. monitors' \subseteq SeqIds /\ stop' \in BOOLEAN /\ wakeupSomeone' \in BOOLEAN
  BY DEF Leave, RpcInv, ThreadsOk, Concurrent
<1>11. ~Concurrent => ~stop' /\ pending' = None
  BY DEF Leave, RpcInv, CallsInv
<1>12. pc' \in [Threads -> {"idle", "sending", "sent", "reading", "waiting",
                            "woken", "lost"}]
  BY <1>2 DEF Wakes, PcStates
<1> QED
  BY <1>4, <1>5, <1>6, <1>7, <1>8, <1>9, <1>10, <1>11, <1>12, ThreadFrame

-----------------------------------------------------------------------------
(***************************************************************************)
(* An answer is examined: its thread's own, another thread's, nobody's, or *)
(* one that a NumeratorClient passes over.  It is no longer on its way.    *)
(***************************************************************************)
LEMMA ExamineKeeps ==
  ASSUME RpcInv, NEW t \in Threads, pc[t] \in Awaiting, NEW m \in Unread,
         Examine(t, m),
         toClient' \in Seq(Messages), Distinct(toClient)',
         Elements(toClient)' \subseteq Elements(toClient),
         \A n \in Elements(toClient)' : n.id # m.id
  PROVE  RpcInv'
<1>1. /\ AnswerOk(m) /\ Awaited(m) /\ m \in Messages
      /\ \A n \in Elements(toServer) : n.id # m.id
  BY DEF RpcInv, MailInv, Alone, Mail, Unread, Elements
<1>2. pc[t] # "idle" /\ call[t].id # 0 /\ t \in program.threads
  BY DEF Awaiting, RpcInv, CallsInv
<1>3. Failed("transport") \in Outcome /\ Failed("protocol") \in Outcome
      /\ Failed("transport").kind \notin Answers /\ Failed("protocol").kind \notin Answers
  BY WireTypes DEF Failed, Ended, Outcome, Answers
<1>4. CASE Own(t, m)
  <2> DEFINE r == Recv(call[t].method, m)
  <2>1. m.id = call[t].id
    BY <1>2, <1>4, OwnMessage DEF Own
  <2>2. PICK name \in Methods :
          /\ call[t].method = name
          /\ \/ misnamed /\ Misdirected(name, m)
             \/ /\ served[m.id] # None /\ ~Misdirected(name, m)
                /\ \E o \in Outcome : /\ served[m.id].outcome = o
                                      /\ Recv(name, m) = Committed(o)
    BY <1>1, <1>2, <2>1 DEF AnswerOk, RpcInv, CallsInv
  <2>3. Leave(t, r.outcome, r.commit) /\ pending' = None
        /\ (Concurrent \/ ~Misdirected(name, m))
    BY <1>4, <2>2 DEF Own
  <2>4. /\ r.outcome \in Outcome /\ r.commit \in BOOLEAN
        /\ r.outcome.kind \in Answers =>
             served[call[t].id] # None /\ r.outcome = served[call[t].id].outcome
        /\ ~r.commit => misnamed
    <3>1. CASE misnamed /\ Misdirected(name, m)
      <4>1. r = Uncommitted("protocol")
        BY <2>2, <3>1 DEF Recv, RecvPing, RecvQuery, RecvDisable, RecvEnable, RecvVoid,
           Misdirected, Methods
      <4> QED
        BY <1>3, <3>1, <4>1 DEF Uncommitted
    <3>2. CASE served[m.id] # None /\ ~Misdirected(name, m)
      <4>1. PICK o \in Outcome :
              served[m.id].outcome = o /\ Recv(name, m) = Committed(o)
        BY <2>2, <3>2
      <4>2. r = Committed(o)
        BY <2>2, <4>1
      <4>3. r.outcome = o /\ r.commit = TRUE
        BY <4>2 DEF Committed
      <4> HIDE DEF r
      <4> QED
        BY <2>1, <3>2, <4>1, <4>3
    <3> QED
      BY <2>2, <3>1, <3>2
  <2>5. Unread' \subseteq Unread /\ \A n \in Mail' : n.id # call[t].id
    <3>1. Unread' = Elements(toClient)' /\ Elements(toServer)' = Elements(toServer)
      BY <2>3 DEF Unread, Leave, Elements
    <3> QED
      BY <1>1, <2>1, <3>1 DEF Unread, Mail
  <2> HIDE DEF r
  <2> QED
    BY <1>2, <2>3, <2>4, <2>5, LeaveKeeps
<1>5. ASSUME pending' = m
      PROVE  /\ Unread' \subseteq Unread /\ pending' \in Messages \cup {None}
             /\ (pending # None => \A n \in Elements(toClient) : n.id # pending.id)'
  BY <1>1, <1>5 DEF Unread
<1>6. CASE AnotherThreads(t, m)
  <2>1. /\ Concurrent /\ ~stop /\ pending' = m /\ wakeupSomeone' = FALSE
        /\ Quiet /\ UNCHANGED <<got, monitors, stop>>
    BY <1>6 DEF AnotherThreads, HandOver, Mine, Quiet
  <2>2. /\ pc' \in [Threads -> PcStates] /\ pc'[t] = "waiting"
        /\ \A u \in Threads : u # t =>
             pc'[u] = pc[u] \/ (pc[u] = "waiting" /\ pc'[u] = "woken")
    BY <1>6 DEF AnotherThreads, HandOver, RpcInv, ThreadsOk, PcStates
  <2>3. \A u \in Threads :
           /\ pc'[u] # "idle" => /\ pc[u] # "idle"
                                 /\ Concurrent => seqid[u] \in monitors'
           /\ pc'[u] = "sending" => pc[u] = "sending"
    BY <1>2, <2>1, <2>2 DEF RpcInv, CallsInv
  <2>4. \A n \in Mail' : Awaited(n)'
    <3>1. ASSUME NEW n \in Mail' PROVE n \in Mail
      BY <1>5, <2>1, <3>1 DEF Mail, Quiet, Elements
    <3>2. ASSUME NEW n \in Mail PROVE Awaited(n)'
      <4>1. PICK u \in Threads : call[u].id = n.id /\ pc[u] \in Awaiting
        BY <2>1, <3>2 DEF RpcInv, MailInv, Awaited
      <4>2. pc'[u] \in Awaiting
        BY <4>1, <2>2 DEF Awaiting
      <4> QED
        BY <4>1, <4>2, <2>1 DEF Awaited, Quiet
    <3> QED
      BY <3>1, <3>2
  <2>5. Told' /\ DeadForCause'
    BY <2>1 DEF Told, DeadForCause, RpcInv, Quiet, history
  <2>6. got' \in [Threads -> Outcome] /\ monitors' \subseteq SeqIds
        /\ stop' \in BOOLEAN /\ wakeupSomeone' \in BOOLEAN
    BY <2>1 DEF RpcInv, ThreadsOk
  <2>7. pc' \in [Threads -> {"idle", "sending", "sent", "reading", "waiting",
                             "woken", "lost"}]
    BY <2>2 DEF PcStates
  <2> QED
    BY <1>5, <2>1, <2>3, <2>4, <2>5, <2>6, <2>7, ThreadFrame
<1>7. CASE Nobodys(t, m)
  <2>1. Concurrent /\ pending' = m /\ (m.seqid \notin monitors \/ stop)
    BY <1>7 DEF Nobodys, Mine
  <2>2. stop
    <3>1. ASSUME ~stop PROVE FALSE
      <4>1. PICK u \in Threads : call[u].id = m.id /\ pc[u] \in Awaiting
        BY <1>1, <3>1 DEF Awaited
      <4>2. seqid[u] = number[m.id] /\ seqid[u] \in monitors
        BY <2>1, <4>1 DEF Awaiting, RpcInv, CallsInv
      <4>3. m.seqid = number[m.id]
        BY <1>1, <2>1 DEF AnswerOk, Numbered
      <4> QED
        BY <2>1, <3>1, <4>2, <4>3
    <3> QED
      BY <3>1
  <2>3. PICK o \in {Failed("transport"), Failed("protocol")} : Leave(t, o, FALSE)
    BY <1>7 DEF Nobodys
  <2>4. stop'
    BY <2>2, <2>3 DEF Leave
  <2>5. o \in Outcome /\ o.kind \notin Answers
    BY <1>3
  <2> QED
    BY <1>2, <1>5, <2>1, <2>2, <2>3, <2>4, <2>5, LeaveKeeps
<1>8. CASE ReadsOn(t, m)
  <2>1. /\ ~Concurrent /\ Quiet /\ UNCHANGED <<got, monitors, stop, wakeupSomeone, pending>>
        /\ pc' = [pc EXCEPT ![t] = "lost"]
    BY <1>8 DEF ReadsOn, Quiet, sync
  <2>2. pending' = None /\ ~stop' /\ m.id = call[t].id
    BY <1>2, <2>1, OwnMessage DEF RpcInv, CallsInv, Mine
  <2>3. /\ Unread' \subseteq Unread /\ Mail' \subseteq Mail
        /\ \A n \in Mail' : n.id # call[t].id
    BY <1>1, <2>1, <2>2 DEF Mail, Unread, Quiet, Elements
  <2>4. \A n \in Mail' : Awaited(n)'
    <3>1. ASSUME NEW n \in Mail, n.id # call[t].id PROVE Awaited(n)'
      <4>1. PICK u \in Threads : call[u].id = n.id /\ pc[u] \in Awaiting
        BY <2>1, <2>2, <3>1 DEF RpcInv, MailInv, Awaited
      <4>2. pc'[u] \in Awaiting
        BY <2>1, <3>1, <4>1 DEF RpcInv, ThreadsOk
      <4> QED
        BY <4>1, <4>2, <2>1 DEF Awaited, Quiet
    <3> QED
      BY <2>3, <3>1
  <2>5. Told' /\ DeadForCause'
    BY <2>1 DEF Told, DeadForCause, RpcInv, Quiet, history
  <2>6. /\ got' \in [Threads -> Outcome] /\ monitors' \subseteq SeqIds
        /\ stop' \in BOOLEAN /\ wakeupSomeone' \in BOOLEAN
        /\ pc' \in [Threads -> {"idle", "sending", "sent", "reading", "waiting",
                                "woken", "lost"}]
    BY <2>1 DEF RpcInv, ThreadsOk
  <2>7. \A u \in Threads :
           /\ pc'[u] # "idle" => /\ pc[u] # "idle"
                                 /\ Concurrent => seqid[u] \in monitors'
           /\ pc'[u] = "sending" => pc[u] = "sending"
    BY <1>2, <2>1 DEF RpcInv, ThreadsOk
  <2> QED
    BY <2>1, <2>2, <2>3, <2>4, <2>5, <2>6, <2>7, ThreadFrame
<1> QED
  BY <1>4, <1>6, <1>7, <1>8 DEF Examine

-----------------------------------------------------------------------------
(***************************************************************************)
(* The other steps of a thread that has sent its call, or could not.       *)
(***************************************************************************)
LEMMA TakeKeeps ==
  ASSUME RpcInv, NEW t \in Threads, TakePending(t) \/ ReadAnswer(t)
  PROVE  RpcInv'
<1>1. pc[t] \in Awaiting
  BY DEF TakePending, ReadAnswer, MayWork, Awaiting
<1>2. CASE TakePending(t)
  <2>1. pending \in Unread /\ Examine(t, pending) /\ toClient' = toClient
    BY <1>2 DEF TakePending, Unread
  <2>2. /\ toClient' \in Seq(Messages) /\ Distinct(toClient)'
        /\ Elements(toClient)' \subseteq Elements(toClient)
        /\ \A n \in Elements(toClient)' : n.id # pending.id
    BY <1>2, <2>1 DEF RpcInv, MailInv, Alone, Elements, Distinct, TakePending
  <2> QED
    BY <1>1, <2>1, <2>2, ExamineKeeps
<1>3. CASE ReadAnswer(t)
  <2>1. /\ toClient \in Seq(Messages) /\ toClient # <<>> /\ Distinct(toClient)
        /\ toClient' = Tail(toClient) /\ Examine(t, Head(toClient))
    BY <1>3 DEF ReadAnswer, RpcInv, MailInv, Alone
  <2>2. /\ Tail(toClient) \in Seq(Messages) /\ Distinct(Tail(toClient))
        /\ Head(toClient) \in Elements(toClient)
        /\ Elements(Tail(toClient)) \subseteq Elements(toClient)
        /\ \A n \in Elements(Tail(toClient)) : n.id # Head(toClient).id
    BY <2>1, TakeMessage
  <2>3. Elements(toClient)' = Elements(Tail(toClient))
    BY <2>1 DEF Elements
  <2>4. Distinct(toClient)'
    BY <2>1, <2>2 DEF Distinct
  <2>5. Head(toClient) \in Unread
    BY <2>2 DEF Unread
  <2> QED
    BY <1>1, <2>1, <2>2, <2>3, <2>4, <2>5, ExamineKeeps
<1> QED
  BY <1>2, <1>3

(***************************************************************************)
(* A thread finds the client dead, or the connection at its end.           *)
(***************************************************************************)
LEMMA DepartKeeps ==
  ASSUME RpcInv, NEW t \in Threads, ClientDied(t) \/ ReadEnd(t)
  PROVE  RpcInv'
<1>1. /\ Leave(t, Failed("transport"), FALSE) /\ UNCHANGED <<toClient, pending>>
      /\ pc[t] # "idle"
  BY DEF ClientDied, ReadEnd
<1>2. Failed("transport") \in Outcome /\ Failed("transport").kind \notin Answers
  BY WireTypes DEF Failed, Ended, Outcome, Answers
<1>3. /\ Unread' = Unread /\ Mail' = Mail
      /\ toClient' \in Seq(Messages) /\ Distinct(toClient)'
      /\ pending' \in Messages \cup {None}
      /\ (pending # None => \A n \in Elements(toClient) : n.id # pending.id)'
      /\ ~Concurrent => pending' = None
  BY <1>1 DEF Leave, Unread, Mail, Elements, Distinct, RpcInv, MailInv, Alone, CallsInv
<1>4. ~open \/ misnamed \/ stop
  BY DEF ClientDied, ReadEnd
<1>5. stop' \/ \A m \in Mail' : m.id # call[t].id
  <2>1. CASE Concurrent
    BY <1>1, <2>1 DEF Leave
  <2>2. CASE ~Concurrent
    <3>1. ~stop /\ pending = None
      BY <2>2 DEF RpcInv, CallsInv
    <3>2. toClient = <<>> /\ toServer = <<>>
      BY <3>1 DEF ClientDied, ReadEnd, RpcInv, MailInv
    <3>3. Mail = {}
      BY <3>1, <3>2, NoMessages DEF Mail, Unread
    <3> QED
      BY <1>3, <3>3
  <2> QED
    BY <2>1, <2>2
<1> QED
  BY <1>1, <1>2, <1>3, <1>4, <1>5, LeaveKeeps

(***************************************************************************)
(* A thread goes to read, or waits again.                                  *)
(***************************************************************************)
LEMMA WaitKeeps ==
  ASSUME RpcInv, NEW t \in Threads, Enter(t) \/ WaitAgain(t)
  PROVE  RpcInv'
<1>1. /\ Quiet /\ UNCHANGED <<got, monitors, stop, toClient, pending>>
      /\ wakeupSomeone' \in BOOLEAN
      /\ pc[t] \in Awaiting
      /\ \E w \in {"reading", "waiting"} : pc' = [pc EXCEPT ![t] = w]
  BY DEF Enter, WaitAgain, MayWork, Awaiting, Quiet, wires, sync, history, RpcInv,
     ThreadsOk
<1>2. PICK w \in {"reading", "waiting"} : pc' = [pc EXCEPT ![t] = w]
  BY <1>1
<1>3. /\ Unread' = Unread /\ Mail' = Mail
      /\ toClient' \in Seq(Messages) /\ Distinct(toClient)'
      /\ pending' \in Messages \cup {None}
      /\ (pending # None => \A n \in Elements(toClient) : n.id # pending.id)'
      /\ ~Concurrent => ~stop' /\ pending' = None
  BY <1>1 DEF Quiet, Unread, Mail, Elements, Distinct, RpcInv, MailInv, Alone, CallsInv
<1>4. pc \in [Threads -> PcStates] /\ w \in Awaiting /\ w \in PcStates
  BY DEF RpcInv, ThreadsOk, PcStates, Awaiting
<1>5. \A u \in Threads :
        /\ pc'[u] # "idle" => /\ pc[u] # "idle"
                              /\ Concurrent => seqid[u] \in monitors'
        /\ pc'[u] = "sending" => pc[u] = "sending"
        /\ pc[u] \in Awaiting => pc'[u] \in Awaiting
  BY <1>1, <1>2, <1>4 DEF Awaiting, RpcInv, CallsInv
<1>6. \A m \in Mail' : Awaited(m)'
  <2>1. \A m \in Mail : Awaited(m)
    BY DEF RpcInv, MailInv
  <2> QED
    BY <1>1, <1>3, <1>5, <2>1 DEF Awaited, Quiet
<1>7. Told' /\ DeadForCause'
  BY <1>1 DEF Told, DeadForCause, RpcInv, Quiet, history
<1>8. /\ got' \in [Threads -> Outcome] /\ monitors' \subseteq SeqIds /\ stop' \in BOOLEAN
      /\ pc' \in [Threads -> {"idle", "sending", "sent", "reading", "waiting",
                              "woken", "lost"}]
  BY <1>1, <1>2, <1>4 DEF PcStates, RpcInv, ThreadsOk
<1> QED
  BY <1>1, <1>3, <1>5, <1>6, <1>7, <1>8, ThreadFrame

(***************************************************************************)
(* A thread cannot send.                                                   *)
(***************************************************************************)
LEMMA SendFailsKeeps ==
  ASSUME RpcInv, NEW t \in Threads, SendFails(t)
  PROVE  RpcInv'
<1> DEFINE p == [pc EXCEPT ![t] = "idle"]
<1>1. /\ Quiet /\ UNCHANGED <<monitors, toClient, pending>>
      /\ wakeupSomeone' = Concurrent /\ stop' = Concurrent
      /\ got' = [got EXCEPT ![t] = Failed("transport")]
      /\ pc[t] = "sending" /\ ~open /\ pc' = WakeAll(p)
  BY DEF SendFails, Quiet, wires, history
<1>2. p \in [Threads -> PcStates] /\ p[t] = "idle"
      /\ \A u \in Threads : u # t => p[u] = pc[u]
  BY DEF RpcInv, ThreadsOk, PcStates
<1>3. Wakes(p, pc')
  BY <1>1, <1>2, Wakings
<1> HIDE DEF p
<1>4. \A u \in Threads :
        /\ pc'[u] # "idle" => /\ pc[u] # "idle"
                              /\ Concurrent => seqid[u] \in monitors'
        /\ pc'[u] = "sending" => pc[u] = "sending"
        /\ pc[u] \in Awaiting => pc'[u] \in Awaiting
  BY <1>1, <1>2, <1>3 DEF Wakes, Awaiting, RpcInv, CallsInv
<1>5. /\ Unread' = Unread /\ Mail' = Mail
      /\ toClient' \in Seq(Messages) /\ Distinct(toClient)'
      /\ pending' \in Messages \cup {None}
      /\ (pending # None => \A n \in Elements(toClient) : n.id # pending.id)'
      /\ ~Concurrent => ~stop' /\ pending' = None
  BY <1>1 DEF Quiet, Unread, Mail, Elements, Distinct, RpcInv, MailInv, Alone, CallsInv
<1>6. \A m \in Mail' : Awaited(m)'
  <2>1. ASSUME NEW m \in Mail PROVE Awaited(m)'
    <3>1. CASE Concurrent
      BY <1>1, <3>1 DEF Awaited
    <3>2. CASE ~Concurrent
      <4>1. PICK u \in Threads : call[u].id = m.id /\ pc[u] \in Awaiting
        BY <2>1, <3>2 DEF Awaited, RpcInv, MailInv, CallsInv
      <4> QED
        BY <1>1, <1>4, <4>1 DEF Awaited, Quiet
    <3> QED
      BY <3>1, <3>2
  <2> QED
    BY <1>5, <2>1
<1>7. Failed("transport") \in Outcome /\ Failed("transport").kind \notin Answers
  BY WireTypes DEF Failed, Ended, Outcome, Answers
<1>8. got' \in [Threads -> Outcome] /\ got'[t] = Failed("transport")
      /\ \A u \in Threads : u # t => got'[u] = got[u]
  BY <1>1, <1>7 DEF RpcInv, ThreadsOk
<1>9. Told'
  BY <1>1, <1>7, <1>8 DEF Told, RpcInv, Quiet, history
<1>10. DeadForCause'
  BY <1>1 DEF DeadForCause, Quiet
<1>11. /\ monitors' \subseteq SeqIds /\ stop' \in BOOLEAN /\ wakeupSomeone' \in BOOLEAN
       /\ pc' \in [Threads -> {"idle", "sending", "sent", "reading", "waiting",
                               "woken", "lost"}]
  BY <1>1, <1>3 DEF Wakes, PcStates, RpcInv, ThreadsOk, Concurrent
<1> QED
  BY <1>1, <1>4, <1>5, <1>6, <1>8, <1>9, <1>10, <1>11, ThreadFrame

(***************************************************************************)
(* A call of a dead client.                                                *)
(***************************************************************************)
LEMMA DeadCallKeeps ==
  ASSUME RpcInv, NEW t \in Threads, DeadCall(t)
  PROVE  RpcInv'
<1>1. /\ Quiet /\ UNCHANGED <<pc, monitors, toClient, pending, stop, wakeupSomeone>>
      /\ got' = [got EXCEPT ![t] = Failed("transport")]
  BY DEF DeadCall, Quiet, wires, sync, history
<1>2. /\ Unread' = Unread /\ Mail' = Mail
      /\ toClient' \in Seq(Messages) /\ Distinct(toClient)'
      /\ pending' \in Messages \cup {None}
      /\ (pending # None => \A n \in Elements(toClient) : n.id # pending.id)'
      /\ ~Concurrent => ~stop' /\ pending' = None
  BY <1>1 DEF Quiet, Unread, Mail, Elements, Distinct, RpcInv, MailInv, Alone, CallsInv
<1>3. \A m \in Mail' : Awaited(m)'
  <2>1. \A m \in Mail : Awaited(m)
    BY DEF RpcInv, MailInv
  <2> QED
    BY <1>1, <1>2, <2>1 DEF Awaited, Quiet
<1>4. Failed("transport") \in Outcome /\ Failed("transport").kind \notin Answers
  BY WireTypes DEF Failed, Ended, Outcome, Answers
<1>5. got' \in [Threads -> Outcome] /\ got'[t] = Failed("transport")
      /\ \A u \in Threads : u # t => got'[u] = got[u]
  BY <1>1, <1>4 DEF RpcInv, ThreadsOk
<1>6. Told'
  BY <1>1, <1>4, <1>5 DEF Told, RpcInv, Quiet, history
<1>7. DeadForCause'
  BY <1>1 DEF DeadForCause, RpcInv, Quiet, history
<1>8. \A u \in Threads :
        /\ pc'[u] # "idle" => /\ pc[u] # "idle"
                              /\ Concurrent => seqid[u] \in monitors'
        /\ pc'[u] = "sending" => pc[u] = "sending"
  BY <1>1 DEF RpcInv, CallsInv
<1>9. /\ monitors' \subseteq SeqIds /\ stop' \in BOOLEAN /\ wakeupSomeone' \in BOOLEAN
      /\ pc' \in [Threads -> {"idle", "sending", "sent", "reading", "waiting",
                              "woken", "lost"}]
  BY <1>1 DEF RpcInv, ThreadsOk
<1> QED
  BY <1>1, <1>2, <1>3, <1>5, <1>6, <1>7, <1>8, <1>9, ThreadFrame

-----------------------------------------------------------------------------
(***************************************************************************)
(* A call is made, and sent.                                               *)
(***************************************************************************)
LEMMA SendKeeps ==
  ASSUME RpcInv, NEW t \in Threads, Send(t)
  PROVE  RpcInv'
<1>0. PICK m : m = Message(call[t].method, "call", seqid[t],
                           OnWire(program, ArgsFields(call[t])), call[t].id)
  OBVIOUS
<1>1. /\ UNCHANGED <<program, open, toClient, calls, call, seqid, got, sync, history>>
      /\ pc[t] = "sending" /\ pc' = [pc EXCEPT ![t] = "sent"]
      /\ toServer' = IF open THEN Append(toServer, m) ELSE toServer
  BY <1>0 DEF Send
<1>2. /\ m.name = call[t].method /\ m.type = "call" /\ m.seqid = seqid[t]
      /\ m.id = call[t].id /\ m.fields = OnWire(program, ArgsFields(call[t]))
  BY <1>0 DEF Message
<1>3. /\ call[t].id # 0 /\ Asks(call[t]) /\ call[t].id <= calls
      /\ Concurrent => seqid[t] = number[call[t].id]
      /\ call[t].method \in Methods /\ call[t].id \in CallIds /\ seqid[t] \in SeqIds
  BY <1>1, SeqAssumption DEF RpcInv, ThreadsOk, CallsInv, CallIds
<1>4. m \in Messages
  <2>1. ArgsFields(call[t]) \in OwnFields
    BY <1>3 DEF ArgsFields, OwnFields, Asks, Methods, PingFields, DisableFields,
       EnableFields
  <2>2. OnWire(program, ArgsFields(call[t])) \in AllFields
    BY <2>1, FieldsWithNewer DEF RpcInv, ThreadsOk
  <2> QED
    BY <1>0, <1>3, <2>2 DEF Messages, Message
<1>5. m.name = "query" => m.fields = OnWire(program, WriteQueryArgs(call[t].query))
  BY <1>2 DEF ArgsFields
<1>6. /\ served[m.id] = None
      /\ \A n \in Mail : n.id # m.id
  BY <1>1, <1>2 DEF RpcInv, ServedInv
<1>7. CallOk(m)'
  BY <1>1, <1>2, <1>3, <1>5, <1>6 DEF CallOk, Numbered, Concurrent, sync, history
<1>8. pc \in [Threads -> PcStates] /\ pc'[t] = "sent"
      /\ \A u \in Threads : u # t => pc'[u] = pc[u]
  BY <1>1 DEF RpcInv, ThreadsOk, PcStates
<1>9. /\ toServer' \in Seq(Messages) /\ Distinct(toServer)'
      /\ Elements(toServer) \subseteq Elements(toServer)'
      /\ Elements(toServer)' \subseteq Elements(toServer) \cup {m}
      /\ ~open' => toServer' = <<>>
  <2>1. toServer \in Seq(Messages) /\ Distinct(toServer)
        /\ \A n \in Elements(toServer) : n.id # m.id
    BY <1>6 DEF RpcInv, MailInv, Alone, Mail
  <2>2. CASE open
    <3>1. toServer' = Append(toServer, m) /\ open'
      BY <1>1, <2>2
    <3> QED
      BY <1>4, <2>1, <3>1, AppendMessage DEF Distinct, Elements
  <2>3. CASE ~open
    BY <1>1, <2>1, <2>3 DEF Distinct, Elements, RpcInv, MailInv
  <2> QED
    BY <2>2, <2>3
<1>10. Unread' = Unread /\ Mail' \subseteq Mail \cup {m}
  BY <1>1, <1>9 DEF Unread, Mail, Elements, sync
<1>11. \A n \in Mail' : Awaited(n)'
  <2>1. \A n \in Mail : Awaited(n)
    BY DEF RpcInv, MailInv
  <2>2. ASSUME NEW n, Awaited(n) PROVE Awaited(n)'
    BY <1>1, <1>8, <2>2 DEF Awaited, Awaiting, sync
  <2>3. Awaited(m)'
    BY <1>1, <1>2, <1>8 DEF Awaited, Awaiting
  <2> QED
    BY <1>10, <2>1, <2>2, <2>3
<1>12. ThreadsOk' /\ CallsInv'
  <2>1. ThreadsOk'
    BY <1>1 DEF RpcInv, ThreadsOk, sync, history
  <2>2. CallsInv'
    BY <1>1, <1>8 DEF RpcInv, CallsInv, Concurrent, sync
  <2> QED
    BY <2>1, <2>2
<1>13. MailInv'
  <2>1. /\ \A n : CallOk(n) => CallOk(n)'
        /\ \A n : AnswerOk(n) => AnswerOk(n)'
    BY <1>1, MeaningKept DEF history
  <2>2. \A n \in Elements(toServer)' : CallOk(n)'
    BY <1>7, <1>9, <2>1 DEF RpcInv, MailInv
  <2>3. \A n \in Unread' : AnswerOk(n)'
    BY <1>10, <2>1 DEF RpcInv, MailInv
  <2>4. toClient' \in Seq(Messages) /\ pending' \in Messages \cup {None}
    BY <1>1 DEF RpcInv, MailInv, sync
  <2> QED
    BY <1>9, <1>11, <2>2, <2>3, <2>4 DEF MailInv
<1>14. Alone'
  <2>1. \A n \in Elements(toServer)' : \A o \in Unread' : n.id # o.id
    BY <1>6, <1>9, <1>10 DEF RpcInv, Alone, Mail
  <2>2. Distinct(toClient)'
        /\ (pending # None => \A n \in Elements(toClient) : n.id # pending.id)'
    BY <1>1 DEF RpcInv, Alone, Distinct, Elements, sync
  <2> QED
    BY <1>9, <2>1, <2>2 DEF Alone
<1>15. ServedInv'
  <2>1. ASSUME NEW u \in Threads, pc'[u] = "sending"
        PROVE  served[call[u].id] = None /\ \A n \in Mail' : n.id # call[u].id
    <3>1. u # t /\ pc[u] = "sending" /\ call[u].id # m.id
      BY <1>1, <1>2, <1>3, <1>8, <2>1 DEF RpcInv, CallsInv
    <3> QED
      BY <1>10, <3>1 DEF RpcInv, ServedInv
  <2> QED
    BY <1>1, <2>1 DEF RpcInv, ServedInv, history
<1>16. Told' /\ AskedAsMeant' /\ DeadForCause'
  BY <1>1 DEF Told, AskedAsMeant, DeadForCause, RpcInv, sync, history
<1> QED
  BY <1>12, <1>13, <1>14, <1>15, <1>16 DEF RpcInv

(***************************************************************************)
(* A call gets its number: the next one, not in flight.                    *)
(***************************************************************************)
LEMMA BeginKeeps ==
  ASSUME RpcInv, NEW t \in Threads, NEW method \in Methods, NEW q, NEW seq,
         Begin(t, method, q, seq),
         IF method = "query" THEN q \in Requests ELSE q = EmptyQuery,
         \/ ~Concurrent /\ seq = 0 /\ UNCHANGED <<nextseqid, monitors>>
         \/ /\ Concurrent /\ ~stop /\ seq = nextseqid
            /\ nextseqid' = NextSeq(nextseqid)
            /\ monitors' = monitors \cup {nextseqid}
  PROVE  RpcInv'
<1> DEFINE i == calls + 1
           c == [id |-> i, method |-> method, query |-> q]
<1>1. /\ t \in program.threads /\ pc[t] = "idle" /\ calls < program.calls
      /\ calls' = i /\ pc' = [pc EXCEPT ![t] = "sending"]
      /\ call' = [call EXCEPT ![t] = c] /\ seqid' = [seqid EXCEPT ![t] = seq]
      /\ got' = [got EXCEPT ![t] = Failed("none")]
      /\ UNCHANGED <<program, open, toServer, toClient, stop, wakeupSomeone,
                     pending, served, misnamed>>
  BY DEF Begin, wires, history
<1>2. c.id = i /\ c.method = method /\ c.query = q /\ Asks(c)
  BY DEF Asks
<1>3. calls \in 0..MaxCalls /\ i \in 1..MaxCalls /\ i <= program.calls
  <2>1. IsProgram(program)
    BY RpcAssumption DEF RpcInv, ThreadsOk
  <2>2. program.calls \in 0..MaxCalls /\ calls \in 0..MaxCalls
    BY <2>1 DEF IsProgram, RpcInv, ThreadsOk
  <2> QED
    BY <1>1, <2>2, SeqAssumption
<1>4. q \in Query
  BY RpcAssumption, WireTypes
<1>5. ~stop
  BY DEF RpcInv, CallsInv
<1>6. seq \in SeqIds /\ (Concurrent => seq = number[i])
  BY SeqAssumption DEF RpcInv, ThreadsOk, CallsInv
<1>7. c \in [id : 0..MaxCalls, method : Methods, query : Query]
  BY <1>3, <1>4, SeqAssumption
<1> HIDE DEF i, c
<1>8. /\ pc'[t] = "sending" /\ call'[t] = c /\ seqid'[t] = seq
      /\ got'[t] = Failed("none")
      /\ \A u \in Threads : u # t => /\ pc'[u] = pc[u] /\ call'[u] = call[u]
                                     /\ seqid'[u] = seqid[u] /\ got'[u] = got[u]
  BY <1>1 DEF RpcInv, ThreadsOk
<1>9. \A u \in Threads : call[u].id <= calls /\ call[u].id # i
  BY <1>3 DEF RpcInv, CallsInv, ThreadsOk, i
<1>10. Unread' = Unread /\ Mail' = Mail /\ Elements(toServer)' = Elements(toServer)
  BY <1>1 DEF Unread, Mail, Elements
<1>11. ASSUME NEW n \in Mail
       PROVE  \E u \in Threads : /\ u # t /\ call[u].id = n.id /\ pc[u] \in Awaiting
                                 /\ \A w \in Threads : call[w].id = n.id => w = u
  <2>1. PICK u \in Threads : call[u].id = n.id /\ pc[u] \in Awaiting
    BY <1>5 DEF RpcInv, MailInv, Awaited
  <2>2. call[u].id # 0
    BY <2>1 DEF RpcInv, CallsInv, Awaiting
  <2> QED
    BY <1>1, <2>1, <2>2 DEF Awaiting, RpcInv, CallsInv
<1>12. ThreadsOk'
  <2>1. call' \in [Threads -> [id : 0..MaxCalls, method : Methods, query : Query]]
    BY <1>1, <1>7 DEF RpcInv, ThreadsOk
  <2>2. Failed("none") \in Outcome
    BY WireTypes DEF Failed, Ended, Outcome
  <2>3. /\ pc' \in [Threads -> {"idle", "sending", "sent", "reading", "waiting",
                                "woken", "lost"}]
        /\ seqid' \in [Threads -> SeqIds] /\ got' \in [Threads -> Outcome]
    BY <1>1, <1>6, <2>2 DEF RpcInv, ThreadsOk
  <2>4. nextseqid' \in SeqIds /\ monitors' \subseteq SeqIds
    <3>1. nextseqid \in SeqIds /\ monitors \subseteq SeqIds
      BY DEF RpcInv, ThreadsOk
    <3>2. NextSeq(nextseqid) \in SeqIds
      BY <3>1, SeqAssumption DEF NextSeq, SeqIds
    <3> QED
      BY <3>1, <3>2
  <2>5. calls' \in 0..MaxCalls /\ calls' <= program'.calls
    BY <1>1, <1>3
  <2> QED
    BY <1>1, <2>1, <2>3, <2>4, <2>5 DEF RpcInv, ThreadsOk
<1>13. CallsInv'
  <2>1. ASSUME NEW u \in Threads
        PROVE  /\ call'[u].id <= calls'
               /\ call'[u].id # 0 =>
                    /\ Asks(call'[u])
                    /\ Concurrent => seqid'[u] = number[call'[u].id]
               /\ pc'[u] # "idle" => /\ u \in program.threads /\ call'[u].id # 0
                                     /\ Concurrent => seqid'[u] \in monitors'
    <3>1. CASE u = t
      <4>1. Concurrent => seq \in monitors'
        OBVIOUS
      <4>2. call'[u] = c /\ seqid'[u] = seq /\ i # 0 /\ i <= i
        BY <1>3, <1>8, <3>1
      <4> QED
        BY <1>1, <1>2, <1>6, <3>1, <4>1, <4>2
    <3>2. CASE u # t
      <4>1. call'[u] = call[u] /\ seqid'[u] = seqid[u] /\ pc'[u] = pc[u]
        BY <1>8, <3>2
      <4>2. monitors \subseteq monitors'
        OBVIOUS
      <4>3. call[u].id <= calls'
        <5>1. call[u].id \in Int
          BY DEF RpcInv, ThreadsOk
        <5> QED
          BY <1>1, <1>3, <1>9, <5>1 DEF i
      <4> QED
        BY <4>1, <4>2, <4>3 DEF RpcInv, CallsInv
    <3> QED
      BY <3>1, <3>2
  <2>2. \A u, w \in Threads : call'[u].id = call'[w].id /\ call'[u].id # 0 => u = w
    <3>1. \A u \in Threads : u # t => call'[u].id # call'[t].id
      BY <1>2, <1>8, <1>9
    <3>2. \A u, w \in Threads :
            u # t /\ w # t /\ call'[u].id = call'[w].id /\ call'[u].id # 0 => u = w
      BY <1>8 DEF RpcInv, CallsInv
    <3> QED
      BY <3>1, <3>2
  <2>3. Concurrent => nextseqid' = number[calls' + 1]
    <3>1. NextSeq(number[i]) = number[i + 1]
      BY <1>3, Numbers
    <3> QED
      BY <1>1, <1>6, <3>1
  <2>4. ~Concurrent => ~stop' /\ pending' = None
    BY <1>1 DEF RpcInv, CallsInv
  <2>5. \A u \in Threads :
          /\ (call[u].id <= calls)'
          /\ (call[u].id # 0 => /\ Asks(call[u])
                                /\ Concurrent => seqid[u] = number[call[u].id])'
          /\ (pc[u] # "idle" => /\ u \in program.threads /\ call[u].id # 0
                                /\ Concurrent => seqid[u] \in monitors)'
    <3>1. SUFFICES ASSUME NEW u \in Threads
                   PROVE  /\ (call[u].id <= calls)'
                          /\ (call[u].id # 0 => Asks(call[u]))'
                          /\ (call[u].id # 0 /\ Concurrent =>
                                seqid[u] = number[call[u].id])'
                          /\ (pc[u] # "idle" => u \in program.threads /\ call[u].id # 0)'
                          /\ (pc[u] # "idle" /\ Concurrent => seqid[u] \in monitors)'
      OBVIOUS
    <3>2. (call[u].id <= calls)'
      BY <2>1
    <3>3. (call[u].id # 0 => Asks(call[u]))'
      BY <2>1 DEF Asks
    <3>4. (call[u].id # 0 /\ Concurrent => seqid[u] = number[call[u].id])'
      BY <1>1, <2>1 DEF Concurrent
    <3>5. (pc[u] # "idle" => u \in program.threads /\ call[u].id # 0)'
      BY <1>1, <2>1
    <3>6. (pc[u] # "idle" /\ Concurrent => seqid[u] \in monitors)'
      BY <1>1, <2>1 DEF Concurrent
    <3> QED
      BY <3>2, <3>3, <3>4, <3>5, <3>6
  <2>6. /\ (Concurrent => nextseqid = number[calls + 1])'
        /\ (~Concurrent => ~stop /\ pending = None)'
    BY <1>1, <2>3, <2>4 DEF Concurrent
  <2> QED
    BY <2>2, <2>5, <2>6 DEF CallsInv
<1>14. ASSUME NEW n \in Mail
       PROVE  /\ Awaited(n)'
              /\ CallOk(n) => CallOk(n)'
              /\ AnswerOk(n) => AnswerOk(n)'
  <2>1. PICK u \in Threads : /\ u # t /\ call[u].id = n.id /\ pc[u] \in Awaiting
                             /\ \A w \in Threads : call[w].id = n.id => w = u
    BY <1>11, <1>14
  <2>2. call'[u] = call[u] /\ pc'[u] = pc[u]
    BY <1>8, <2>1
  <2>3. Awaited(n)'
    BY <2>1, <2>2 DEF Awaited
  <2>4. Numbered(n) => Numbered(n)'
    <3>1. n.id \in CallIds
      BY MailHasMessages DEF Messages
    <3> QED
      BY <1>1, <1>3, <3>1 DEF Numbered, Concurrent, CallIds, i
  <2>5. CallOk(n) => CallOk(n)'
    BY <1>1, <2>1, <2>2, <2>4 DEF CallOk
  <2>6. AnswerOk(n) => AnswerOk(n)'
    BY <1>1, <2>1, <2>2, <2>4 DEF AnswerOk
  <2> QED
    BY <2>3, <2>5, <2>6
<1>15. MailInv'
  <2>1. /\ \A n \in Elements(toServer)' : CallOk(n)'
        /\ \A n \in Unread' : AnswerOk(n)'
        /\ \A n \in Mail' : Awaited(n)'
    BY <1>10, <1>14 DEF RpcInv, MailInv, Mail
  <2> QED
    BY <1>1, <2>1 DEF RpcInv, MailInv
<1>16. Alone'
  BY <1>1, <1>10 DEF RpcInv, Alone, Distinct, Elements
<1>17. ServedInv'
  <2>1. \A k \in CallIds : k > calls' => served'[k] = None
    BY <1>1, <1>3 DEF RpcInv, ServedInv, CallIds, i
  <2>2. ASSUME NEW u \in Threads, pc'[u] = "sending"
        PROVE  served'[call'[u].id] = None /\ \A n \in Mail' : n.id # call'[u].id
    <3>1. CASE u = t
      <4>1. served[i] = None
        BY <1>3 DEF RpcInv, ServedInv, CallIds, i
      <4>2. \A n \in Mail : n.id # i
        BY <1>9, <1>11
      <4> QED
        BY <1>1, <1>2, <1>8, <1>10, <3>1, <4>1, <4>2
    <3>2. CASE u # t
      BY <1>1, <1>8, <1>10, <2>2, <3>2 DEF RpcInv, ServedInv
    <3> QED
      BY <3>1, <3>2
  <2> QED
    BY <1>1, <2>1, <2>2 DEF RpcInv, ServedInv
<1>18. served[i] = None
  BY <1>3 DEF RpcInv, ServedInv, CallIds, i
<1>19. Told'
  <2>1. Failed("none").kind \notin Answers
    BY DEF Failed, Ended, Answers
  <2> QED
    BY <1>1, <1>8, <2>1 DEF Told, RpcInv
<1>20. AskedAsMeant'
  BY <1>1, <1>2, <1>8, <1>18 DEF AskedAsMeant, RpcInv
<1>21. DeadForCause'
  BY <1>1 DEF DeadForCause, RpcInv
<1> QED
  BY <1>12, <1>13, <1>15, <1>16, <1>17, <1>19, <1>20, <1>21 DEF RpcInv

-----------------------------------------------------------------------------
(***************************************************************************)
(* The server answers the first call: with what it served, or misnamed.    *)
(***************************************************************************)
AnswersTruly(m, a) ==
  \E query \in Query, o \in Outcome :
    /\ Served(m, query, o) /\ UNCHANGED misnamed
    /\ ~Misdirected(m.name, a) /\ Recv(m.name, a) = Committed(o)
    /\ \A t \in Threads :
         call[t].id = m.id /\ o.kind # "app" => query = call[t].query

Misnames(m, a) ==
  misnamed' = TRUE /\ UNCHANGED served /\ Misdirected(m.name, a)

(***************************************************************************)
(* Either way the answer takes the place of the call.                      *)
(***************************************************************************)
LEMMA ReplyKeeps ==
  ASSUME RpcInv, toServer # <<>>, NEW m, m = Head(toServer),
         NEW name \in Methods, NEW type \in {"reply", "exception"},
         NEW fields \in OwnFields, ReplyTo(m, name, type, fields),
         NEW a, a = Message(name, type, m.seqid, OnWire(program, fields), m.id),
         AnswersTruly(m, a) \/ Misnames(m, a)
  PROVE  RpcInv'
<1> USE DEF AnswersTruly, Misnames
<1>1. /\ toServer \in Seq(Messages) /\ Distinct(toServer)
      /\ toClient \in Seq(Messages) /\ Distinct(toClient)
      /\ \A n \in Elements(toServer) : CallOk(n)
      /\ \A n \in Unread : AnswerOk(n)
      /\ \A n \in Mail : Awaited(n)
      /\ \A n \in Elements(toServer) : \A k \in Unread : n.id # k.id
  BY DEF RpcInv, MailInv, Alone
<1>2. /\ Tail(toServer) \in Seq(Messages) /\ Distinct(Tail(toServer))
      /\ m \in Elements(toServer)
      /\ Elements(Tail(toServer)) \subseteq Elements(toServer)
      /\ \A n \in Elements(Tail(toServer)) : n.id # m.id
  BY <1>1, TakeMessage
<1>3. m \in Messages /\ m \in Mail /\ m.id \in CallIds /\ m.name \in Methods
      /\ m.seqid \in SeqIds
  <2>1. m \in Mail
    BY <1>2 DEF Mail
  <2>2. m \in Messages
    BY <2>1, MailHasMessages
  <2> QED
    BY <2>1, <2>2 DEF Messages
<1>4. /\ a.name = name /\ a.type = type /\ a.seqid = m.seqid /\ a.id = m.id
  BY DEF Message
<1>5. a \in Messages
  <2>1. OnWire(program, fields) \in AllFields
    BY FieldsWithNewer DEF RpcInv, ThreadsOk
  <2> QED
    BY <1>3, <2>1 DEF Message, Messages
<1>6. /\ toServer' = Tail(toServer) /\ toClient' = Append(toClient, a)
      /\ UNCHANGED <<program, open, calls, pc, call, seqid, got, nextseqid, monitors,
                     stop, wakeupSomeone, pending>>
  BY DEF ReplyTo, threads, sync
<1>7. open
  BY DEF RpcInv, MailInv
<1>8. CallOk(m) /\ Awaited(m) /\ served[m.id] = None
      /\ \A n \in Unread : n.id # m.id
  BY <1>1, <1>2, <1>3 DEF CallOk
<1>9. PICK t \in Threads : call[t].id = m.id /\ call[t].method = m.name
  BY <1>8 DEF CallOk
<1>10. /\ Append(toClient, a) \in Seq(Messages)
       /\ Elements(Append(toClient, a)) = Elements(toClient) \cup {a}
       /\ Distinct(Append(toClient, a))
  BY <1>1, <1>4, <1>5, <1>8, AppendMessage DEF Unread
<1>11. /\ Elements(toServer)' \subseteq Elements(toServer)
       /\ \A n \in Elements(toServer)' : n.id # m.id
       /\ Elements(toClient)' = Elements(toClient) \cup {a}
       /\ Unread' = Unread \cup {a}
       /\ Distinct(toServer)' /\ Distinct(toClient)'
  <2>1. Elements(toServer)' = Elements(Tail(toServer))
        /\ Elements(toClient)' = Elements(Append(toClient, a))
    BY <1>6 DEF Elements
  <2>2. Distinct(toServer)' /\ Distinct(toClient)'
    BY <1>2, <1>6, <1>10 DEF Distinct
  <2>3. Unread' = Unread \cup {a}
    BY <1>6, <1>10, <2>1 DEF Unread
  <2> QED
    BY <1>2, <1>10, <2>1, <2>2, <2>3
<1>12. /\ \A k \in CallIds : k # m.id => served'[k] = served[k]
       /\ misnamed => misnamed'
       /\ served' \in [CallIds -> {None} \cup
                         [method : Methods, query : Query, outcome : Outcome]]
  <2>1. served \in [CallIds -> {None} \cup
                       [method : Methods, query : Query, outcome : Outcome]]
    BY DEF RpcInv, ServedInv
  <2>2. CASE UNCHANGED served /\ misnamed' = TRUE
    BY <2>1, <2>2
  <2>3. ASSUME NEW query \in Query, NEW o \in Outcome, Served(m, query, o),
               UNCHANGED misnamed
        PROVE  <1>12!1 /\ <1>12!2 /\ <1>12!3
    <3>1. [method |-> m.name, query |-> query, outcome |-> o]
            \in [method : Methods, query : Query, outcome : Outcome]
      BY <1>3
    <3> QED
      BY <1>3, <2>1, <2>3, <3>1 DEF Served
  <2> QED
    BY <2>2, <2>3
<1>13. AnswerOk(a)'
  <2>1. Numbered(a)'
    BY <1>4, <1>6, <1>8 DEF CallOk, Numbered, Concurrent
  <2>2. CASE \E query \in Query, o \in Outcome :
               /\ Served(m, query, o) /\ UNCHANGED misnamed
               /\ ~Misdirected(m.name, a) /\ Recv(m.name, a) = Committed(o)
    <3>1. PICK query \in Query, o \in Outcome :
                 Served(m, query, o) /\ ~Misdirected(m.name, a)
                 /\ Recv(m.name, a) = Committed(o)
      BY <2>2
    <3>2. served'[m.id] = [method |-> m.name, query |-> query, outcome |-> o]
      BY <1>3, <3>1 DEF Served, RpcInv, ServedInv
    <3>3. served'[m.id] # None
      BY <1>3, <3>1, <3>2, RpcAssumption
    <3>4. served'[a.id].outcome = o /\ served'[a.id] # None
      BY <1>4, <3>2, <3>3
    <3> QED
      BY <1>3, <1>4, <1>6, <1>9, <2>1, <3>1, <3>4 DEF AnswerOk
  <2>3. CASE misnamed' = TRUE /\ Misdirected(m.name, a)
    BY <1>3, <1>4, <1>6, <1>9, <2>1, <2>3 DEF AnswerOk
  <2> QED
    BY <2>2, <2>3
<1>14. ThreadsOk' /\ CallsInv'
  <2>1. misnamed' \in BOOLEAN
    BY DEF RpcInv, ThreadsOk
  <2> QED
    BY <1>6, <2>1 DEF RpcInv, ThreadsOk, CallsInv, Concurrent
<1>15. MailInv'
  <2>1. ASSUME NEW n \in Elements(toServer)' PROVE CallOk(n)'
    <3>1. CallOk(n) /\ n.id # m.id /\ n.id \in CallIds
      <4>1. n \in Mail
        BY <1>11, <2>1 DEF Mail
      <4> QED
        BY <1>1, <1>11, <2>1, <4>1, MailHasMessages DEF Messages
    <3> QED
      BY <1>6, <1>12, <3>1 DEF CallOk, Numbered, Concurrent
  <2>2. ASSUME NEW n \in Unread PROVE AnswerOk(n)'
    <3>1. AnswerOk(n) /\ n.id # m.id /\ n.id \in CallIds
      <4>1. n \in Mail
        BY <2>2 DEF Mail
      <4> QED
        BY <1>1, <1>8, <2>2, <4>1, MailHasMessages DEF Messages
    <3> QED
      BY <1>6, <1>12, <3>1 DEF AnswerOk, Numbered, Concurrent
  <2>3. ASSUME NEW n, Awaited(n) PROVE Awaited(n)'
    BY <1>6, <2>3 DEF Awaited
  <2>4. Awaited(a)
    BY <1>4, <1>8 DEF Awaited
  <2>5. \A n \in Mail' : Awaited(n)'
    BY <1>1, <1>11, <2>3, <2>4 DEF Mail
  <2>6. toServer' \in Seq(Messages) /\ toClient' \in Seq(Messages)
        /\ pending' \in Messages \cup {None} /\ open'
    BY <1>2, <1>6, <1>7, <1>10 DEF RpcInv, MailInv
  <2> QED
    BY <1>11, <1>13, <2>1, <2>2, <2>5, <2>6 DEF MailInv
<1>16. Alone'
  <2>1. \A n \in Elements(toServer)' : \A k \in Unread' : n.id # k.id
    BY <1>1, <1>4, <1>11
  <2>2. pending # None => pending \in Unread
    BY DEF Unread
  <2>3. (pending # None => \A n \in Elements(toClient) : n.id # pending.id)'
    BY <1>4, <1>6, <1>8, <1>11, <2>2 DEF RpcInv, Alone
  <2> QED
    BY <1>11, <2>1, <2>3 DEF Alone
<1>17. m.id <= calls /\ pc[t] # "sending"
  <2>1. m.id <= calls
    BY <1>8 DEF CallOk, Numbered
  <2> QED
    BY <1>3, <1>9, <2>1 DEF RpcInv, ServedInv
<1>18. ServedInv'
  <2>1. \A k \in CallIds : k > calls => served'[k] = None
    <3>1. ASSUME NEW k \in CallIds, k > calls PROVE served'[k] = None
      <4>1. k # m.id
        BY <1>17, <3>1, <1>3 DEF CallIds, RpcInv, ThreadsOk
      <4> QED
        BY <1>12, <3>1, <4>1 DEF RpcInv, ServedInv
    <3> QED
      BY <3>1
  <2>2. ASSUME NEW u \in Threads, pc[u] = "sending"
        PROVE  served'[call[u].id] = None /\ \A n \in Mail' : n.id # call[u].id
    <3>1. call[u].id # m.id /\ call[u].id \in CallIds
      <4>1. call[u].id # 0 /\ call[u].id <= calls /\ call[u].id \in 0..MaxCalls
        BY <2>2 DEF RpcInv, CallsInv, ThreadsOk
      <4>2. u # t => call[u].id # m.id
        BY <1>9, <4>1 DEF RpcInv, CallsInv
      <4> QED
        BY <1>17, <2>2, <4>1, <4>2, SeqAssumption DEF CallIds
    <3>2. served[call[u].id] = None /\ \A n \in Mail : n.id # call[u].id
      BY <2>2 DEF RpcInv, ServedInv
    <3> QED
      BY <1>4, <1>11, <1>12, <3>1, <3>2 DEF Mail
  <2> QED
    BY <1>6, <1>12, <2>1, <2>2 DEF ServedInv
<1>19. Told'
  <2>1. ASSUME NEW u \in Threads, got[u].kind \in Answers
        PROVE  /\ call[u].id # 0 /\ served'[call[u].id] # None
               /\ got[u] = served'[call[u].id].outcome
    <3>1. /\ call[u].id # 0 /\ served[call[u].id] # None
          /\ got[u] = served[call[u].id].outcome
      BY <2>1 DEF RpcInv, Told
    <3>2. call[u].id # m.id
      BY <1>8, <3>1
    <3>3. call[u].id \in CallIds
      BY <3>1, SeqAssumption DEF RpcInv, ThreadsOk, CallIds
    <3> QED
      BY <1>12, <3>1, <3>2, <3>3
  <2> QED
    BY <1>6, <2>1 DEF Told
<1>20. AskedAsMeant'
  <2>1. ASSUME NEW u \in Threads, call[u].id # 0, served'[call[u].id] # None
        PROVE  /\ served'[call[u].id].method = call[u].method
               /\ served'[call[u].id].outcome.kind # "app" =>
                    served'[call[u].id].query = call[u].query
    <3>1. call[u].id \in CallIds
      BY <2>1, SeqAssumption DEF RpcInv, ThreadsOk, CallIds
    <3>2. CASE call[u].id # m.id
      BY <1>12, <2>1, <3>1, <3>2 DEF RpcInv, AskedAsMeant
    <3>3. CASE call[u].id = m.id
      <4>1. u = t
        BY <1>9, <2>1, <3>3 DEF RpcInv, CallsInv
      <4>2. served' # served
        BY <1>8, <2>1, <3>3
      <4>3. PICK query \in Query, o \in Outcome :
              /\ Served(m, query, o)
              /\ call[u].id = m.id /\ o.kind # "app" => query = call[u].query
        BY <4>2
      <4>4. served'[m.id] = [method |-> m.name, query |-> query, outcome |-> o]
        BY <1>3, <4>3 DEF Served, RpcInv, ServedInv
      <4> QED
        BY <1>9, <3>3, <4>1, <4>3, <4>4
    <3> QED
      BY <3>2, <3>3
  <2> QED
    BY <1>6, <2>1 DEF AskedAsMeant
<1>21. DeadForCause'
  BY <1>6, <1>12 DEF RpcInv, DeadForCause
<1> QED
  BY <1>14, <1>15, <1>16, <1>18, <1>19, <1>20, <1>21 DEF RpcInv

(***************************************************************************)
(* What each method serves and answers.                                    *)
(***************************************************************************)
LEMMA OutcomeTypes ==
  /\ \A q \in Query : Returned(q) \in Outcome /\ Returned(q).kind = "returned"
  /\ \A e \in NumeratorException : Thrown(e) \in Outcome /\ Thrown(e).kind = "thrown"
  /\ Failed("app") \in Outcome /\ Failed("app").kind = "app"
BY WireTypes DEF Returned, Thrown, Failed, Ended, Outcome

(***************************************************************************)
(* Of all threads it is t whose call m is.                                 *)
(***************************************************************************)
CallOf(t, m) ==
  /\ call[t].id = m.id /\ call[t].method = m.name
  /\ Asks(call[t])
  /\ \A u \in Threads : call[u].id = m.id => u = t
  /\ m.name = "query" =>
       m.fields = OnWire(program, WriteQueryArgs(call[t].query))

(***************************************************************************)
(* The call a worker takes is the call of one thread.                      *)
(***************************************************************************)
LEMMA FirstCall ==
  ASSUME RpcInv, toServer # <<>>, NEW m, m = Head(toServer)
  PROVE  /\ m.name \in Methods
         /\ \E t \in Threads : CallOf(t, m)
<1>1. m \in Elements(toServer)
  BY TakeMessage DEF RpcInv, MailInv
<1>2. m \in Messages /\ CallOk(m)
  BY <1>1, MailHasMessages DEF Mail, RpcInv, MailInv
<1>3. m.name \in Methods /\ m.id \in CallIds
  BY <1>2 DEF Messages
<1>4. PICK t \in Threads :
        /\ call[t].id = m.id /\ call[t].method = m.name
        /\ m.name = "query" =>
             m.fields = OnWire(program, WriteQueryArgs(call[t].query))
  BY <1>2 DEF CallOk
<1>5. call[t].id # 0
  BY <1>3, <1>4, SeqAssumption DEF CallIds
<1>6. Asks(call[t]) /\ \A u \in Threads : call[u].id = m.id => u = t
  BY <1>4, <1>5 DEF RpcInv, CallsInv
<1> QED
  BY <1>3, <1>4, <1>6 DEF CallOf

(***************************************************************************)
(* An answer without a structure: a method returns nothing, or the call    *)
(* failed.                                                                 *)
(***************************************************************************)
LEMMA VoidKeeps ==
  ASSUME RpcInv, toServer # <<>>, NEW m, m = Head(toServer),
         NEW type \in {"reply", "exception"}, NEW o \in Outcome,
         ReplyTo(m, m.name, type, NoFields), Served(m, EmptyQuery, o),
         UNCHANGED misnamed,
         \/ type = "exception" /\ o = Failed("app")
         \/ type = "reply" /\ m.name # "query" /\ o = Returned(EmptyQuery)
  PROVE  RpcInv'
<1>1. PICK a : a = Message(m.name, type, m.seqid, OnWire(program, NoFields), m.id)
  OBVIOUS
<1>2. PICK t \in Threads : CallOf(t, m)
  BY FirstCall
<1>3. m.name \in Methods
  BY FirstCall
<1>4. a.name = m.name /\ a.type = type
  BY <1>1 DEF Message
<1>5. ~Misdirected(m.name, a) /\ Recv(m.name, a) = Committed(o)
  BY <1>3, <1>4 DEF Misdirected, Recv, RecvPing, RecvQuery, RecvDisable, RecvEnable,
     RecvVoid, Methods
<1>6. \A u \in Threads :
        call[u].id = m.id /\ o.kind # "app" => EmptyQuery = call[u].query
  BY <1>2, OutcomeTypes DEF CallOf, Asks
<1>7. NoFields \in OwnFields /\ EmptyQuery \in Query
  BY WireTypes DEF OwnFields
<1>8. AnswersTruly(m, a)
  BY <1>5, <1>6, <1>7 DEF AnswersTruly
<1> QED
  BY <1>1, <1>3, <1>7, <1>8, ReplyKeeps

(***************************************************************************)
(* query: the handler is asked the caller's query, and the caller is told  *)
(* what it returned or threw.                                              *)
(***************************************************************************)
LEMMA QueryKeeps ==
  ASSUME RpcInv, process_query
  PROVE  RpcInv'
<1>1. PICK m : m = Head(toServer)
  OBVIOUS
<1>2. toServer # <<>> /\ m.name = "query" /\ "query" \in Methods
      /\ program \in Programs
  BY <1>1 DEF process_query, Next1, Methods, RpcInv, ThreadsOk
<1>3. PICK t \in Threads : CallOf(t, m)
  BY <1>1, <1>2, FirstCall
<1>4. PICK q \in Requests : q = call[t].query
  BY <1>2, <1>3 DEF CallOf, Asks
<1>5. q \in Query /\ Answer(q) \in Query
  BY RpcAssumption
<1>6. ReadQueryArgs(m.fields) = Parsed(TRUE, q)
  BY <1>2, <1>3, <1>4, <1>5, ArgsReadBack DEF CallOf
<1>7. ReadQueryArgs(m.fields).value = q
  BY <1>6 DEF Parsed
<1>8. PICK r \in {Success(Answer(q)), Exc(Refused)} :
        /\ ReplyTo(m, "query", "reply", WriteQueryResult(r))
        /\ Served(m, q, IF "exc" \in r.isset THEN Thrown(r.exc) ELSE Returned(r.success))
        /\ UNCHANGED misnamed
  BY <1>1, <1>7 DEF process_query
<1>9. PICK a : a = Message("query", "reply", m.seqid,
                           OnWire(program, WriteQueryResult(r)), m.id)
  OBVIOUS
<1>10. /\ a.name = "query" /\ a.type = "reply"
       /\ a.fields = OnWire(program, WriteQueryResult(r))
  BY <1>9 DEF Message
<1>11. ~Misdirected(m.name, a)
  BY <1>2, <1>10 DEF Misdirected
<1>12. PICK o \in Outcome : Served(m, q, o) /\ Recv("query", a) = Committed(o)
  <2>1. CASE r = Success(Answer(q))
    <3>1. "exc" \notin r.isset /\ r.success = Answer(q)
      BY <2>1 DEF Success
    <3>2. Recv("query", a) = Committed(Returned(Answer(q)))
      BY <1>2, <1>5, <1>10, <2>1, ResultReadBack
    <3> QED
      BY <1>5, <1>8, <3>1, <3>2, OutcomeTypes
  <2>2. CASE r = Exc(Refused)
    <3>1. "exc" \in r.isset /\ r.exc = Refused
      BY <2>2 DEF Exc
    <3>2. Recv("query", a) = Committed(Thrown(Refused))
      BY <1>2, <1>10, <2>2, ResultReadBack, WireTypes
    <3> QED
      BY <1>8, <3>1, <3>2, OutcomeTypes, WireTypes
  <2> QED
    BY <2>1, <2>2
<1>13. WriteQueryResult(r) \in OwnFields
  BY DEF OwnFields, Results
<1>14. AnswersTruly(m, a)
  BY <1>2, <1>3, <1>4, <1>5, <1>8, <1>11, <1>12 DEF AnswersTruly, CallOf
<1> QED
  BY <1>1, <1>2, <1>8, <1>9, <1>13, <1>14, ReplyKeeps

(***************************************************************************)
(* Every method of the processor, and a method it does not know.           *)
(***************************************************************************)
LEMMA ProcessKeeps ==
  ASSUME RpcInv, process
  PROVE  RpcInv'
<1>1. PICK m : m = Head(toServer)
  OBVIOUS
<1>2. Returned(EmptyQuery) \in Outcome /\ Failed("app") \in Outcome
  BY OutcomeTypes, WireTypes
<1>3. CASE process_ping \/ process_disable_s2i
           \/ (process_enable_s2i /\ Served(m, EmptyQuery, Returned(EmptyQuery))
                 /\ ReplyTo(m, "enable_s2i", "reply", EnableFields))
  <2>1. /\ toServer # <<>> /\ m.name # "query" /\ UNCHANGED misnamed
        /\ ReplyTo(m, m.name, "reply", NoFields)
        /\ Served(m, EmptyQuery, Returned(EmptyQuery))
    BY <1>1, <1>3 DEF process_ping, process_disable_s2i, process_enable_s2i, Next1,
       PingFields, DisableFields, EnableFields
  <2> QED
    BY <1>1, <1>2, <2>1, VoidKeeps
<1>4. CASE dispatchCall
           \/ (process_enable_s2i /\ Served(m, EmptyQuery, Failed("app"))
                 /\ ReplyTo(m, "enable_s2i", "exception", NoFields))
  <2>1. /\ toServer # <<>> /\ UNCHANGED misnamed
        /\ ReplyTo(m, m.name, "exception", NoFields)
        /\ Served(m, EmptyQuery, Failed("app"))
    BY <1>1, <1>4 DEF dispatchCall, process_enable_s2i, Next1
  <2> QED
    BY <1>1, <1>2, <2>1, VoidKeeps
<1>5. CASE process_query
  BY <1>5, QueryKeeps
<1> QED
  BY <1>1, <1>3, <1>4, <1>5 DEF process, process_enable_s2i

(***************************************************************************)
(* An answer with the name of another method.                              *)
(***************************************************************************)
LEMMA MisnameKeeps ==
  ASSUME RpcInv, Misname
  PROVE  RpcInv'
<1>1. PICK m : m = Head(toServer)
  OBVIOUS
<1>2. PICK name \in Methods :
        /\ name # m.name /\ ReplyTo(m, name, "reply", NoFields)
        /\ toServer # <<>> /\ misnamed' = TRUE /\ UNCHANGED served
  BY <1>1 DEF Misname, Methods
<1>3. PICK a : a = Message(name, "reply", m.seqid, OnWire(program, NoFields), m.id)
  OBVIOUS
<1>4. Misnames(m, a)
  BY <1>2, <1>3 DEF Misnames, Misdirected, Message
<1>5. NoFields \in OwnFields
  BY DEF OwnFields
<1> QED
  BY <1>1, <1>2, <1>3, <1>4, <1>5, ReplyKeeps

(***************************************************************************)
(* The connection ends.                                                    *)
(***************************************************************************)
LEMMA CloseKeeps ==
  ASSUME RpcInv, Close
  PROVE  RpcInv'
<1>1. PICK k \in 0..Len(toClient) : toClient' = SubSeq(toClient, 1, k)
  BY DEF Close
<1>2. /\ open' = FALSE /\ toServer' = <<>>
      /\ UNCHANGED <<program, calls, pc, call, seqid, got, nextseqid, monitors, stop,
                     wakeupSomeone, pending, served, misnamed>>
  BY DEF Close, threads, sync, history
<1>3. /\ SubSeq(toClient, 1, k) \in Seq(Messages) /\ Distinct(SubSeq(toClient, 1, k))
      /\ Elements(SubSeq(toClient, 1, k)) \subseteq Elements(toClient)
  BY PrefixOfMessages DEF RpcInv, MailInv, Alone
<1>4. /\ toClient' \in Seq(Messages) /\ Distinct(toClient)'
      /\ Elements(toClient)' \subseteq Elements(toClient)
      /\ Elements(toServer)' = {}
  BY <1>1, <1>2, <1>3, NoMessages DEF Elements, Distinct
<1>5. Unread' \subseteq Unread /\ Mail' \subseteq Mail
  BY <1>2, <1>4 DEF Unread, Mail
<1>6. ThreadsOk' /\ CallsInv'
  BY <1>2 DEF RpcInv, ThreadsOk, CallsInv, Concurrent
<1>7. MailInv'
  <2>1. \A n \in Unread' : AnswerOk(n)'
    BY <1>2, <1>5, MeaningKept DEF RpcInv, MailInv
  <2>2. \A n \in Mail' : Awaited(n)'
    BY <1>2, <1>5 DEF RpcInv, MailInv, Awaited
  <2> QED
    BY <1>2, <1>4, <2>1, <2>2, NoMessages DEF RpcInv, MailInv
<1>8. Alone'
  <2>1. Distinct(toServer)'
    BY <1>2, NoMessages DEF Distinct
  <2> QED
    BY <1>2, <1>4, <2>1 DEF RpcInv, Alone
<1>9. ServedInv'
  BY <1>2, <1>5 DEF RpcInv, ServedInv
<1>10. Told' /\ AskedAsMeant' /\ DeadForCause'
  BY <1>2 DEF RpcInv, Told, AskedAsMeant, DeadForCause
<1> QED
  BY <1>6, <1>7, <1>8, <1>9, <1>10 DEF RpcInv

-----------------------------------------------------------------------------
(***************************************************************************)
(* Every step keeps the invariant.                                         *)
(***************************************************************************)
LEMMA CallKeeps ==
  ASSUME RpcInv, NEW t \in Threads, Call(t)
  PROVE  RpcInv'
<1>1. CASE DeadCall(t)
  BY <1>1, DeadCallKeeps
<1>2. CASE ~DeadCall(t)
  <2>1. PICK method \in Methods, q \in Requests \cup {EmptyQuery} :
          /\ IF method = "query" THEN q \in Requests ELSE q = EmptyQuery
          /\ PlainCall(t, method, q) \/ ConcurrentCall(t, method, q)
    BY <1>2 DEF Call, PlainPing, PlainQuery, PlainDisable, PlainEnable, Ping, DoQuery,
       Disable, Enable, Methods
  <2>2. CASE PlainCall(t, method, q)
    BY <2>1, <2>2, BeginKeeps DEF PlainCall
  <2>3. CASE ConcurrentCall(t, method, q)
    BY <2>1, <2>3, BeginKeeps DEF ConcurrentCall
  <2> QED
    BY <2>1, <2>2, <2>3
<1> QED
  BY <1>1, <1>2

(***************************************************************************)
(* A step that changes nothing.                                            *)
(***************************************************************************)
LEMMA StutterKeeps ==
  ASSUME RpcInv, UNCHANGED vars
  PROVE  RpcInv'
<1>1. /\ Quiet
      /\ UNCHANGED <<pc, got, monitors, stop, wakeupSomeone, toClient, pending>>
  BY DEF vars, wires, threads, sync, history, Quiet
<1>2. Unread' = Unread /\ Mail' = Mail
  BY <1>1 DEF Quiet, Unread, Mail, Elements
<1>3. (pending # None => \A n \in Elements(toClient) : n.id # pending.id)'
  BY <1>1 DEF RpcInv, Alone, Elements
<1>4. \A m \in Mail' : Awaited(m)'
  BY <1>1, <1>2 DEF RpcInv, MailInv, Awaited, Quiet
<1>5. Told' /\ DeadForCause' /\ Distinct(toClient)'
  BY <1>1 DEF RpcInv, Told, DeadForCause, Alone, Distinct, Quiet, history
<1> QED
  BY <1>1, <1>2, <1>3, <1>4, <1>5, ThreadFrame
     DEF RpcInv, ThreadsOk, CallsInv, MailInv, Quiet, Concurrent

(***************************************************************************)
(* The invariant holds throughout: whatever the threads, the numbers they  *)
(* start with and the fields a newer interface adds, every message under   *)
(* way is about one call, asks or answers what that call asked, and is     *)
(* awaited by its thread unless the client has died.                       *)
(***************************************************************************)
THEOREM RpcInvHolds == Spec => []RpcInv
<1>1. Init => RpcInv
  BY InitInv
<1>2. RpcInv /\ [Next]_vars => RpcInv'
  <2>1. SUFFICES ASSUME RpcInv, [Next]_vars PROVE RpcInv'
    OBVIOUS
  <2>2. ASSUME NEW t \in Threads, Call(t) PROVE RpcInv'
    BY <2>1, <2>2, CallKeeps
  <2>3. ASSUME NEW t \in Threads, ThreadStep(t) PROVE RpcInv'
    BY <2>1, <2>3, SendKeeps, SendFailsKeeps, WaitKeeps, TakeKeeps, DepartKeeps
       DEF ThreadStep
  <2>4. CASE process
    BY <2>1, <2>4, ProcessKeeps
  <2>5. CASE Misname
    BY <2>1, <2>5, MisnameKeeps
  <2>6. CASE Close
    BY <2>1, <2>6, CloseKeeps
  <2>7. CASE Reconnect
    BY <2>1, <2>7, ReconnectKeeps
  <2>8. CASE UNCHANGED vars
    BY <2>1, <2>8, StutterKeeps
  <2> QED
    BY <2>1, <2>2, <2>3, <2>4, <2>5, <2>6, <2>7, <2>8 DEF Next
<1> QED
  BY <1>1, <1>2, PTL DEF Spec

(***************************************************************************)
(* The variables keep their types.                                         *)
(***************************************************************************)
THEOREM TypesHold == Spec => []TypeOK
<1>1. RpcInv => TypeOK
  BY TypesFollow
<1> QED
  BY <1>1, RpcInvHolds, PTL

(***************************************************************************)
(* A caller has the answer the server gave to this very call: recv_* of    *)
(* either client never takes another thread's answer for its own, also     *)
(* when the sequence ids roll over, and the structures arrive as written.  *)
(***************************************************************************)
THEOREM AnswersAreOwn == Spec => []OwnAnswer
<1>1. RpcInv => OwnAnswer
  BY DEF RpcInv, Told, OwnAnswer, Answers
<1> QED
  BY <1>1, RpcInvHolds, PTL

(***************************************************************************)
(* The handler behind process_* is asked what the caller of send_* asked.  *)
(***************************************************************************)
THEOREM AskedIsMeant == Spec => []AskedAsMeant
<1>1. RpcInv => AskedAsMeant
  BY DEF RpcInv
<1> QED
  BY <1>1, RpcInvHolds, PTL

(***************************************************************************)
(* A NumeratorConcurrentClient is marked bad only after its connection has *)
(* ended or the server has misnamed an answer: of the answers of a sound   *)
(* server every one finds the thread that waits for it.                    *)
(***************************************************************************)
THEOREM DeadOnlyForCause == Spec => []DeadForCause
<1>1. RpcInv => DeadForCause
  BY DEF RpcInv
<1> QED
  BY <1>1, RpcInvHolds, PTL

-----------------------------------------------------------------------------
(***************************************************************************)
(* Who waits for whom.                                                     *)
(***************************************************************************)

(***************************************************************************)
(* The read mutex has one holder, who found nothing pending when he began. *)
(***************************************************************************)
OneReader ==
  \A t \in Threads : pc[t] = "reading" =>
    pending = None /\ \A u \in Threads : pc[u] = "reading" => u = t

(***************************************************************************)
(* Nobody waits at the monitors of a dead client.                          *)
(***************************************************************************)
DeadWakesAll == stop => \A t \in Threads : pc[t] # "waiting"

(***************************************************************************)
(* Every monitor belongs to a call under way, so that wakeupAnyone_, which *)
(* notifies the last of them, notifies a thread that needs the answer.     *)
(***************************************************************************)
MonitorsInUse ==
  ~stop => \A s \in monitors : \E t \in Threads : pc[t] # "idle" /\ seqid[t] = s

(***************************************************************************)
(* Where nobody reads, nothing is pending and nobody was told to read,     *)
(* nobody waits: the reading is passed on or its result is.                *)
(***************************************************************************)
PassedOn ==
  ~stop /\ ~wakeupSomeone /\ pending = None /\ ReadMutexFree
    => \A t \in Threads : pc[t] \notin {"waiting", "woken"}

WaitInv ==
  /\ Concurrent => /\ OneReader /\ DeadWakesAll /\ MonitorsInUse /\ PassedOn
                   /\ \A t \in Threads : pc[t] # "lost"
  /\ ~Concurrent => \A t \in Threads : pc[t] \notin {"waiting", "woken"}
  /\ SomeoneReads

(***************************************************************************)
(* A set of integers between two bounds has a greatest element.            *)
(***************************************************************************)
LEMMA Greatest ==
  ASSUME NEW a \in Int, NEW b \in Int, NEW T \in SUBSET (a..b), T # {}
  PROVE  \E x \in T : \A y \in T : y <= x
<1> DEFINE Above(x) == (x + 1)..b
           Aboves == {Above(x) : x \in T}
<1>1. Aboves \subseteq FiniteSubsetsOf(a..b) /\ Aboves # {}
  <2> SUFFICES ASSUME NEW x \in T PROVE Above(x) \in FiniteSubsetsOf(a..b)
    OBVIOUS
  <2>1. x \in Int /\ a <= x
    OBVIOUS
  <2>2. IsFiniteSet(Above(x))
    BY <2>1, FS_Interval
  <2>3. Above(x) \subseteq a..b
    BY <2>1
  <2> QED
    BY <2>2, <2>3 DEF FiniteSubsetsOf
<1>2. PICK A \in Aboves : \A B \in Aboves : <<B, A>> \notin StrictSubsetOrdering(a..b)
  <2> HIDE DEF Aboves
  <2> QED
    BY <1>1, WFMin, FS_StrictSubsetOrderingWellFounded
<1>3. PICK x \in T : A = Above(x)
  OBVIOUS
<1>4. ASSUME NEW y \in T, ~(y <= x) PROVE FALSE
  <2>1. x \in Int /\ y \in Int /\ x < y /\ y <= b /\ a <= x
    BY <1>4
  <2>2. Above(y) \subseteq Above(x) /\ y \in Above(x) /\ y \notin Above(y)
    BY <2>1
  <2>3. Above(x) \subseteq a..b /\ Above(y) \subseteq a..b
    BY <2>1
  <2>4. <<Above(y), Above(x)>> \in StrictSubsetOrdering(a..b)
    BY <2>2, <2>3 DEF StrictSubsetOrdering
  <2> QED
    BY <2>4, <1>2, <1>3
<1> QED
  BY <1>3, <1>4

(***************************************************************************)
(* What the invariant is about.                                            *)
(***************************************************************************)
LEMMA WaitFrame ==
  ASSUME WaitInv,
         UNCHANGED <<program, pc, seqid, monitors, stop, wakeupSomeone, pending>>
  PROVE  WaitInv'
BY DEF WaitInv, Concurrent, OneReader, DeadWakesAll, MonitorsInUse, PassedOn,
   ReadMutexFree, SomeoneReads

(***************************************************************************)
(* A thread that ends its call and passes the reading on: wakeupAnyone_    *)
(* finds the last of the calls under way, and its thread is awake or is    *)
(* woken.                                                                  *)
(***************************************************************************)
LEMMA CommittedWakes ==
  ASSUME RpcInv, WaitInv, Concurrent, ~stop, NEW t \in Threads, pc[t] # "idle",
         NEW outcome, Leave(t, outcome, TRUE),
         NEW w \in Threads, pc'[w] = "waiting"
  PROVE  \E u \in Threads : pc'[u] \in {"sending", "sent", "woken", "reading"}
<1>1. /\ pc \in [Threads -> PcStates] /\ seqid \in [Threads -> SeqIds]
      /\ monitors \subseteq SeqIds
  BY DEF RpcInv, ThreadsOk, PcStates
<1>2. monitors' = monitors \ {seqid[t]}
  BY DEF Leave
<1>3. /\ pc'[t] = "idle"
      /\ \A u \in Threads : u # t =>
           pc'[u] = IF pc[u] = "waiting" /\ seqid[u] \in monitors'
                       /\ \A s \in monitors' : s <= seqid[u]
                    THEN "woken" ELSE pc[u]
  BY <1>1 DEF Leave, WakeLast
<1>4. w # t /\ pc[w] = "waiting"
  BY <1>3
<1>5. \A u \in Threads : pc[u] # "idle" => call[u].id # 0 /\ seqid[u] \in monitors
  BY DEF RpcInv, CallsInv
<1>6. seqid[w] \in monitors'
  BY <1>2, <1>4, <1>5, OwnNumber
<1>7. PICK g \in monitors' : \A s \in monitors' : s <= g
  BY <1>1, <1>2, <1>6, Greatest, SeqAssumption DEF SeqIds
<1>8. PICK u \in Threads : pc[u] # "idle" /\ seqid[u] = g
  BY <1>2 DEF WaitInv, MonitorsInUse
<1>9. u # t
  BY <1>2, <1>8
<1>10. pc'[u] = IF pc[u] = "waiting" THEN "woken" ELSE pc[u]
  BY <1>3, <1>7, <1>8, <1>9
<1> QED
  BY <1>1, <1>8, <1>10 DEF WaitInv, PcStates

(***************************************************************************)
(* The end of a call leaves nobody waiting for nobody.                     *)
(***************************************************************************)
LEMMA LeaveWakes ==
  ASSUME RpcInv, WaitInv, NEW t \in Threads, pc[t] # "idle",
         \A u \in Threads : u # t => pc[u] # "reading",
         NEW outcome, NEW commit \in BOOLEAN, Leave(t, outcome, commit),
         (Concurrent /\ commit) \/ ~Concurrent => pending' = None
  PROVE  WaitInv'
<1>1. pc \in [Threads -> PcStates] /\ stop \in BOOLEAN
  BY DEF RpcInv, ThreadsOk, PcStates
<1>2. /\ pc' \in [Threads -> PcStates] /\ pc'[t] = "idle"
      /\ \A u \in Threads : u # t =>
           pc'[u] = pc[u] \/ (pc[u] = "waiting" /\ pc'[u] = "woken")
      /\ ~commit => \A u \in Threads : pc'[u] # "waiting"
  BY <1>1 DEF Leave, WakeAll, WakeLast, PcStates
<1>3. /\ monitors' = monitors \ {seqid[t]}
      /\ wakeupSomeone' = Concurrent
      /\ stop' = (stop \/ (Concurrent /\ ~commit))
      /\ program' = program /\ seqid' = seqid
      /\ Concurrent' = Concurrent
  BY DEF Leave, Concurrent
<1>4. \A u \in Threads : pc'[u] # "reading"
  BY <1>2
<1>5. OneReader' /\ (Concurrent => PassedOn')
  BY <1>3, <1>4 DEF OneReader, PassedOn
<1>6. Concurrent => DeadWakesAll'
  BY <1>2, <1>3 DEF WaitInv, DeadWakesAll
<1>7. Concurrent => MonitorsInUse'
  <2> SUFFICES ASSUME Concurrent, ~stop', NEW s \in monitors'
               PROVE  \E u \in Threads : pc'[u] # "idle" /\ seqid'[u] = s
    BY DEF MonitorsInUse
  <2>1. PICK u \in Threads : pc[u] # "idle" /\ seqid[u] = s
    BY <1>3 DEF WaitInv, MonitorsInUse
  <2> QED
    BY <1>2, <1>3, <2>1
<1>8. \A u \in Threads : /\ Concurrent => pc'[u] # "lost"
                         /\ ~Concurrent => pc'[u] \notin {"waiting", "woken"}
  BY <1>2 DEF WaitInv
<1>9. SomeoneReads'
  <2>1. CASE ~Concurrent
    BY <1>8, <2>1 DEF SomeoneReads
  <2>2. CASE Concurrent /\ stop'
    BY <1>6, <2>2 DEF SomeoneReads, DeadWakesAll
  <2>3. CASE Concurrent /\ ~stop'
    <3>1. ~stop /\ commit
      BY <1>3, <2>3
    <3>2. pending' = None
      BY <2>3, <3>1
    <3>3. Leave(t, outcome, TRUE)
      BY <3>1
    <3> QED
      BY <2>3, <3>1, <3>2, <3>3, CommittedWakes DEF SomeoneReads
  <2> QED
    BY <2>1, <2>2, <2>3
<1> QED
  BY <1>3, <1>5, <1>6, <1>7, <1>8, <1>9 DEF WaitInv

(***************************************************************************)
(* A thread that hands an answer over: the thread of the call is another   *)
(* one, which is on its way to read or is woken.                           *)
(***************************************************************************)
LEMMA HandOverWakes ==
  ASSUME RpcInv, WaitInv, NEW t \in Threads, pc[t] # "idle",
         \A u \in Threads : u # t => pc[u] # "reading",
         NEW m \in Unread, AnotherThreads(t, m)
  PROVE  WaitInv'
<1>1. /\ Concurrent /\ ~stop /\ m.seqid # seqid[t]
      /\ UNCHANGED <<program, seqid, monitors, stop>>
      /\ pending' = m /\ wakeupSomeone' = FALSE
  BY DEF AnotherThreads, Mine, HandOver
<1>2. AnswerOk(m) /\ Awaited(m) /\ m \in Messages
  BY DEF RpcInv, MailInv, Mail, Unread, Elements
<1>3. PICK u \in Threads : call[u].id = m.id /\ pc[u] \in Awaiting
  BY <1>1, <1>2 DEF Awaited
<1>4. seqid[u] = m.seqid
  BY <1>1, <1>2, <1>3 DEF AnswerOk, Numbered, Awaiting, RpcInv, CallsInv
<1>5. u # t /\ pc[u] \in {"sent", "waiting", "woken"}
  BY <1>1, <1>3, <1>4 DEF Awaiting
<1>6. /\ pc'[t] = "waiting"
      /\ \A v \in Threads : v # t =>
           pc'[v] = IF pc[v] = "waiting" /\ seqid[v] = m.seqid THEN "woken" ELSE pc[v]
  BY DEF AnotherThreads, HandOver
<1>7. pc'[u] \in {"sent", "woken"}
  BY <1>4, <1>5, <1>6
<1>8. Concurrent' /\ ~stop' /\ pending' # None
  BY <1>1, <1>2, MessageAssumption DEF Concurrent
<1>9. \A v \in Threads : /\ pc'[v] \notin {"reading", "lost"}
                         /\ pc[v] # "idle" => pc'[v] # "idle"
  BY <1>1, <1>6 DEF WaitInv
<1>10. OneReader' /\ DeadWakesAll' /\ PassedOn'
  BY <1>8, <1>9 DEF OneReader, DeadWakesAll, PassedOn
<1>11. MonitorsInUse'
  BY <1>1, <1>9 DEF WaitInv, MonitorsInUse
<1>12. SomeoneReads'
  BY <1>1, <1>4, <1>7 DEF SomeoneReads
<1> QED
  BY <1>8, <1>9, <1>10, <1>11, <1>12 DEF WaitInv

(***************************************************************************)
(* What a thread makes of an answer, read or pending.                      *)
(***************************************************************************)
LEMMA ExamineWakes ==
  ASSUME RpcInv, WaitInv, NEW t \in Threads, TakePending(t) \/ ReadAnswer(t)
  PROVE  WaitInv'
<1>1. pc[t] \in {"sent", "woken", "reading"}
  BY DEF TakePending, ReadAnswer, MayWork
<1>2. CASE ~Concurrent
  <2>1. pc[t] = "sent" \/ pc[t] = "reading"
    BY <1>1, <1>2 DEF WaitInv
  <2>2. /\ pending = None /\ ~stop
        /\ \A u \in Threads : pc[u] \notin {"waiting", "woken"}
    BY <1>2 DEF RpcInv, CallsInv, WaitInv
  <2>3. ReadAnswer(t)
    BY <2>2 DEF TakePending
  <2>4. Own(t, Head(toClient)) \/ ReadsOn(t, Head(toClient))
    BY <1>2, <2>3 DEF ReadAnswer, Examine, AnotherThreads, Nobodys, Mine
  <2>5. /\ program' = program /\ pending' = None
        /\ \A u \in Threads : pc'[u] \in {pc[u], "idle", "lost", "woken"}
        /\ \A u \in Threads : pc'[u] # "woken"
    <3>1. pc \in [Threads -> PcStates]
      BY DEF RpcInv, ThreadsOk, PcStates
    <3>2. CASE Own(t, Head(toClient))
      <4>1. PICK o, c : Leave(t, o, c)
        BY <3>2 DEF Own
      <4> QED
        BY <2>2, <3>1, <3>2, <4>1 DEF Own, Leave, WakeAll, WakeLast
    <3>3. CASE ReadsOn(t, Head(toClient))
      BY <2>2, <3>1, <3>3 DEF ReadsOn, sync
    <3> QED
      BY <2>4, <3>2, <3>3
  <2> QED
    BY <1>2, <2>2, <2>5 DEF WaitInv, SomeoneReads, Concurrent
<1>3. CASE Concurrent
  <2>1. \A u \in Threads : u # t => pc[u] # "reading"
    BY <1>3 DEF TakePending, ReadAnswer, ReadMutexFree, WaitInv, OneReader
  <2>2. PICK m \in Unread : Examine(t, m)
    <3>1. CASE TakePending(t)
      BY <3>1 DEF TakePending, Unread
    <3>2. CASE ReadAnswer(t)
      <4>1. Head(toClient) \in Elements(toClient)
        BY <3>2, TakeMessage DEF ReadAnswer, RpcInv, MailInv, Alone
      <4> QED
        BY <3>2, <4>1 DEF ReadAnswer, Unread
    <3> QED
      BY <3>1, <3>2
  <2>3. CASE Own(t, m)
    <3>1. PICK r : /\ r = Recv(call[t].method, m)
                   /\ Leave(t, r.outcome, r.commit)
      BY <2>3 DEF Own
    <3>2. pending' = None
      BY <2>3 DEF Own
    <3>3. r.commit \in BOOLEAN
      <4>1. call[t].method \in Methods
        BY DEF RpcInv, ThreadsOk
      <4>2. \A o : Committed(o).commit \in BOOLEAN /\ Uncommitted(o).commit \in BOOLEAN
        BY DEF Committed, Uncommitted
      <4> HIDE DEF Committed, Uncommitted
      <4>3. \A n : RecvVoid(n, m).commit \in BOOLEAN
        BY <4>2 DEF RecvVoid
      <4>4. RecvQuery(m).commit \in BOOLEAN
        BY <4>2 DEF RecvQuery
      <4> QED
        BY <3>1, <4>1, <4>3, <4>4
           DEF Recv, RecvPing, RecvDisable, RecvEnable, Methods
    <3> QED
      BY <1>1, <2>1, <3>1, <3>2, <3>3, LeaveWakes
  <2>4. CASE AnotherThreads(t, m)
    BY <1>1, <2>1, <2>4, HandOverWakes
  <2>5. CASE Nobodys(t, m)
    <3>1. PICK o : Leave(t, o, FALSE)
      BY <2>5 DEF Nobodys
    <3> QED
      BY <1>1, <1>3, <2>1, <3>1, LeaveWakes
  <2>6. ~ReadsOn(t, m)
    BY <1>3 DEF ReadsOn
  <2> QED
    BY <2>2, <2>3, <2>4, <2>5, <2>6 DEF Examine
<1> QED
  BY <1>2, <1>3

(***************************************************************************)
(* A thread that finds the client dead, or the connection at its end.      *)
(***************************************************************************)
LEMMA DepartWakes ==
  ASSUME RpcInv, WaitInv, NEW t \in Threads, ClientDied(t) \/ ReadEnd(t)
  PROVE  WaitInv'
<1>1. /\ Leave(t, Failed("transport"), FALSE) /\ pending' = pending
      /\ pc[t] # "idle"
  BY DEF ClientDied, ReadEnd
<1>2. \A u \in Threads : u # t => pc[u] # "reading"
  <2>1. CASE Concurrent
    BY <2>1 DEF ClientDied, ReadEnd, ReadMutexFree, WaitInv, OneReader
  <2>2. CASE ~Concurrent
    <3>1. IsProgram(program)
      BY RpcAssumption DEF RpcInv, ThreadsOk
    <3>2. \E w \in Threads : program.threads = {w}
      BY <2>2, <3>1 DEF IsProgram, Concurrent
    <3>3. \A u \in Threads : pc[u] # "idle" => u \in program.threads
      BY DEF RpcInv, CallsInv
    <3> QED
      BY <1>1, <3>2, <3>3
  <2> QED
    BY <2>1, <2>2
<1>3. ~Concurrent => pending' = None
  BY <1>1 DEF RpcInv, CallsInv
<1> QED
  BY <1>1, <1>2, <1>3, LeaveWakes

(***************************************************************************)
(* A thread that goes to read leaves nothing to be told to another; one    *)
(* that waits again has found the owner of what is pending awake.          *)
(***************************************************************************)
LEMMA EnterWakes ==
  ASSUME RpcInv, WaitInv, NEW t \in Threads, Enter(t)
  PROVE  WaitInv'
<1>1. /\ UNCHANGED <<program, seqid, monitors, stop, pending>>
      /\ pc[t] \in {"sent", "woken"} /\ pending = None /\ ~stop
      /\ \A u \in Threads : pc[u] # "reading"
  BY DEF Enter, MayWork, ReadMutexFree
<1>2. /\ pc'[t] = "reading"
      /\ \A u \in Threads : u # t => pc'[u] = pc[u]
  BY DEF Enter, RpcInv, ThreadsOk
<1>3. OneReader' /\ DeadWakesAll' /\ PassedOn'
  BY <1>1, <1>2 DEF OneReader, DeadWakesAll, PassedOn, ReadMutexFree
<1>4. Concurrent => MonitorsInUse'
  BY <1>1, <1>2 DEF WaitInv, MonitorsInUse
<1>5. SomeoneReads'
  BY <1>1, <1>2 DEF SomeoneReads
<1> QED
  BY <1>1, <1>2, <1>3, <1>4, <1>5 DEF WaitInv, Concurrent

(***************************************************************************)
(* A thread woken for nothing.                                             *)
(***************************************************************************)
LEMMA WaitAgainWakes ==
  ASSUME RpcInv, WaitInv, NEW t \in Threads, WaitAgain(t)
  PROVE  WaitInv'
<1>1. /\ UNCHANGED <<program, seqid, monitors, stop, wakeupSomeone, pending>>
      /\ pc[t] = "woken" /\ ~stop /\ ~wakeupSomeone /\ ReadMutexFree
      /\ pending # None => pending.seqid # seqid[t]
  BY DEF WaitAgain, MayWork, sync
<1>2. Concurrent /\ Concurrent' = Concurrent
  BY <1>1 DEF WaitInv, Concurrent
<1>3. pending # None
  BY <1>1, <1>2 DEF WaitInv, PassedOn
<1>4. PICK u \in Threads : seqid[u] = pending.seqid /\ pc[u] \in {"sent", "woken"}
  BY <1>1, <1>3 DEF WaitInv, SomeoneReads
<1>5. /\ pc'[t] = "waiting"
      /\ \A v \in Threads : v # t => pc'[v] = pc[v]
  BY DEF WaitAgain, RpcInv, ThreadsOk
<1>6. u # t /\ pc'[u] = pc[u]
  BY <1>1, <1>3, <1>4, <1>5
<1>7. SomeoneReads'
  BY <1>1, <1>4, <1>6 DEF SomeoneReads
<1>8. OneReader' /\ DeadWakesAll' /\ PassedOn'
  BY <1>1, <1>3, <1>5 DEF OneReader, DeadWakesAll, PassedOn, ReadMutexFree
<1>9. MonitorsInUse'
  BY <1>1, <1>2, <1>5 DEF WaitInv, MonitorsInUse
<1> QED
  BY <1>2, <1>5, <1>7, <1>8, <1>9 DEF WaitInv

(***************************************************************************)
(* A thread sends, or cannot.                                              *)
(***************************************************************************)
LEMMA SendWakes ==
  ASSUME RpcInv, WaitInv, NEW t \in Threads, Send(t) \/ SendFails(t)
  PROVE  WaitInv'
<1>1. UNCHANGED <<program, seqid, monitors, pending>> /\ pc[t] = "sending"
  BY DEF Send, SendFails, sync
<1>2. pc \in [Threads -> PcStates]
  BY DEF RpcInv, ThreadsOk, PcStates
<1>3. CASE Send(t)
  <2>1. /\ pc'[t] = "sent" /\ \A u \in Threads : u # t => pc'[u] = pc[u]
        /\ UNCHANGED <<stop, wakeupSomeone>>
    BY <1>2, <1>3 DEF Send, sync
  <2>2. OneReader => OneReader'
    BY <1>1, <2>1 DEF OneReader
  <2>3. DeadWakesAll => DeadWakesAll'
    BY <1>1, <2>1 DEF DeadWakesAll
  <2>4. MonitorsInUse => MonitorsInUse'
    BY <1>1, <2>1 DEF MonitorsInUse
  <2>5. PassedOn => PassedOn'
    <3>1. ReadMutexFree' => ReadMutexFree
      BY <1>1, <2>1 DEF ReadMutexFree
    <3> QED
      BY <1>1, <2>1, <3>1 DEF PassedOn
  <2>6. SomeoneReads'
    BY <1>1, <2>1 DEF WaitInv, SomeoneReads
  <2> QED
    BY <1>1, <2>1, <2>2, <2>3, <2>4, <2>5, <2>6 DEF WaitInv, Concurrent
<1>4. CASE SendFails(t)
  <2>1. /\ stop' = Concurrent /\ wakeupSomeone' = Concurrent
        /\ pc'[t] = "idle"
        /\ \A u \in Threads : u # t =>
             pc'[u] = IF pc[u] = "waiting" THEN "woken" ELSE pc[u]
    BY <1>2, <1>4 DEF SendFails, WakeAll
  <2>2. OneReader => OneReader'
    BY <1>1, <2>1 DEF OneReader
  <2>3. DeadWakesAll' /\ (Concurrent => MonitorsInUse' /\ PassedOn')
    BY <2>1 DEF DeadWakesAll, MonitorsInUse, PassedOn
  <2>4. ~Concurrent => pending = None
    BY DEF RpcInv, CallsInv
  <2>5. SomeoneReads'
    BY <1>1, <2>1, <2>4 DEF SomeoneReads
  <2> QED
    BY <1>1, <2>1, <2>2, <2>3, <2>5 DEF WaitInv, Concurrent
<1> QED
  BY <1>3, <1>4

(***************************************************************************)
(* A call begins.                                                          *)
(***************************************************************************)
LEMMA BeginWakes ==
  ASSUME RpcInv, WaitInv, NEW t \in Threads, Call(t)
  PROVE  WaitInv'
<1>1. CASE DeadCall(t)
  BY <1>1, WaitFrame DEF DeadCall, sync
<1>2. CASE ~DeadCall(t)
  <2>1. PICK method, q, seq :
          /\ Begin(t, method, q, seq)
          /\ ~Concurrent => monitors' = monitors
          /\ Concurrent => seq = nextseqid /\ monitors' = monitors \cup {seq}
    BY <1>2 DEF Call, PlainPing, PlainQuery, PlainDisable, PlainEnable, PlainCall,
       Ping, DoQuery, Disable, Enable, ConcurrentCall
  <2>2. /\ UNCHANGED <<program, stop, wakeupSomeone, pending>>
        /\ pc[t] = "idle" /\ pc'[t] = "sending" /\ seqid'[t] = seq
        /\ \A u \in Threads : u # t => pc'[u] = pc[u] /\ seqid'[u] = seqid[u]
    BY <2>1 DEF Begin, RpcInv, ThreadsOk
  <2>3. OneReader => OneReader'
    BY <2>2 DEF OneReader
  <2>4. DeadWakesAll => DeadWakesAll'
    BY <2>2 DEF DeadWakesAll
  <2>5. Concurrent /\ MonitorsInUse => MonitorsInUse'
    BY <2>1, <2>2 DEF MonitorsInUse
  <2>6. PassedOn => PassedOn'
    <3>1. ReadMutexFree' => ReadMutexFree
      BY <2>2 DEF ReadMutexFree
    <3> QED
      BY <2>2, <3>1 DEF PassedOn
  <2>7. SomeoneReads'
    BY <2>2 DEF WaitInv, SomeoneReads
  <2> QED
    BY <2>2, <2>3, <2>4, <2>5, <2>6, <2>7 DEF WaitInv, Concurrent
<1> QED
  BY <1>1, <1>2

(***************************************************************************)
(* The threads of a shared client never all wait: whoever leaves recv_*    *)
(* wakes one that is needed, for any number of threads and whichever calls *)
(* end, fail or find the client dead.                                      *)
(***************************************************************************)
THEOREM SomeoneAlwaysReads == Spec => []SomeoneReads
<1>1. Init => WaitInv
  BY DEF Init, WaitInv, OneReader, DeadWakesAll, MonitorsInUse, PassedOn, SomeoneReads
<1>2. RpcInv /\ WaitInv /\ [Next]_vars => WaitInv'
  <2> SUFFICES ASSUME RpcInv, WaitInv, [Next]_vars PROVE WaitInv'
    OBVIOUS
  <2>1. ASSUME NEW t \in Threads, Call(t) PROVE WaitInv'
    BY <2>1, BeginWakes
  <2>2. ASSUME NEW t \in Threads, ThreadStep(t) PROVE WaitInv'
    BY <2>2, SendWakes, EnterWakes, ExamineWakes, WaitAgainWakes, DepartWakes
       DEF ThreadStep
  <2>3. CASE process \/ Misname
    <3>1. UNCHANGED <<program, threads, sync>>
      BY <2>3 DEF process, process_ping, process_query, process_disable_s2i,
         process_enable_s2i, dispatchCall, Misname, ReplyTo
    <3> QED
      BY <3>1, WaitFrame DEF threads, sync
  <2>4. CASE Close
    BY <2>4, WaitFrame DEF Close, threads, sync
  <2>5. CASE Reconnect
    BY <2>5 DEF Reconnect, WaitInv, OneReader, DeadWakesAll, MonitorsInUse, PassedOn,
       SomeoneReads
  <2>6. CASE UNCHANGED vars
    BY <2>6, WaitFrame DEF vars, threads, sync
  <2> QED
    BY <2>1, <2>2, <2>3, <2>4, <2>5, <2>6 DEF Next
<1>3. WaitInv => SomeoneReads
  BY DEF WaitInv
<1> QED
  BY <1>1, <1>2, <1>3, RpcInvHolds, PTL DEF Spec

-----------------------------------------------------------------------------
(***************************************************************************)
(* A thread outside a call has an outcome or has made none, and where the  *)
(* client is dead some call has failed.                                    *)
(***************************************************************************)
Broken == {Failed("protocol"), Failed("transport")}

EndInv ==
  /\ \A t \in Threads : pc[t] = "idle" <=> ~Promise!UnderWay(t)
  /\ stop => \E t \in Threads : got[t] \in Broken

(***************************************************************************)
(* The step of the abstract specification that changes nothing.            *)
(***************************************************************************)
LEMMA SameCalls ==
  ASSUME UNCHANGED <<call, got, served>>
  PROVE  [Promise!Next]_(Promise!vars)
BY DEF Promise!vars

(***************************************************************************)
(* A step that neither begins nor ends a call keeps the invariant.         *)
(***************************************************************************)
LEMMA SameEnds ==
  ASSUME EndInv, UNCHANGED <<call, got, stop>>,
         \A t \in Threads : pc'[t] = "idle" <=> pc[t] = "idle"
  PROVE  EndInv'
BY DEF EndInv, Promise!UnderWay

(***************************************************************************)
(* What a receive sentry leaves behind: an answer, or a failure unless it  *)
(* is committed.                                                           *)
(***************************************************************************)
LEMMA RecvOutcomes ==
  ASSUME NEW method \in Methods, NEW m, NEW r, r = Recv(method, m)
  PROVE  /\ r.outcome.kind \in Answers \cup {"protocol"}
         /\ r.outcome.kind \notin Answers => r.outcome \in Broken
         /\ ~r.commit => r.outcome \in Broken
BY DEF Recv, RecvPing, RecvQuery, RecvDisable, RecvEnable, RecvVoid, Methods,
   Committed, Uncommitted, Failed, Returned, Thrown, Ended, Answers, Broken

(***************************************************************************)
(* A thread leaves a call: with what was served for it or with a failure,  *)
(* and with a failure where the client dies.                               *)
(***************************************************************************)
Leaves(t) ==
  /\ pc[t] # "idle" /\ pc'[t] = "idle"
  /\ \A u \in Threads : u # t => (pc'[u] = "idle" <=> pc[u] = "idle")
  /\ \E o : /\ got' = [got EXCEPT ![t] = o]
            /\ o \in Broken \/ o.kind \in Answers
            /\ stop' => stop \/ o \in Broken
  /\ UNCHANGED <<call, served>>

LEMMA LeavesEnds ==
  ASSUME RpcInv, RpcInv', EndInv, NEW t \in Threads, Leaves(t)
  PROVE  EndInv' /\ [Promise!Next]_(Promise!vars)
<1>1. PICK o : /\ got' = [got EXCEPT ![t] = o]
               /\ o \in Broken \/ o.kind \in Answers
               /\ stop' => stop \/ o \in Broken
  BY DEF Leaves
<1>2. /\ got \in [Threads -> Outcome]
      /\ got'[t] = o /\ \A u \in Threads : u # t => got'[u] = got[u]
  BY <1>1 DEF RpcInv, ThreadsOk
<1>3. Promise!UnderWay(t) /\ call[t].id \in CallIds
  BY DEF EndInv, Leaves, Promise!UnderWay
<1>4. o # Failed("none")
  BY <1>1 DEF Broken, Answers, Failed, Ended
<1>5. EndInv'
  <2>1. \A u \in Threads : pc'[u] = "idle" <=> ~Promise!UnderWay(u)'
    BY <1>2, <1>4 DEF EndInv, Leaves, Promise!UnderWay
  <2>2. stop' => \E u \in Threads : got'[u] \in Broken
    <3>1. CASE o \in Broken
      BY <1>2, <3>1
    <3>2. CASE stop
      <4>1. PICK u \in Threads : got[u] \in Broken
        BY <3>2 DEF EndInv
      <4>2. u # t
        BY <1>3, <4>1 DEF Promise!UnderWay, Broken, Failed, Ended
      <4> QED
        BY <1>2, <4>1, <4>2
    <3> QED
      BY <1>1, <3>1, <3>2
  <2> QED
    BY <2>1, <2>2 DEF EndInv
<1>6. CASE o \in Broken
  <2>1. Promise!Fail(t)
    BY <1>1, <1>3, <1>6 DEF Promise!Fail, Broken, Leaves
  <2> QED
    BY <1>5, <2>1 DEF Promise!Next
<1>7. CASE o.kind \in Answers
  <2>1. served[call[t].id] # None /\ o = served[call[t].id].outcome
    BY <1>2, <1>7 DEF RpcInv, Told, Leaves
  <2>2. Promise!End(t)
    BY <1>1, <1>3, <2>1 DEF Promise!End, Leaves
  <2> QED
    BY <1>5, <2>2 DEF Promise!Next
<1> QED
  BY <1>1, <1>6, <1>7

(***************************************************************************)
(* The receive sentry's destructor.                                        *)
(***************************************************************************)
LEMMA SentryLeaves ==
  ASSUME RpcInv, NEW t \in Threads, pc[t] # "idle", NEW o, NEW commit \in BOOLEAN,
         Leave(t, o, commit),
         o \in Broken \/ o.kind \in Answers,
         ~commit => o \in Broken
  PROVE  Leaves(t)
<1>1. PICK p : p = [pc EXCEPT ![t] = "idle"]
  OBVIOUS
<1>2. /\ p \in [Threads -> PcStates] /\ p[t] = "idle"
      /\ \A u \in Threads : u # t => p[u] = pc[u]
  BY <1>1 DEF RpcInv, ThreadsOk, PcStates
<1>3. pc' = IF commit THEN WakeLast(p, monitors') ELSE WakeAll(p)
  BY <1>1 DEF Leave
<1>4. \A u \in Threads : pc'[u] = "idle" <=> p[u] = "idle"
  BY <1>2, <1>3 DEF WakeLast, WakeAll
<1>5. /\ got' = [got EXCEPT ![t] = o] /\ UNCHANGED <<call, served>>
      /\ stop' => stop \/ ~commit
  BY DEF Leave, history
<1> QED
  BY <1>2, <1>4, <1>5 DEF Leaves

(***************************************************************************)
(* What a thread does with the header of an answer.                        *)
(***************************************************************************)
LEMMA ExamineEnds ==
  ASSUME RpcInv, RpcInv', EndInv, NEW t \in Threads, pc[t] # "idle", NEW m,
         Examine(t, m)
  PROVE  EndInv' /\ [Promise!Next]_(Promise!vars)
<1>1. CASE Own(t, m)
  <2>1. PICK r : r = Recv(call[t].method, m) /\ Leave(t, r.outcome, r.commit)
    BY <1>1 DEF Own
  <2>2. call[t].method \in Methods
    BY DEF RpcInv, ThreadsOk
  <2>3. /\ r.outcome \in Broken \/ r.outcome.kind \in Answers
        /\ ~r.commit => r.outcome \in Broken
    BY <2>1, <2>2, RecvOutcomes
  <2>4. r.commit \in BOOLEAN
    BY <2>1, <2>2 DEF Recv, RecvPing, RecvQuery, RecvDisable, RecvEnable, RecvVoid,
       Methods, Committed, Uncommitted
  <2> QED
    BY <2>1, <2>3, <2>4, SentryLeaves, LeavesEnds
<1>2. CASE AnotherThreads(t, m)
  <2>1. /\ UNCHANGED <<call, got, stop, served>>
        /\ \A u \in Threads : pc'[u] = "idle" <=> pc[u] = "idle"
    BY <1>2 DEF AnotherThreads, HandOver, history
  <2> QED
    BY <2>1, SameCalls, SameEnds
<1>3. CASE Nobodys(t, m)
  <2>1. PICK o \in Broken : Leave(t, o, FALSE)
    BY <1>3 DEF Nobodys, Broken
  <2> QED
    BY <2>1, SentryLeaves, LeavesEnds
<1>4. CASE ReadsOn(t, m)
  <2>1. /\ UNCHANGED <<call, got, stop, served>>
        /\ \A u \in Threads : pc'[u] = "idle" <=> pc[u] = "idle"
    BY <1>4 DEF ReadsOn, sync, history, RpcInv, ThreadsOk
  <2> QED
    BY <2>1, SameCalls, SameEnds
<1> QED
  BY <1>1, <1>2, <1>3, <1>4 DEF Examine

(***************************************************************************)
(* The steps of a thread between the beginning of its call and the end.    *)
(***************************************************************************)
LEMMA ThreadEnds ==
  ASSUME RpcInv, RpcInv', EndInv, NEW t \in Threads, ThreadStep(t)
  PROVE  EndInv' /\ [Promise!Next]_(Promise!vars)
<1>1. CASE Send(t) \/ Enter(t) \/ WaitAgain(t)
  <2>1. /\ UNCHANGED <<call, got, stop, served>>
        /\ \A u \in Threads : pc'[u] = "idle" <=> pc[u] = "idle"
    BY <1>1 DEF Send, Enter, WaitAgain, MayWork, sync, history, RpcInv, ThreadsOk
  <2> QED
    BY <2>1, SameCalls, SameEnds
<1>2. CASE SendFails(t)
  <2>1. /\ pc[t] = "sending" /\ UNCHANGED <<call, served>>
        /\ got' = [got EXCEPT ![t] = Failed("transport")]
        /\ pc' = WakeAll([pc EXCEPT ![t] = "idle"])
    BY <1>2 DEF SendFails, history
  <2>2. /\ pc'[t] = "idle"
        /\ \A u \in Threads : u # t => (pc'[u] = "idle" <=> pc[u] = "idle")
    BY <2>1 DEF WakeAll, RpcInv, ThreadsOk
  <2>3. Leaves(t)
    BY <2>1, <2>2 DEF Leaves, Broken
  <2> QED
    BY <2>3, LeavesEnds
<1>3. CASE TakePending(t)
  BY <1>3, ExamineEnds DEF TakePending, MayWork
<1>4. CASE ReadAnswer(t)
  BY <1>4, ExamineEnds DEF ReadAnswer
<1>5. CASE ClientDied(t) \/ ReadEnd(t)
  <2>1. pc[t] # "idle" /\ Leave(t, Failed("transport"), FALSE)
    BY <1>5 DEF ClientDied, ReadEnd
  <2>2. Failed("transport") \in Broken
    BY DEF Broken
  <2> QED
    BY <2>1, <2>2, SentryLeaves, LeavesEnds
<1> QED
  BY <1>1, <1>2, <1>3, <1>4, <1>5 DEF ThreadStep

(***************************************************************************)
(* A call begins under an id that is free, or is refused by a dead client. *)
(***************************************************************************)
LEMMA CallEnds ==
  ASSUME RpcInv, RpcInv', EndInv, NEW t \in Threads, Call(t)
  PROVE  EndInv' /\ [Promise!Next]_(Promise!vars)
<1>1. CASE DeadCall(t)
  <2>1. /\ stop /\ pc[t] = "idle" /\ UNCHANGED <<call, pc, stop, served>>
        /\ got' = [got EXCEPT ![t] = Failed("transport")]
    BY <1>1 DEF DeadCall, sync, history
  <2>2. /\ got'[t] = Failed("transport")
        /\ \A u \in Threads : u # t => got'[u] = got[u]
    BY <2>1 DEF RpcInv, ThreadsOk
  <2>3. Promise!Refuse(t)
    BY <2>1 DEF Promise!Refuse, EndInv, Broken
  <2>4. EndInv'
    BY <2>1, <2>2 DEF EndInv, Promise!UnderWay, Broken, Failed, Ended
  <2> QED
    BY <2>3, <2>4 DEF Promise!Next
<1>2. CASE ~DeadCall(t)
  <2>1. PICK method \in Methods, q \in Requests \cup {EmptyQuery} :
          /\ IF method = "query" THEN q \in Requests ELSE q = EmptyQuery
          /\ PlainCall(t, method, q) \/ ConcurrentCall(t, method, q)
    BY <1>2 DEF Call, PlainPing, PlainQuery, PlainDisable, PlainEnable, Ping, DoQuery,
       Disable, Enable, Methods
  <2>2. PICK seq : Begin(t, method, q, seq)
    BY <2>1 DEF PlainCall, ConcurrentCall
  <2>3. ~stop /\ ~stop'
    BY <2>1, <2>2 DEF PlainCall, ConcurrentCall, Begin, RpcInv, CallsInv
  <2>4. PICK i : i = calls + 1
    OBVIOUS
  <2>5. PICK a \in MayAsk : a.method = method /\ a.query = q
    <3>1. [method |-> method, query |-> q] \in MayAsk
      BY <2>1 DEF MayAsk
    <3> QED
      BY <3>1
  <2>6. /\ pc[t] = "idle" /\ pc'[t] = "sending" /\ UNCHANGED served
        /\ \A u \in Threads : u # t => pc'[u] = pc[u]
        /\ call' = [call EXCEPT ![t] = [id |-> i, method |-> method, query |-> q]]
        /\ got' = [got EXCEPT ![t] = Failed("none")]
    BY <2>2, <2>4 DEF Begin, history, RpcInv, ThreadsOk
  <2>7. /\ call'[t].id = i /\ got'[t] = Failed("none")
        /\ \A u \in Threads : u # t => call'[u] = call[u] /\ got'[u] = got[u]
    BY <2>6 DEF RpcInv, ThreadsOk
  <2>8. i \in CallIds
    <3>1. IsProgram(program)
      BY RpcAssumption DEF RpcInv, ThreadsOk
    <3>2. program.calls \in 0..MaxCalls
      BY <3>1 DEF IsProgram
    <3>3. calls \in 0..MaxCalls /\ calls < program.calls
      BY <2>2 DEF Begin, RpcInv, ThreadsOk
    <3> QED
      BY <2>4, <3>2, <3>3, SeqAssumption DEF CallIds
  <2>9. served[i] = None /\ \A u \in Threads : call[u].id # i
    <3>1. calls \in Nat /\ i > calls
      BY <2>4, SeqAssumption DEF RpcInv, ThreadsOk
    <3>2. \A u \in Threads : call[u].id \in Nat /\ call[u].id <= calls
      BY SeqAssumption DEF RpcInv, CallsInv, ThreadsOk
    <3> QED
      BY <2>8, <3>1, <3>2 DEF RpcInv, ServedInv
  <2>10. ~Promise!UnderWay(t)
    BY <2>6 DEF EndInv
  <2>11. Promise!Begin(t)
    BY <2>5, <2>6, <2>8, <2>9, <2>10 DEF Promise!Begin
  <2>12. \A u \in Threads : pc'[u] = "idle" <=> ~Promise!UnderWay(u)'
    BY <2>6, <2>7, <2>8 DEF EndInv, Promise!UnderWay
  <2> QED
    BY <2>3, <2>11, <2>12 DEF EndInv, Promise!Next
<1> QED
  BY <1>1, <1>2

(***************************************************************************)
(* The server executes the first call, as it was asked and not before.     *)
(***************************************************************************)
LEMMA ServedOnce ==
  ASSUME RpcInv, toServer # <<>>, NEW m, m = Head(toServer),
         NEW t \in Threads, CallOf(t, m), NEW query, NEW o, Served(m, query, o),
         [method |-> m.name, query |-> query, outcome |-> o] \in MayDo(call[t]),
         UNCHANGED <<call, got>>
  PROVE  [Promise!Next]_(Promise!vars)
<1>1. m \in Elements(toServer)
  BY TakeMessage DEF RpcInv, MailInv
<1>2. m \in Messages /\ CallOk(m)
  BY <1>1, MailHasMessages DEF Mail, RpcInv, MailInv
<1>3. call[t].id = m.id /\ m.id \in CallIds /\ served[m.id] = None
  BY <1>2 DEF CallOk, CallOf, Messages
<1>4. Promise!Execute(t)
  BY <1>3 DEF Promise!Execute, Served
<1> QED
  BY <1>4 DEF Promise!Next

LEMMA ProcessExecutes ==
  ASSUME RpcInv, process
  PROVE  [Promise!Next]_(Promise!vars)
<1>1. PICK m : m = Head(toServer)
  OBVIOUS
<1>2. toServer # <<>> /\ UNCHANGED <<call, got>>
  BY DEF process, process_ping, process_query, process_disable_s2i,
     process_enable_s2i, dispatchCall, Next1, ReplyTo, threads
<1>3. PICK t \in Threads : CallOf(t, m)
  BY <1>1, <1>2, FirstCall
<1>4. call[t].method = m.name
  BY <1>3 DEF CallOf
<1>5. CASE Served(m, EmptyQuery, Failed("app"))
  BY <1>1, <1>2, <1>3, <1>4, <1>5, ServedOnce DEF MayDo
<1>6. CASE Served(m, EmptyQuery, Returned(EmptyQuery)) /\ m.name # "query"
  BY <1>1, <1>2, <1>3, <1>4, <1>6, ServedOnce DEF MayDo
<1>7. CASE process_query
  <2>1. m.name = "query" /\ program \in Programs
    BY <1>1, <1>7 DEF process_query, Next1, RpcInv, ThreadsOk
  <2>2. PICK q \in Requests : q = call[t].query
    BY <1>3, <1>4, <2>1 DEF CallOf, Asks
  <2>3. ReadQueryArgs(m.fields) = Parsed(TRUE, q)
    BY <1>3, <2>1, <2>2, ArgsReadBack, RpcAssumption DEF CallOf
  <2>4. ReadQueryArgs(m.fields).value = q
    BY <2>3 DEF Parsed
  <2>5. PICK r \in {Success(Answer(q)), Exc(Refused)} :
          Served(m, q, IF "exc" \in r.isset THEN Thrown(r.exc) ELSE Returned(r.success))
    BY <1>1, <1>7, <2>4 DEF process_query
  <2>6. Served(m, q, Returned(Answer(q))) \/ Served(m, q, Thrown(Refused))
    BY <2>5 DEF Success, Exc
  <2> QED
    BY <1>1, <1>2, <1>3, <1>4, <2>1, <2>2, <2>6, ServedOnce DEF MayDo
<1> QED
  BY <1>1, <1>5, <1>6, <1>7 DEF process, process_ping, process_disable_s2i,
     process_enable_s2i, dispatchCall, Next1

(***************************************************************************)
(* Any number of threads may share a client, and numbers may roll over,    *)
(* messages be lost, answers misnamed and servers older: to each thread a  *)
(* call is one that the server executes at most once, as it was asked, and *)
(* that ends once, with what the execution made of it or with a failure.   *)
(***************************************************************************)
THEOREM CallsImplemented == Spec => ImplementsCalls
<1>1. Init => EndInv /\ Promise!Init
  BY SeqAssumption DEF Init, EndInv, NoCall, CallIds, Promise!UnderWay, Promise!Init
<1>2. RpcInv /\ RpcInv' /\ EndInv /\ [Next]_vars
        => EndInv' /\ [Promise!Next]_(Promise!vars)
  <2> SUFFICES ASSUME RpcInv, RpcInv', EndInv, [Next]_vars
               PROVE  EndInv' /\ [Promise!Next]_(Promise!vars)
    OBVIOUS
  <2>1. ASSUME NEW t \in Threads, Call(t)
        PROVE  EndInv' /\ [Promise!Next]_(Promise!vars)
    BY <2>1, CallEnds
  <2>2. ASSUME NEW t \in Threads, ThreadStep(t)
        PROVE  EndInv' /\ [Promise!Next]_(Promise!vars)
    BY <2>2, ThreadEnds
  <2>3. CASE process
    <3>1. UNCHANGED <<pc, call, got, stop>>
      BY <2>3 DEF process, process_ping, process_query, process_disable_s2i,
         process_enable_s2i, dispatchCall, ReplyTo, threads, sync
    <3> QED
      BY <2>3, <3>1, SameEnds, ProcessExecutes
  <2>4. CASE Misname \/ Close \/ UNCHANGED vars
    <3>1. UNCHANGED <<pc, call, got, stop, served>>
      BY <2>4 DEF Misname, ReplyTo, Close, vars, threads, sync, history
    <3> QED
      BY <3>1, SameEnds, SameCalls
  <2>5. CASE Reconnect
    <3>1. \A t \in Threads : pc[t] = "idle" /\ pc'[t] = "idle"
      BY <2>5 DEF Reconnect
    <3>2. EndInv'
      BY <2>5, <3>1, SeqAssumption
         DEF Reconnect, EndInv, NoCall, CallIds, Promise!UnderWay
    <3>3. Promise!Anew
      BY <2>5, <3>1 DEF Reconnect, EndInv, Promise!Anew
    <3> QED
      BY <3>2, <3>3 DEF Promise!Next
  <2> QED
    BY <2>1, <2>2, <2>3, <2>4, <2>5 DEF Next
<1> QED
  BY <1>1, <1>2, RpcInvHolds, PTL DEF Spec, ImplementsCalls, Promise!Spec
=============================================================================
