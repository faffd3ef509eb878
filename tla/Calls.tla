------------------------------- MODULE Calls --------------------------------
(***************************************************************************)
(* What the stubs promise a client program: a call is a call.  A call that *)
(* a thread begins is executed at most once, as it was asked, and ends for *)
(* that thread, once, with what the execution made of it or with a failure *)
(* of the connection.  A failure leaves open whether it was executed.      *)
(*                                                                         *)
(* Nothing of the implementation is visible here: no message, no sequence  *)
(* id, no thread that reads for another.  Module Rpc states that both      *)
(* generated clients, with the generated processor, implement this.        *)
(***************************************************************************)

CONSTANTS
  Threads,   (* the callers                                                *)
  Ids,       (* names of the calls of a connection                         *)
  None,      (* not executed                                               *)
  NoCall,    (* the call of a thread that has made none                    *)
  NotYet,    (* the outcome of a call that has not ended                   *)
  Failures,  (* the outcomes that say nothing of the execution             *)
  Asked,     (* what may be asked: methods with their arguments            *)
  MayDo(_)   (* the executions that a call may have                        *)

VARIABLES
  call,      (* each thread's latest call                                  *)
  got,       (* how it ended                                               *)
  served     (* the executions: a function on Ids                          *)

vars == <<call, got, served>>

UnderWay(t) == call[t].id \in Ids /\ got[t] = NotYet

Init ==
  /\ call = [t \in Threads |-> NoCall]
  /\ got = [t \in Threads |-> NotYet]
  /\ served = [i \in Ids |-> None]

Begin(t) ==
  /\ ~UnderWay(t)
  /\ \E i \in Ids, a \in Asked :
       /\ served[i] = None /\ \A u \in Threads : call[u].id # i
       /\ call' = [call EXCEPT ![t] =
                     [id |-> i, method |-> a.method, query |-> a.query]]
  /\ got' = [got EXCEPT ![t] = NotYet]
  /\ UNCHANGED served

(***************************************************************************)
(* The server may come to a call after its caller was told of a failure.   *)
(***************************************************************************)
Execute(t) ==
  /\ call[t].id \in Ids
  /\ served[call[t].id] = None
  /\ \E s \in MayDo(call[t]) : served' = [served EXCEPT ![call[t].id] = s]
  /\ UNCHANGED <<call, got>>

End(t) ==
  /\ UnderWay(t)
  /\ served[call[t].id] # None
  /\ got' = [got EXCEPT ![t] = served[call[t].id].outcome]
  /\ UNCHANGED <<call, served>>

Fail(t) ==
  /\ UnderWay(t)
  /\ \E o \in Failures : got' = [got EXCEPT ![t] = o]
  /\ UNCHANGED <<call, served>>

(***************************************************************************)
(* Where a call has failed, another may fail before it is sent.            *)
(***************************************************************************)
Refuse(t) ==
  /\ ~UnderWay(t)
  /\ \E u \in Threads : got[u] \in Failures
  /\ \E o \in Failures : got' = [got EXCEPT ![t] = o]
  /\ UNCHANGED <<call, served>>

(***************************************************************************)
(* Another connection.                                                     *)
(***************************************************************************)
Anew ==
  /\ \A t \in Threads : ~UnderWay(t)
  /\ call' = [t \in Threads |-> NoCall]
  /\ got' = [t \in Threads |-> NotYet]
  /\ served' = [i \in Ids |-> None]

Next ==
  \/ \E t \in Threads : Begin(t) \/ Execute(t) \/ End(t) \/ Fail(t)
                       \/ Refuse(t)
  \/ Anew

Spec == Init /\ [][Next]_vars
=============================================================================
