-------------------------------- MODULE Index --------------------------------
(***************************************************************************)
(* What the memory storage promises to callers that take turns: a map from *)
(* keys to ids that changes in one step a call.  Callers that do not may   *)
(* leave anything in the map, which broken says; what is left to them is   *)
(* that a new id is the counter's and moves it on, and nothing else does.  *)
(***************************************************************************)
EXTENDS Integers

CONSTANTS
  Keys,          (* strings as c_str() shows them                          *)
  FirstId,       (* the counter before the first call                      *)
  LoadIds,       (* ids that are inserted                                  *)
  Absent,        (* the id of a key that is not there                      *)
  NoCall

VARIABLES
  ids,           (* the map                                                *)
  counter,       (* the caller's counter, which find advances              *)
  returned,      (* the call that returned last, and what it returned      *)
  broken

vars == <<ids, counter, returned, broken>>

(***************************************************************************)
(* A call about key, whether it has inserted a new id, and the id.         *)
(***************************************************************************)
Call(key, inserted, id) == [key |-> key, inserted |-> inserted, id |-> id]

Init ==
  /\ ids = [k \in Keys |-> Absent]
  /\ counter = FirstId
  /\ returned = NoCall
  /\ broken = FALSE

FindKnown(k) ==
  /\ ids[k] # Absent
  /\ returned' = Call(k, FALSE, ids[k])
  /\ UNCHANGED <<ids, counter>>

FindNew(k) ==
  /\ ids[k] = Absent
  /\ ids' = [ids EXCEPT ![k] = counter]
  /\ counter' = counter + 1
  /\ returned' = Call(k, TRUE, counter)

Insert(k) ==
  /\ \E n \in LoadIds :
       /\ ids' = [ids EXCEPT ![k] = n]
       /\ returned' = Call(k, FALSE, n)
  /\ UNCHANGED counter

Unload ==
  /\ ids' = [k \in Keys |-> Absent]
  /\ UNCHANGED <<counter, returned>>

(***************************************************************************)
(* Calls have met: a known id is any, a new one still the next.            *)
(***************************************************************************)
Torn ==
  /\ broken'
  /\ \/ UNCHANGED <<counter, returned>>
     \/ \E k \in Keys : /\ returned' = Call(k, FALSE, returned'.id)
                        /\ UNCHANGED counter
     \/ \E k \in Keys : /\ returned' = Call(k, TRUE, counter)
                        /\ counter' = counter + 1

Next ==
  \/ Torn
  \/ /\ ~broken /\ UNCHANGED broken
     /\ \/ \E k \in Keys : FindKnown(k) \/ FindNew(k) \/ Insert(k)
        \/ Unload

Spec == Init /\ [][Next]_vars
=============================================================================
