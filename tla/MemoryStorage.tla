---------------------------- MODULE MemoryStorage ----------------------------
(***************************************************************************)
(* memory_storage.cpp step by step: find and insert go through a pointer   *)
(* into the JudySL array, and through the member value, which all calls    *)
(* share.  The server calls find under its mutex, insert from enable_s2i   *)
(* and unload from disable_s2i without it.                                 *)
(*                                                                         *)
(* Judy is external.  Each of its calls is one step here; an insertion may *)
(* move the words of other keys and JSLFA frees all of them, after which a *)
(* pointer to such a word dangles.                                         *)
(***************************************************************************)
EXTENDS Integers, Sequences

CONSTANTS
  Threads,
  Strings,
  CStr(_),       (* what c_str() shows of a string                         *)
  LoadIds,       (* ids that insert is given                               *)
  FirstId,       (* the counter before the first call                      *)
  MaxFinds,      (* bound on the ids that find makes                       *)
  NULL, Dangling, Absent, NoCall

Keys == {CStr(s) : s \in Strings}

ASSUME MemoryAssumption ==
  /\ LoadIds \subseteq Int /\ FirstId \in Int /\ MaxFinds \in Nat
  /\ NULL \notin Keys /\ Dangling \notin Keys /\ NULL # Dangling
  /\ Absent \notin Int /\ Strings # {}

VARIABLES
  data,          (* the array: a word for each key, Absent if there is none *)
  value,         (* the member: a pointer, named by the key it points to   *)
  counter,       (* cnt of numerator.cpp                                   *)
  pc, op, key,   (* of each thread: where it is, in find or insert, of what *)
  rv, id,        (* its locals                                             *)
  returned,      (* history: the call that returned last, and what         *)
  made,          (* history: the thread's call has made the word of its key *)
  given,         (* history: the ids find returned as new                  *)
  overlapped     (* history: two calls were under way at once              *)

vars == <<data, value, counter, pc, op, key, rv, id, returned, made, given,
          overlapped>>

Returned(k, inserted, n) == [key |-> k, inserted |-> inserted, id |-> n]

AnyKey == CHOOSE k \in Keys : TRUE

Pointers == Keys \cup {NULL, Dangling}

TypeOK ==
  /\ data \in [Keys -> Int \cup {Absent}]
  /\ value \in Pointers
  /\ counter \in Int
  /\ pc \in [Threads -> {"idle", "called", "found", "missing", "inserted",
                         "pointed", "counted"}]
  /\ op \in [Threads -> {"find", "insert"}]
  /\ key \in [Threads -> Keys]
  /\ rv \in [Threads -> Pointers]
  /\ id \in [Threads -> Int]
  /\ returned \in {NoCall} \cup [key : Keys, inserted : BOOLEAN, id : Int]
  /\ made \in [Threads -> BOOLEAN]
  /\ given \in Seq(Int)
  /\ overlapped \in BOOLEAN

Init ==
  /\ data = [k \in Keys |-> Absent]
  /\ value = NULL
  /\ counter = FirstId
  /\ pc = [t \in Threads |-> "idle"]
  /\ op = [t \in Threads |-> "find"]
  /\ key = [t \in Threads |-> AnyKey]
  /\ rv = [t \in Threads |-> NULL]
  /\ id = [t \in Threads |-> 0]
  /\ returned = NoCall
  /\ made = [t \in Threads |-> FALSE]
  /\ given = <<>>
  /\ overlapped = FALSE

-----------------------------------------------------------------------------

Others(t) == {u \in Threads \ {t} : pc[u] # "idle"}

Finders == {u \in Threads : pc[u] # "idle" /\ op[u] = "find"}

Call(t, what, s) ==
  /\ pc[t] = "idle"
  /\ pc' = [pc EXCEPT ![t] = "called"]
  /\ op' = [op EXCEPT ![t] = what]
  /\ key' = [key EXCEPT ![t] = CStr(s)]
  /\ overlapped' = (overlapped \/ Others(t) # {})
  /\ UNCHANGED <<data, value, counter, rv, returned, made, given>>

(***************************************************************************)
(* The caller holds the mutex.  Bound: MaxFinds ids.                       *)
(***************************************************************************)
CallFind(t, s) ==
  /\ Finders = {}
  /\ Len(given) < MaxFinds
  /\ Call(t, "find", s)
  /\ id' = [id EXCEPT ![t] = 0]

CallInsert(t, s, n) ==
  /\ Call(t, "insert", s)
  /\ id' = [id EXCEPT ![t] = n]

GetUnchecked(t) ==
  /\ pc[t] = "called"
  /\ rv' = [rv EXCEPT ![t] = key[t]]
  /\ pc' = [pc EXCEPT ![t] = "found"]
  /\ UNCHANGED <<data, value, counter, op, key, id, returned, made, given,
                 overlapped>>

(***************************************************************************)
(* JudySLGet.                                                              *)
(***************************************************************************)
Get(t) ==
  /\ pc[t] = "called"
  /\ IF data[key[t]] # Absent
     THEN /\ rv' = [rv EXCEPT ![t] = key[t]]
          /\ pc' = [pc EXCEPT ![t] = "found"]
     ELSE /\ rv' = [rv EXCEPT ![t] = NULL]
          /\ pc' = [pc EXCEPT ![t] = "missing"]
  /\ UNCHANGED <<data, value, counter, op, key, id, returned, made, given,
                 overlapped>>

(***************************************************************************)
(* The call ends and its locals are gone.                                  *)
(***************************************************************************)
Return(t) ==
  /\ pc' = [pc EXCEPT ![t] = "idle"]
  /\ op' = [op EXCEPT ![t] = "find"]
  /\ key' = [key EXCEPT ![t] = AnyKey]
  /\ rv' = [rv EXCEPT ![t] = NULL]
  /\ id' = [id EXCEPT ![t] = 0]
  /\ made' = [made EXCEPT ![t] = FALSE]

(***************************************************************************)
(* A call of Judy fails: the exception leaves find or insert.              *)
(***************************************************************************)
Throw(t) ==
  /\ pc[t] \in {"called", "missing"}
  /\ Return(t)
  /\ UNCHANGED <<data, value, counter, returned, given, overlapped>>

(***************************************************************************)
(* find: *rv is the id.  A dangling pointer shows anything.                *)
(***************************************************************************)
ReadId(t) ==
  /\ pc[t] = "found" /\ op[t] = "find"
  /\ \E n \in IF rv[t] \in Keys THEN {data[rv[t]]} ELSE LoadIds :
       returned' = Returned(key[t], FALSE, n)
  /\ Return(t)
  /\ UNCHANGED <<data, value, counter, given, overlapped>>

Moved(p, moved) == IF p \in moved THEN Dangling ELSE p

(***************************************************************************)
(* JudySLIns: the word of a new key is 0.                                  *)
(***************************************************************************)
Ins(t) ==
  /\ pc[t] = "missing"
  /\ data' = [data EXCEPT ![key[t]] = IF @ = Absent THEN 0 ELSE @]
  /\ made' = [made EXCEPT ![t] = TRUE]
  /\ \E moved \in SUBSET (IF data[key[t]] = Absent THEN Keys \ {key[t]} ELSE {}) :
       /\ rv' = [u \in Threads |-> IF u = t THEN key[t] ELSE Moved(rv[u], moved)]
       /\ value' = Moved(value, moved)
  /\ pc' = [pc EXCEPT ![t] = "inserted"]
  /\ UNCHANGED <<counter, op, key, id, returned, given, overlapped>>

PointFindOnly(t) ==
  /\ pc[t] = "inserted" \/ (pc[t] = "found" /\ op[t] = "insert")
  /\ value' = IF pc[t] = "inserted" THEN rv[t] ELSE value
  /\ pc' = [pc EXCEPT ![t] = "pointed"]
  /\ UNCHANGED <<data, counter, op, key, rv, id, returned, made, given, overlapped>>

(***************************************************************************)
(* value = rv.                                                             *)
(***************************************************************************)
Point(t) ==
  /\ pc[t] = "inserted" \/ (pc[t] = "found" /\ op[t] = "insert")
  /\ value' = rv[t]
  /\ pc' = [pc EXCEPT ![t] = "pointed"]
  /\ UNCHANGED <<data, counter, op, key, rv, id, returned, made, given, overlapped>>

CountStays(t) ==
  /\ pc[t] = "pointed" /\ op[t] = "find"
  /\ id' = [id EXCEPT ![t] = counter]
  /\ pc' = [pc EXCEPT ![t] = "counted"]
  /\ UNCHANGED <<data, value, counter, op, key, rv, returned, made, given,
                 overlapped>>

(***************************************************************************)
(* find: id = counter++.                                                   *)
(***************************************************************************)
Count(t) ==
  /\ pc[t] = "pointed" /\ op[t] = "find"
  /\ id' = [id EXCEPT ![t] = counter]
  /\ counter' = counter + 1
  /\ pc' = [pc EXCEPT ![t] = "counted"]
  /\ UNCHANGED <<data, value, op, key, rv, returned, made, given, overlapped>>

(***************************************************************************)
(* *value = id, and the call returns.  Through a dangling pointer the id   *)
(* goes to memory that is free, or was given to another word since.        *)
(***************************************************************************)
Store(t) ==
  /\ pc[t] = "counted" \/ (pc[t] = "pointed" /\ op[t] = "insert")
  /\ IF value \in Keys
     THEN data' = [data EXCEPT ![value] = id[t]]
     ELSE \/ UNCHANGED data
          \/ \E k \in Keys : /\ data[k] # Absent
                             /\ data' = [data EXCEPT ![k] = id[t]]
  /\ returned' = Returned(key[t], op[t] = "find", id[t])
  /\ given' = IF op[t] = "find" THEN Append(given, id[t]) ELSE given
  /\ Return(t)
  /\ UNCHANGED <<value, counter, overlapped>>

(***************************************************************************)
(* unload: JSLFA, data = NULL.                                             *)
(***************************************************************************)
Unload(t) ==
  /\ pc[t] = "idle"
  /\ data' = [k \in Keys |-> Absent]
  /\ value' = Moved(value, Keys)
  /\ rv' = [u \in Threads |-> Moved(rv[u], Keys)]
  /\ overlapped' = (overlapped \/ Others(t) # {})
  /\ UNCHANGED <<counter, pc, op, key, id, returned, made, given>>

-----------------------------------------------------------------------------

Next ==
  \E t \in Threads :
    \/ \E s \in Strings : CallFind(t, s) \/ \E n \in LoadIds : CallInsert(t, s, n)
    \/ Get(t) \/ Throw(t) \/ ReadId(t) \/ Ins(t) \/ Point(t) \/ Count(t)
    \/ Store(t) \/ Unload(t)

Spec == Init /\ [][Next]_vars

-----------------------------------------------------------------------------
(***************************************************************************)
(* Properties.                                                             *)
(***************************************************************************)

(***************************************************************************)
(* find gives every new string an id of its own, whatever loads and        *)
(* unloads run beside it and whatever they do to the array.                *)
(***************************************************************************)
FreshIds ==
  \A i, j \in DOMAIN given : given[i] = given[j] => i = j

(***************************************************************************)
(* As long as the calls take turns, find and insert are one step each of a *)
(* map, on every path, failed allocations included: a word that is being   *)
(* made is not seen, the counter has counted what was stored.  Once they   *)
(* have met, the map may say anything, but find still gives the ids of the *)
(* counter, one after the other, and says of each that it is new.          *)
(* (insert returns nothing; Returned(_, FALSE, _) says what it was given.) *)
(***************************************************************************)
Hidden == {key[t] : t \in {u \in Threads : made[u]}}

Atomic ==
  INSTANCE Index WITH
    ids     <- [k \in Keys |-> IF k \in Hidden THEN Absent ELSE data[k]],
    counter <- IF \E t \in Threads : pc[t] = "counted" THEN counter - 1
               ELSE counter,
    broken  <- overlapped

ImplementsIndex == Atomic!Spec

(***************************************************************************)
(* The invariant of the proofs.  Pointing: what does not dangle points to  *)
(* a word.  Numbering: find is alone in find, and the counter has run      *)
(* through the ids it gave.  Turns: while calls take turns, pointers point *)
(* where the caller thinks.                                                *)
(***************************************************************************)
Pointing ==
  /\ value \in Keys => data[value] # Absent
  /\ \A t \in Threads : rv[t] \in Keys => data[rv[t]] # Absent

Numbering ==
  /\ \A t, u \in Finders : t = u
  /\ \A t \in Threads :
       pc[t] = "counted" => op[t] = "find" /\ id[t] = FirstId + Len(given)
  /\ counter = FirstId + Len(given)
                 + (IF \E t \in Threads : pc[t] = "counted" THEN 1 ELSE 0)
  /\ \A i \in DOMAIN given : given[i] = FirstId + i - 1

Working == {t \in Threads : pc[t] # "idle"}

HasWord(t) == data[key[t]] # Absent

InPlace(t) ==
  /\ made[t] => pc[t] \in {"inserted", "pointed", "counted"}
  /\ op[t] = "insert" => id[t] \in LoadIds
  /\ pc[t] = "found" => rv[t] = key[t] /\ HasWord(t)
  /\ pc[t] = "missing" => ~HasWord(t)
  /\ pc[t] = "inserted" => made[t] /\ rv[t] = key[t] /\ HasWord(t)
  /\ pc[t] \in {"pointed", "counted"} => value = key[t] /\ HasWord(t)
  /\ pc[t] \in {"pointed", "counted"} /\ op[t] = "find" => made[t]

Turns ==
  ~overlapped => /\ \A t, u \in Working : t = u
                 /\ \A t \in Threads : InPlace(t)

IndInv == TypeOK /\ Pointing /\ Numbering /\ Turns
=============================================================================
