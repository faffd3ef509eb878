------------------------------- MODULE Ledger -------------------------------
(***************************************************************************)
(* What numerator promises the programs that use it: a ledger of numbered  *)
(* strings.  An entry, once made, is never changed and never removed, and  *)
(* a client is told only pairs that the ledger holds.  When Unique is TRUE *)
(* no string is entered twice.                                             *)
(*                                                                         *)
(* Nothing of the implementation is visible here: no memory index, no      *)
(* mutex, no batch, no restart.  Module Numerator states that the server   *)
(* implements this specification.                                          *)
(***************************************************************************)

CONSTANTS
  Strings,   (* the values a client may number                             *)
  NumID,     (* the ids                                                    *)
  None,      (* the value of an id that has no entry                       *)
  Key,       (* what makes two strings the same string to the service      *)
  Unique     (* TRUE: at most one entry for each key                       *)

VARIABLES
  book,      (* the entries: a function on NumID                           *)
  told       (* the <<string, id>> pairs that clients have been answered   *)

vars == <<book, told>>

(***************************************************************************)
(* The pairs that the entries of b justify.                                *)
(***************************************************************************)
Justified(b) ==
  {p \in Strings \X NumID : b[p[2]] # None /\ Key[b[p[2]]] = Key[p[1]]}

OneEntryPerKey(b) ==
  \A m, n \in NumID :
    b[m] # None /\ b[n] # None /\ Key[b[m]] = Key[b[n]] => m = n

Init ==
  /\ book \in [NumID -> Strings \cup {None}]
  /\ Unique => OneEntryPerKey(book)
  /\ told = {}

(***************************************************************************)
(* New entries under free ids; those already made stay as they are.        *)
(***************************************************************************)
Extend ==
  /\ book' \in [NumID -> Strings \cup {None}]
  /\ \A n \in NumID : book[n] # None => book'[n] = book[n]
  /\ Unique => OneEntryPerKey(book')
  /\ UNCHANGED told

(***************************************************************************)
(* An answer adds justified pairs, and the ledger is left alone.           *)
(***************************************************************************)
Tell ==
  /\ told \subseteq told'
  /\ told' \subseteq told \cup Justified(book)
  /\ UNCHANGED book

Next == Extend \/ Tell

Spec == Init /\ [][Next]_vars
=============================================================================
