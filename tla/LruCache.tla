------------------------------ MODULE LruCache ------------------------------
(***************************************************************************)
(* What a cache that forgets the least recently used entry promises: a set *)
(* of at most MaxEntries entries in the order of their last use, the most  *)
(* recent one first.                                                       *)
(***************************************************************************)
EXTENDS Integers, Sequences, SequencesExt

CONSTANT MaxEntries

VARIABLES
  order,    \* the keys, most recently used first
  entries   \* the entries, a function on those keys

Init == order = <<>> /\ entries = <<>>

(* r lists the keys of q that are not in gone, in the order of q.           *)
Before(q, x, y) == \E i, j \in DOMAIN q : i < j /\ q[i] = x /\ q[j] = y
Keeps(r, q, gone) ==
  /\ ToSet(r) = ToSet(q) \ gone
  /\ \A i, j \in DOMAIN r : i < j => Before(q, r[i], r[j])

(* An entry of q is used, which makes it the first one of r.               *)
Use(q, r) ==
  /\ r # <<>> /\ Head(r) \in ToSet(q) /\ Keeps(Tail(r), q, {Head(r)})
  /\ UNCHANGED entries

(* An entry is put in, as the first one of r; if there is no room the one   *)
(* that was not used for the longest time goes, and no other.               *)
Insert(q, r) ==
  /\ r # <<>>
  /\ Keeps(Tail(r), q, {Head(r)} \cup IF Len(q) < MaxEntries THEN {} ELSE {Last(q)})
  /\ DOMAIN entries' = ToSet(r)
  /\ \A x \in ToSet(Tail(r)) : entries'[x] = entries[x]

(* Entries are thrown away; the others keep their order.                    *)
Drop(q, r) ==
  /\ Keeps(r, q, ToSet(q) \ ToSet(r))
  /\ entries' = [k \in ToSet(r) |-> entries[k]]

(* q is the order before the step, r the order after it.                   *)
Next ==
  \E q \in {order}, r \in {order'} : Drop(q, r) \/ Use(q, r) \/ Insert(q, r)

Spec == Init /\ [][Next]_<<order, entries>>
=============================================================================
