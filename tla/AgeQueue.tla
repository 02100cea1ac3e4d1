------------------------------ MODULE AgeQueue ------------------------------
(***************************************************************************)
(* What a clocked buffer that keeps the age of its elements promises: one  *)
(* element joins at the young end in a cycle, any elements leave and any   *)
(* may get a new value, and nothing else is lost or overtaken.             *)
(***************************************************************************)
EXTENDS Integers, Sequences, FiniteSets

CONSTANTS
  Capacity,
  Item,
  Same  \* "no new value"

VARIABLES
  items,     \* the elements since the last edge, oldest first
  change,    \* their values after the next edge, Same to keep one
  leaving,   \* the positions of those that leave at the next edge
  incoming   \* the element that joins at the next edge, if any

ageVars == <<items, change, leaving, incoming>>

Unchanged == [k \in DOMAIN items |-> Same]

Init ==
  /\ items = <<>> /\ change = <<>>
  /\ leaving = {} /\ incoming = <<>>

(* A second arrival in a cycle takes the place of the first.               *)
Join(item) ==
  /\ Len(items) < Capacity
  /\ incoming' = <<item>>
  /\ UNCHANGED <<items, change, leaving>>

Stay ==
  /\ incoming' = <<>>
  /\ UNCHANGED <<items, change, leaving>>

Change(k, item) ==
  /\ change' = [change EXCEPT ![k] = item]
  /\ UNCHANGED <<items, leaving, incoming>>

Leave(k) ==
  /\ leaving' = leaving \cup {k}
  /\ UNCHANGED <<items, change, incoming>>

Remain(k) ==
  /\ leaving' = leaving \ {k}
  /\ UNCHANGED <<items, change, incoming>>

(* An element that stays has as many before it as stay, and the one that   *)
(* joins is the last.                                                      *)
Edge ==
  LET staying == DOMAIN items \ leaving
      place(k) == Cardinality({j \in staying : j <= k})
      value(k) == IF change[k] = Same THEN items[k] ELSE change[k]
  IN  /\ DOMAIN items' = 1 .. Cardinality(staying) + Len(incoming)
      /\ \A k \in staying : items'[place(k)] = value(k)
      /\ \A k \in DOMAIN incoming : items'[Cardinality(staying) + k] = incoming[k]
      /\ change' = [k \in DOMAIN items' |-> Same]
      /\ leaving' = {} /\ incoming' = <<>>

Withdraw ==
  /\ change' = Unchanged /\ leaving' = {} /\ incoming' = <<>>
  /\ UNCHANGED items

Empty ==
  /\ items' = <<>> /\ change' = <<>>
  /\ leaving' = {} /\ incoming' = <<>>

Next ==
  \/ \E item \in Item : Join(item)
  \/ Stay
  \/ \E k \in DOMAIN items, item \in Item : Change(k, item)
  \/ \E k \in DOMAIN items : Leave(k) \/ Remain(k)
  \/ Edge
  \/ Withdraw
  \/ Empty

Spec == Init /\ [][Next]_ageVars

=============================================================================
