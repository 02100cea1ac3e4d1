----------------------------- MODULE FlowQueue -----------------------------
(***************************************************************************)
(* What a hardware queue with one write and one read port promises: at an  *)
(* edge the oldest word leaves if it is read, and a word that is written   *)
(* joins if there is room, the room of the word that leaves included.      *)
(***************************************************************************)
EXTENDS Integers, Sequences

CONSTANTS
  Capacity,
  Item,
  Initial  \* the contents after a reset

VARIABLE queue

Init == queue = Initial

Edge(item, write, read) ==
  LET leaves == read /\ queue # <<>>
      joins  == write /\ (leaves \/ Len(queue) < Capacity)
  IN  queue' = (IF leaves THEN Tail(queue) ELSE queue)
               \o (IF joins THEN <<item>> ELSE <<>>)

Next ==
  \/ \E item \in Item, write, read \in BOOLEAN : Edge(item, write, read)
  \/ queue' = Initial

Spec == Init /\ [][Next]_queue

=============================================================================
