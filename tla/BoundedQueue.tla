---------------------------- MODULE BoundedQueue ----------------------------
(***************************************************************************)
(* What a clocked queue promises: calls of a cycle are accepted against    *)
(* the contents at its beginning, and the edge removes what was popped     *)
(* from the front and appends what was pushed, in the order of the calls.  *)
(***************************************************************************)
EXTENDS Integers, Sequences

CONSTANTS
  Capacity,
  Item

VARIABLES
  queue,     \* the contents since the last edge
  accepted,  \* the items pushed in this cycle
  taken      \* how many items were popped in this cycle

queueVars == <<queue, accepted, taken>>

Init ==
  /\ queue = <<>> /\ accepted = <<>> /\ taken = 0

Push(item) ==
  /\ Len(queue) + Len(accepted) < Capacity
  /\ accepted' = Append(accepted, item)
  /\ UNCHANGED <<queue, taken>>

Pop ==
  /\ taken < Len(queue)
  /\ taken' = taken + 1
  /\ UNCHANGED <<queue, accepted>>

Edge ==
  /\ queue' = SubSeq(queue, taken + 1, Len(queue)) \o accepted
  /\ accepted' = <<>> /\ taken' = 0

Withdraw ==
  /\ accepted' = <<>> /\ taken' = 0
  /\ UNCHANGED queue

Empty ==
  /\ queue' = <<>> /\ accepted' = <<>> /\ taken' = 0

Next ==
  \/ \E item \in Item : Push(item)
  \/ Pop
  \/ Edge
  \/ Withdraw
  \/ Empty

Spec == Init /\ [][Next]_queueVars

=============================================================================
