----------------------------- MODULE PseudoLru -----------------------------
(***************************************************************************)
(* PseudoLRUPick and PseudoLRUSwap (main/emulated/common/lru.hpp) beside   *)
(* the hardware trees, as the differential tests drive them: a call sets a *)
(* wire, Eval comes with the clock edge.  Where the hardware walks its     *)
(* tree, PseudoLRUPick keeps all subjects in the order they are to be      *)
(* picked in, and SetValid moves an index into it towards the front.       *)
(***************************************************************************)
EXTENDS PseudoLruTree

VARIABLES
  bits,      \* the registers of the hardware, of pick and swap alike
  dvalid,    \* the subjects that are valid in this cycle
  lru_bits,  \* of PseudoLRUPick and PseudoLRUSwap alike
  lru_update_index,
  lru_picked_index,     \* of PseudoLRUSwap
  lru_sub,              \* of PseudoLRUPick
  lru_sub_picked_index

vars == <<bits, dvalid, lru_bits, lru_update_index, lru_picked_index,
          lru_sub, lru_sub_picked_index>>

-----------------------------------------------------------------------------
(* PseudoLRUSwap::Eval and PseudoLRUPick::Eval: on the path to index every *)
(* bit gets the opposite of the bit of index at its level.                 *)
Updated(index) ==
  IF index < 0 THEN lru_bits
  ELSE LET level(i) == TwoTo[SubjectCountLog2 - i - 1] - 1 + index \div TwoTo[i + 1]
           Path == {level(i) : i \in 0 .. SubjectCountLog2 - 1}
       IN  [n \in Nodes |->
             IF n \in Path
             THEN \E i \in 0 .. SubjectCountLog2 - 1 :
                    n = level(i) /\ (index \div TwoTo[i]) % 2 = 0
             ELSE lru_bits[n]]

(* The walk of PseudoLRUSwap::Eval from the root along the bits.           *)
Walked(b) ==
  LET picked[i \in 0 .. SubjectCountLog2] ==
        IF i = 0 THEN 0
        ELSE TwoTo[i] - 1 + 2 * (picked[i - 1] - (TwoTo[i - 1] - 1))
             + (IF b[picked[i - 1]] THEN 1 ELSE 0)
  IN  picked[SubjectCountLog2] - (P_COUNT - 1)

(* Mutant: the pair of a node is put in by address.                        *)
OrderedByAddress(b) == [k \in Subjects |-> k]

(* lru_sub after PseudoLRUPick::Eval: level by level, the pair below a     *)
(* node in the order its bit says.                                         *)
Ordered(b) ==
  LET order[i \in 0 .. SubjectCountLog2] ==
        IF i = 0 THEN [k \in {0} |-> 0]
        ELSE [k \in 0 .. TwoTo[i] - 1 |->
               LET s == order[i - 1][k \div 2]
               IN  2 * s + (IF (k % 2 = 1) # b[TwoTo[i - 1] - 1 + s] THEN 1 ELSE 0)]
  IN  order[SubjectCountLog2]

Init ==
  /\ bits = ResetBits /\ dvalid = {}
  /\ lru_bits = ResetBits /\ lru_update_index = -1
  /\ lru_picked_index = Walked(ResetBits)
  /\ lru_sub = Ordered(ResetBits)
  /\ lru_sub_picked_index = P_COUNT

Update(index) ==
  /\ lru_update_index' = index
  /\ UNCHANGED <<bits, dvalid, lru_bits, lru_picked_index, lru_sub, lru_sub_picked_index>>

ResetUpdate == Update(-1)

(* The index moves to a subject that stands before it.                     *)
SetValid(index) ==
  /\ dvalid' = dvalid \cup {index}
  /\ lru_sub_picked_index' =
       IF \E i \in 0 .. lru_sub_picked_index - 1 : lru_sub[i] = index
       THEN CHOOSE i \in Subjects : lru_sub[i] = index
       ELSE lru_sub_picked_index
  /\ UNCHANGED <<bits, lru_bits, lru_update_index, lru_picked_index, lru_sub>>

ResetValid ==
  /\ dvalid' = {}
  /\ lru_sub_picked_index' = P_COUNT
  /\ UNCHANGED <<bits, lru_bits, lru_update_index, lru_picked_index, lru_sub>>

(* Eval of both classes and the clock edge; the inputs of a cycle are gone *)
(* after it.                                                               *)
Eval ==
  /\ bits' = BitsNext(bits, IF lru_update_index < 0 THEN {} ELSE {lru_update_index})
  /\ lru_bits' = Updated(lru_update_index)
  /\ lru_update_index' = -1
  /\ lru_picked_index' = Walked(lru_bits')
  /\ lru_sub' = Ordered(lru_bits')
  /\ dvalid' = {}
  /\ lru_sub_picked_index' = P_COUNT

Next ==
  \/ \E index \in Subjects : Update(index) \/ SetValid(index)
  \/ ResetUpdate
  \/ ResetValid
  \/ Eval

Spec == Init /\ [][Next]_vars

-----------------------------------------------------------------------------
GetPicked == IF lru_sub_picked_index < P_COUNT THEN lru_sub[lru_sub_picked_index] ELSE 0
IsPicked(index) == lru_sub_picked_index < P_COUNT /\ lru_sub[lru_sub_picked_index] = index

(* The subject PseudoLRUPick picks from its order is the one the tree of   *)
(* the hardware selects, and nothing is picked when nothing is valid; the  *)
(* order holds every subject once; PseudoLRUSwap and the tree of swap      *)
(* agree too.                                                              *)
PicksAgree ==
  /\ \A i \in Subjects : \E k \in Subjects : lru_sub[k] = i
  /\ Pick(bits, dvalid) = {i \in Subjects : IsPicked(i)}
  /\ dvalid # {} => GetPicked \in dvalid
  /\ Swap(bits) = {lru_picked_index}

(* Pseudo LRU: after the edge that records the use of a subject, pick      *)
(* chooses it again only if no other subject is valid, and swap does not.  *)
LastUsedIsLastPicked ==
  [][lru_update_index >= 0 /\ Eval =>
       /\ \A valid \in SUBSET Subjects :
            lru_update_index \in Pick(bits', valid) => valid = {lru_update_index}
       /\ lru_update_index \notin Swap(bits')]_vars

=============================================================================
