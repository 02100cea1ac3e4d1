--------------------------- MODULE PseudoLruTree ---------------------------
(***************************************************************************)
(* common_pseudo_lru_pick_onehot and common_pseudo_lru_swap_onehot         *)
(* (main/verilog/common/lru): a binary tree with a subject at every leaf   *)
(* and a register at every other node, which says whether the node's       *)
(* second half is the one that was used longer ago.  Both keep the same    *)
(* registers; pick takes the subjects that may be chosen into account.     *)
(***************************************************************************)
EXTENDS Integers

CONSTANT SubjectCountLog2  \* SUBJECT_COUNT_LOG2

ASSUME SubjectAssumption == SubjectCountLog2 \in Nat \ {0}

(* 1 << k.                                                                 *)
TwoTo[k \in 0 .. SubjectCountLog2] == IF k = 0 THEN 1 ELSE 2 * TwoTo[k - 1]

P_COUNT == TwoTo[SubjectCountLog2]

Subjects == 0 .. P_COUNT - 1
Nodes    == 0 .. P_COUNT - 2
Tree     == 0 .. 2 * P_COUNT - 2

Leaf(i) == P_COUNT - 1 + i
A(n) == 2 * n + 1
B(n) == 2 * n + 2
Parent(n) == (n - 1) \div 2

ResetBits == [n \in Nodes |-> FALSE]

(* d_tree_c, d_tree_valid: the subjects below a node.                      *)
Below[n \in Tree] ==
  IF n \in Nodes THEN Below[A(n)] \cup Below[B(n)]
  ELSE {n - (P_COUNT - 1)}

(* dff_d of every unit, used being the one-hot waddr under wen.            *)
BitsNext(bits, used) ==
  [n \in Nodes |-> IF used \cap Below[n] = {} THEN bits[n]
                   ELSE used \cap Below[A(n)] # {}]

(* qsela and qselb without dsel: does the parent of n choose n?            *)
Selects(bits, valid, n) ==
  LET a == valid \cap Below[A(Parent(n))] # {}
      b == valid \cap Below[B(Parent(n))] # {}
  IN  /\ a \/ b
      /\ IF a # b THEN valid \cap Below[n] # {}
         ELSE (n = B(Parent(n))) = bits[Parent(n)]

(* qaddr of pick: the subjects that every node above them selects.         *)
Pick(bits, valid) ==
  LET sel[n \in Tree] == n = 0 \/ (Selects(bits, valid, n) /\ sel[Parent(n)])
  IN  {i \in Subjects : sel[Leaf(i)]}

(* qaddr of swap.                                                          *)
Swap(bits) ==
  LET sel[n \in Tree] ==
        n = 0 \/ ((n = B(Parent(n))) = bits[Parent(n)] /\ sel[Parent(n)])
  IN  {i \in Subjects : sel[Leaf(i)]}

=============================================================================
