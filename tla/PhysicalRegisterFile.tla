----------------------- MODULE PhysicalRegisterFile -----------------------
(***************************************************************************)
(* MEMU::Core::Issue::PhysicalRegisterFile (main/emulated/core_issue.hpp): *)
(* one pending write, applied at the edge; the last Set of a cycle stays.  *)
(* And the hardware it stands for: issue_prf (main/verilog/core/issue) on  *)
(* common_dffram_3a1w2r, with a write port A and the read ports B and C.   *)
(***************************************************************************)
EXTENDS Integers

CONSTANTS
  EMULATED_PRF_SIZE,
  Value, Zero          \* arch_t and its 0

PRFIndexes == 0 .. EMULATED_PRF_SIZE - 1

VARIABLES
  prfs,      \* prfs
  writing,   \* writing_index (-1: none) and writing_value
  slots      \* issue_prf: dff_q of every word

(* writing_value is not set before the first Set, nor looked at.           *)
PRFInit ==
  /\ prfs = [i \in PRFIndexes |-> Zero]
  /\ writing = [index |-> -1, value |-> Zero]

(* A copy drops the pending write.                                         *)
PRFCopy ==
  /\ writing' = [index |-> -1, value |-> Zero]
  /\ UNCHANGED prfs

Get(index) == prfs[index]

(* Mutant: the first Set of a cycle stays.                                 *)
SetFirst(index, value) ==
  /\ writing' = IF writing.index < 0 THEN [index |-> index, value |-> value] ELSE writing
  /\ UNCHANGED prfs

Set(index, value) ==
  /\ writing' = [index |-> index, value |-> value]
  /\ UNCHANGED prfs

PRFEval ==
  /\ prfs' = IF writing.index < 0 THEN prfs
             ELSE [prfs EXCEPT ![writing.index] = writing.value]
  /\ writing' = [writing EXCEPT !.index = -1]

-----------------------------------------------------------------------------
(* A word is the set of its bits; a reset register has none.               *)
PrfInit == slots = [i \in PRFIndexes |-> {}]

Doutb(addrb) == UNION {IF i = addrb THEN slots[i] ELSE {} : i \in DOMAIN slots}
Doutc(addrc) == UNION {IF i = addrc THEN slots[i] ELSE {} : i \in DOMAIN slots}

(* ena is 1.                                                               *)
PrfEdge(addra, wea, dina) ==
  slots' = [i \in DOMAIN slots |-> IF wea /\ i = addra THEN dina ELSE slots[i]]
=============================================================================
