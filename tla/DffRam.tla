------------------------------- MODULE DffRam -------------------------------
(***************************************************************************)
(* common_dffram_1a1w1r (main/verilog/common/mem/ram): a flip-flop per     *)
(* bit, one address for reading and writing.  A word is the set of its     *)
(* bits that are 1; with BIT_WRITE_ENABLE we has a bit for each of them,   *)
(* without it is all or none of them.                                      *)
(***************************************************************************)
EXTENDS Integers, FiniteSets

CONSTANTS
  RAM_DEPTH,
  RAM_BITS    \* RAM_WIDTH of them

Cells == 0 .. RAM_DEPTH - 1

VARIABLE dff   \* dff_q of every word

(* macro_decoder_onehot_bin                                                *)
OneHot(addr) == [i \in Cells |-> i = addr]

(* RAM_RESET_VALUE is zero unless a user says otherwise; none does.        *)
DffInit == dff = [i \in Cells |-> {}]

(* macro_reduction_or of the words masked by the decoded address           *)
Dout(addr) ==
  UNION {IF OneHot(addr)[i] THEN dff[i] ELSE {} : i \in Cells}

DffWe(i, addr, en, we) == IF en /\ OneHot(addr)[i] THEN we ELSE {}

DffEdge(addr, en, we, din) ==
  dff' = [i \in Cells |->
            LET mine == DffWe(i, addr, en, we)
            IN  (dff[i] \ mine) \cup (din \cap mine)]
=============================================================================
