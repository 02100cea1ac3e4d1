---------------------------- MODULE BypassBuffer ----------------------------
(***************************************************************************)
(* common_bypass_buffer (main/verilog/common/buffer), one at every port: a *)
(* pipeline stage that lets data through and keeps it when the next stage  *)
(* is not ready, so that prev_o_ready need not wait for next_i_ready.      *)
(***************************************************************************)
EXTENDS Integers, FiniteSets

CONSTANTS
  Ports,
  Data,
  Zero,  \* the reset value of a register
  None   \* nothing offered: valid is low

ASSUME BufferAssumption == Zero \in Data /\ None \notin Data

VARIABLES buffer_q, valid_q

bufferVars == <<buffer_q, valid_q>>

BufferInit ==
  /\ buffer_q = [i \in Ports |-> Zero]
  /\ valid_q = [i \in Ports |-> FALSE]

(* in[i]: prev_i_data if prev_i_valid, else None.                          *)
Ready(i) == ~valid_q[i]
OutValid(i, in) == valid_q[i] \/ in[i] # None
OutData(i, in) == IF valid_q[i] THEN buffer_q[i] ELSE in[i]

(* Mutant: an input is kept even if the next stage takes it.               *)
BufferEnAlways(i, in, taken) == ~valid_q[i] /\ in[i] # None

(* taken: the ports whose next_i_ready is high.                            *)
BufferEn(i, in, taken) == ~valid_q[i] /\ in[i] # None /\ i \notin taken

BufferEdge(in, taken) ==
  /\ buffer_q' = [i \in Ports |-> IF BufferEn(i, in, taken) THEN in[i] ELSE buffer_q[i]]
  /\ valid_q' = [i \in Ports |-> BufferEn(i, in, taken) \/ (valid_q[i] /\ i \notin taken)]

=============================================================================
