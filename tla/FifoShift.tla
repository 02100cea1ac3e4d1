----------------------------- MODULE FifoShift -----------------------------
(***************************************************************************)
(* common_fifo_shift_1w1r (main/verilog/common/fifo): a shift register     *)
(* whose words sit at its high end.  A one-hot mark, the P registers,      *)
(* stands at the number of free places: Depth says empty, 0 says full.     *)
(***************************************************************************)
EXTENDS Integers, Sequences

CONSTANTS
  Depth,       \* FIFO_DEPTH
  Word,        \* the values of FIFO_WIDTH bits
  Zero,        \* 'b0, what is shifted in at the low end
  ResetState,  \* FIFO_RESET_STATE
  ResetValue   \* FIFO_RESET_VALUE, oldest word first

Place == 0 .. Depth - 1

VARIABLES
  content,  \* content_dff_dout
  p         \* fifo_p, as the set of the bits that are 1

shiftVars == <<content, p>>

Initial == [i \in Place |-> ResetValue[Depth - 1 - i]]

Init ==
  /\ content = Initial
  /\ p = {Depth - ResetState}

Reset ==
  /\ content' = Initial
  /\ p' = {Depth - ResetState}

Empty == Depth \in p
Full  == 0 \in p
Dout  == content[Depth - 1]

Popped(ren) == ren /\ ~Empty           \* r_pop
Hold(wen, ren) == Popped(ren) /\ wen   \* p_hold
Pop(wen, ren)  == Popped(ren) /\ ~wen  \* p_pop
Push(wen, ren) == ~Hold(wen, ren) /\ wen /\ ~Full  \* p_push

(* Mutant: a word written with a read lands where one written alone would. *)
DirectOnePlace(i, wen, ren) ==
  (Hold(wen, ren) \/ Push(wen, ren)) /\ i + 1 \in p

(* content_dff_dw: din is written to place i.  With a read the words shift *)
(* up at the same time, and the place is the one above.                    *)
Direct(i, wen, ren) ==
  \/ Hold(wen, ren) /\ i \in p
  \/ Push(wen, ren) /\ i + 1 \in p

Shifted(i) == IF i = 0 THEN Zero ELSE content[i - 1]

(* Mutant: the mark moves with every write.                                *)
MarkAlways(wen, ren) ==
  IF Pop(wen, ren) THEN {i + 1 : i \in p \ {Depth}}
  ELSE IF Push(wen, ren) \/ Hold(wen, ren) THEN {i - 1 : i \in p \ {0}} ELSE p

Mark(wen, ren) ==
  IF Pop(wen, ren) THEN {i + 1 : i \in p \ {Depth}}
  ELSE IF Push(wen, ren) THEN {i - 1 : i \in p \ {0}} ELSE p

Edge(din, wen, ren) ==
  /\ content' = [i \in Place |->
                   IF Direct(i, wen, ren) THEN din
                   ELSE IF Popped(ren) THEN Shifted(i) ELSE content[i]]
  /\ p' = Mark(wen, ren)

(* The words from the high end down to the mark, oldest first.             *)
Contents ==
  [k \in 1 .. Depth - (CHOOSE i \in p : \A j \in p : i <= j) |-> content[Depth - k]]

=============================================================================
