--------------------------- MODULE HardwareFifos ---------------------------
(***************************************************************************)
(* Both hardware queues behind the same ports, clock and reset: the test   *)
(* bench (test/verilated/fifo) runs the same tests on either of them.      *)
(***************************************************************************)
EXTENDS FifoRam

CONSTANT Zero  \* the word of zeros

ASSUME ZeroAssumption == Zero \in Word

(* The reset words of the instance that TLC checks.                        *)
AlternatingWords == [i \in Address |-> i % 2]

VARIABLES content, p

Shift == INSTANCE FifoShift

vars == <<ramVars, content, p>>

Init == RamInit /\ Shift!Init

Clock ==
  \E din \in Word, wen, ren \in BOOLEAN :
    RamEdge(din, wen, ren) /\ Shift!Edge(din, wen, ren)

Reset == RamReset /\ Shift!Reset

Next == Clock \/ Reset

Spec == Init /\ [][Next]_vars

-----------------------------------------------------------------------------
(* The registers keep within their widths, and the mark is one-hot.        *)
TypeOK ==
  /\ ram \in [Address -> Word]
  /\ wptr \in Pointers /\ rptr \in Pointers
  /\ content \in [Address -> Word]
  /\ \E i \in 0 .. Depth : p = {i}

(* No sequence of reads and writes, at full and at empty and of both at    *)
(* once, tells the two queues apart at their outputs.                      *)
PortsAgree ==
  /\ RamEmpty = Shift!Empty
  /\ RamFull = Shift!Full
  /\ ~RamEmpty => RamDout = Shift!Dout

ResetWords == [k \in 1 .. ResetState |-> ResetValue[k - 1]]

RamQueue == INSTANCE FlowQueue WITH
  Capacity <- Depth, Item <- Word, Initial <- ResetWords,
  queue <- RamContents

ShiftQueue == INSTANCE FlowQueue WITH
  Capacity <- Depth, Item <- Word, Initial <- ResetWords,
  queue <- Shift!Contents

(* Each of them is the abstract queue: in order, nothing lost or doubled.  *)
(* The queue's step is the one for the inputs of the edge, so that a word  *)
(* refused counts as lost and another word as wrong.                       *)
RamImplementsQueue ==
  /\ RamQueue!Spec
  /\ [][\A din \in Word, wen, ren \in BOOLEAN :
          RamEdge(din, wen, ren) => RamQueue!Edge(din, wen, ren)]_vars

ShiftImplementsQueue ==
  /\ ShiftQueue!Spec
  /\ [][\A din \in Word, wen, ren \in BOOLEAN :
          Shift!Edge(din, wen, ren) => ShiftQueue!Edge(din, wen, ren)]_vars

(* "Write Enable and data from 'din' always ignored when FIFO was full"    *)
(* (the headers of both modules): after an edge, a reset aside, a queue    *)
(* that was full holds no word it did not hold before.                     *)
WriteIgnoredWhenFull ==
  [][RamFull /\ ~Reset => RamContents' \in {RamContents, Tail(RamContents)}]_vars

=============================================================================
