------------------------------ MODULE FifoRam ------------------------------
(***************************************************************************)
(* common_fifo_ram_1w1r (main/verilog/common/fifo): a RAM between a read   *)
(* and a write pointer.  The pointers have one bit more than an address,   *)
(* so that full and empty differ in it.                                    *)
(***************************************************************************)
EXTENDS Integers, Sequences

CONSTANTS
  DepthLog2,   \* FIFO_DEPTH_LOG2
  Word,        \* the values of FIFO_WIDTH bits
  ResetState,  \* FIFO_RESET_STATE: how many words there are after a reset
  ResetValue   \* FIFO_RESET_VALUE: the reset word of every address

Depth == 2 ^ DepthLog2

Address  == 0 .. Depth - 1
Pointers == 0 .. 2 * Depth - 1

(* That a power of two is a positive number is said for the provers, which *)
(* have no induction on the exponent.                                      *)
ASSUME RamAssumption ==
  /\ DepthLog2 \in Nat \ {0} /\ Depth \in Nat \ {0}
  /\ ResetState \in 0 .. Depth
  /\ ResetValue \in [Address -> Word]

VARIABLES
  ram,   \* common_dffram_2a1w1r
  wptr,  \* wptr_q
  rptr   \* rptr_q

ramVars == <<ram, wptr, rptr>>

RamInit ==
  /\ ram = ResetValue
  /\ wptr = ResetState
  /\ rptr = 0

RamReset ==
  /\ ram' = ResetValue
  /\ wptr' = ResetState
  /\ rptr' = 0

(* Mutant: the extra bit never wraps.                                      *)
AdvanceNoWrap(ptr) == ptr + 1

(* $unsigned(ptr) + 1 in DepthLog2 + 1 bits.                               *)
Advance(ptr) == (ptr + 1) % (2 * Depth)

RamOverlap == wptr % Depth = rptr % Depth
RamEmpty   == RamOverlap /\ wptr \div Depth = rptr \div Depth
RamFull    == RamOverlap /\ wptr \div Depth # rptr \div Depth
RamDout    == ram[rptr % Depth]

RamPop(ren) == ren /\ ~RamEmpty

(* Mutant: a write to a full queue is refused though a word leaves.        *)
RamWritesUnlessFull(wen, ren) == wen /\ ~RamFull

(* p_push or p_hold: write alone, or write together with a read.           *)
RamWrites(wen, ren) == wen /\ (RamPop(ren) \/ ~RamFull)

RamEdge(din, wen, ren) ==
  /\ rptr' = IF RamPop(ren) THEN Advance(rptr) ELSE rptr
  /\ wptr' = IF RamWrites(wen, ren) THEN Advance(wptr) ELSE wptr
  /\ ram' = IF RamWrites(wen, ren)
            THEN [ram EXCEPT ![wptr % Depth] = din] ELSE ram

(* The words between the pointers, oldest first.                           *)
RamContents ==
  [k \in 1 .. (wptr - rptr) % (2 * Depth) |-> ram[(rptr + k - 1) % Depth]]

=============================================================================
