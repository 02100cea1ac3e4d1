------------------------- MODULE ReadDelayedMemory -------------------------
(***************************************************************************)
(* MEMU::Common::W1RDRandomAccessMemory (main/emulated/common/memory.hpp): *)
(* reads are recorded in a linked list of DelayedMemoryRead and answered   *)
(* at the edge, before or after the write of the cycle.  The nodes of the  *)
(* list are kept and used again: rop_tail is the last one in use.          *)
(***************************************************************************)
EXTENDS Integers, Sequences, FiniteSetsExt

CONSTANTS
  Size, Bits, None,
  Ports,         \* the read ports callers name
  Destinations   \* the cells callers have their reads put into

Addresses == 0 .. Size - 1
Words     == SUBSET Bits

VARIABLES
  memory, write, rmode,  \* as in ReadThroughMemory
  rops,                  \* the nodes from rop_head on
  tail,                  \* how far rop_tail is from rop_head, 0 if nullptr
  cell                   \* what the destinations hold

rdState == <<memory, write, rmode>>
rdReads == <<rops, tail>>

(* DelayedMemoryRead(), and what Reset makes of a node.                    *)
NoRead == [port |-> -1, address |-> -1, dst |-> None]

IsValid(rop) == rop.address >= 0

RDInit ==
  /\ memory = [a \in Addresses |-> {}]
  /\ write = [address |-> -1, payload |-> {}, masked |-> FALSE, mask |-> {}]
  /\ rmode \in {"READ_FIRST", "WRITE_FIRST"}
  /\ rops = <<NoRead>> /\ tail = 0
  /\ cell = [d \in Destinations |-> {}]

(* A copy keeps the pending write and drops the pending reads.             *)
Copy ==
  /\ rops' = <<NoRead>> /\ tail' = 0
  /\ UNCHANGED <<rdState, cell>>

(* The node after the last one in use, made when there is none.            *)
ReadDelayed(port, address, dst) ==
  /\ LET rop == [port |-> port, address |-> address, dst |-> dst]
     IN  rops' = IF tail = Len(rops) THEN Append(rops, rop)
                 ELSE [rops EXCEPT ![tail + 1] = rop]
  /\ tail' = tail + 1
  /\ UNCHANGED <<rdState, cell>>

(* Resets the nodes of one port and forgets where the others end: their    *)
(* reads are not answered either.                                          *)
ResetReadPort(port) ==
  /\ rops' = [i \in DOMAIN rops |->
                IF i <= tail /\ rops[i].port = port THEN NoRead ELSE rops[i]]
  /\ tail' = 0
  /\ UNCHANGED <<rdState, cell>>

ResetRead ==
  /\ rops' = [i \in DOMAIN rops |-> IF i <= tail THEN NoRead ELSE rops[i]]
  /\ tail' = 0
  /\ UNCHANGED <<rdState, cell>>

SetWrite(address, src) ==
  /\ write' = [write EXCEPT !.address = address, !.payload = src, !.masked = FALSE]
  /\ UNCHANGED <<memory, rmode, rdReads, cell>>

SetWriteWithMask(address, src, mask) ==
  /\ write' = [address |-> address, payload |-> src, masked |-> TRUE, mask |-> mask]
  /\ UNCHANGED <<memory, rmode, rdReads, cell>>

ResetWrite ==
  /\ write' = [write EXCEPT !.address = -1, !.masked = FALSE]
  /\ UNCHANGED <<memory, rmode, rdReads, cell>>

-----------------------------------------------------------------------------
MemoryNext ==
  [a \in Addresses |->
     IF a # write.address THEN memory[a]
     ELSE IF write.masked
          THEN (memory[a] \ write.mask) \cup (write.payload \cap write.mask)
          ELSE write.payload]

EvalWrite ==
  /\ memory' = MemoryNext
  /\ write' = [write EXCEPT !.address = -1]
  /\ UNCHANGED rmode

(* The nodes in use that hold a read.                                      *)
InUse == {i \in 1 .. tail : IsValid(rops[i])}

(* Every read is answered from content, the last one of a destination      *)
(* stays.  Nodes are reset one by one; rop_tail stays where it is, so the  *)
(* next read takes yet another node.                                       *)
EvalRead(content) ==
  /\ cell' = [d \in Destinations |->
                LET of == {i \in InUse : rops[i].dst = d}
                IN  IF of = {} THEN cell[d] ELSE content[rops[Max(of)].address]]
  /\ rops' = [i \in DOMAIN rops |-> IF i \in InUse THEN NoRead ELSE rops[i]]
  /\ UNCHANGED tail

(* What EvalRead adds to a snapshot of reads: the word read is the history *)
(* and the payload of its entry.                                           *)
EvalReadSnapshot(content) ==
  [i \in InUse |->
     [port |-> rops[i].port, address |-> rops[i].address, subject |-> rops[i].dst,
      history |-> content[rops[i].address], payload |-> content[rops[i].address]]]

ReadFrom == IF rmode = "READ_FIRST" THEN memory ELSE MemoryNext

(* Mutant: both modes read before the write.                               *)
EvalExReadFirst ==
  /\ EvalRead(memory)
  /\ EvalWrite

EvalEx ==
  /\ EvalRead(ReadFrom)
  /\ EvalWrite
=============================================================================
