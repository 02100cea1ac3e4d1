------------------------- MODULE ReadThroughMemory -------------------------
(***************************************************************************)
(* MEMU::Common::W1RTRandomAccessMemory (main/emulated/common/memory.hpp): *)
(* words read in the cycle, one write port whose last call is applied at   *)
(* the edge.  A word is the set of its bits that are 1, so that an AND is  *)
(* an intersection and an OR is a union.                                   *)
(***************************************************************************)
EXTENDS Integers, Sequences

CONSTANTS
  Size,   \* size
  Bits    \* the bits of __PayloadType

Addresses == 0 .. Size - 1
Words     == SUBSET Bits
Modes     == {"READ_FIRST", "WRITE_FIRST"}

VARIABLES
  memory,   \* memory
  write,    \* write_p0_address (-1: none), _payload, _masked, _mask
  rmode     \* rmode

(* new __PayloadType[size]() gives zeroes; the payload and the mask are    *)
(* never looked at before the first call sets them.                        *)
RTInit ==
  /\ memory = [a \in Addresses |-> {}]
  /\ write = [address |-> -1, payload |-> {}, masked |-> FALSE, mask |-> {}]
  /\ rmode \in Modes

(* A copy keeps contents and the pending write.                            *)
Copy == UNCHANGED <<memory, write, rmode>>

(* In mode WRITE_FIRST the payload of the write port is shown as it is,    *)
(* masked or not.                                                          *)
ReadThrough(address) ==
  IF rmode = "WRITE_FIRST" /\ address = write.address
  THEN write.payload
  ELSE memory[address]

SetWrite(address, src) ==
  /\ write' = [write EXCEPT !.address = address, !.payload = src, !.masked = FALSE]
  /\ UNCHANGED <<memory, rmode>>

SetWriteWithMask(address, src, mask) ==
  /\ write' = [address |-> address, payload |-> src, masked |-> TRUE, mask |-> mask]
  /\ UNCHANGED <<memory, rmode>>

ResetWrite ==
  /\ write' = [write EXCEPT !.address = -1, !.masked = FALSE]
  /\ UNCHANGED <<memory, rmode>>

-----------------------------------------------------------------------------
(* What a write port makes of the word it hits.                            *)
Written(word, port) ==
  IF port.masked
  THEN (word \ port.mask) \cup (port.payload \cap port.mask)
  ELSE port.payload

(* Mutant: a masked write clears what the mask leaves out.                 *)
MemoryNextClearing ==
  [a \in Addresses |->
     IF a # write.address THEN memory[a]
     ELSE IF write.masked THEN write.payload \cap write.mask ELSE write.payload]

MemoryNext ==
  [a \in Addresses |->
     IF a = write.address THEN Written(memory[a], write) ELSE memory[a]]

(* Eval, and EvalEx without its snapshot.                                  *)
EvalWrite ==
  /\ memory' = MemoryNext
  /\ write' = [write EXCEPT !.address = -1]
  /\ UNCHANGED rmode

-----------------------------------------------------------------------------
(* MemoryOperationSnapshot: AddEntry appends to a linked list what EvalEx  *)
(* passes it, the word from before the write as the history.  An iterator  *)
(* goes through the entries in this order.                                 *)
Entry ==
  [port |-> 0, address |-> write.address, history |-> memory[write.address],
   payload |-> write.payload, masked |-> write.masked, mask |-> write.mask]

(* Mutant: the history is the word after the write.                        *)
AddEntryAfter(snapshot) ==
  IF write.address < 0 THEN snapshot
  ELSE Append(snapshot, [Entry EXCEPT !.history = MemoryNext[write.address]])

AddEntry(snapshot) ==
  IF write.address < 0 THEN snapshot ELSE Append(snapshot, Entry)
=============================================================================
