-------------------------------- MODULE Fifo --------------------------------
(***************************************************************************)
(* MEMU::Common::FIFO<TPayload> (main/emulated/common/fifo.hpp): a ring of *)
(* size slots between a read and a write pointer, each with a wrap bit.    *)
(* Pops and pushes of a cycle are counted, pushes also recorded as writes, *)
(* and applied by Eval.                                                    *)
(***************************************************************************)
EXTENDS Integers, Sequences

CONSTANTS
  Size,    \* size
  Payload  \* TPayload

ASSUME FifoAssumption == Size \in Nat \ {0}

Slots == 0 .. Size - 1
Unset == -1

VARIABLES
  memory,        \* [size]
  rptr, rptrb,   \* read pointer and its wrap bit, 0 or 1
  wptr, wptrb,   \* write pointer and its wrap bit
  modification,  \* the writes of this cycle, <<index, payload>>
  deltaRptr,     \* delta_rptr: the pops of this cycle
  deltaWptr,     \* delta_wptr: the pushes of this cycle
  setRptr, setRptrb, setWptr, setWptrb  \* set_*: Unset, or the new value

fifoState == <<memory, rptr, rptrb, wptr, wptrb>>
fifoSet   == <<setRptr, setRptrb, setWptr, setWptrb>>
fifoInput == <<modification, deltaRptr, deltaWptr, fifoSet>>
fifoVars  == <<fifoState, fifoInput>>

NoInput ==
  /\ modification = <<>> /\ deltaRptr = 0 /\ deltaWptr = 0
  /\ setRptr = Unset /\ setRptrb = Unset /\ setWptr = Unset /\ setWptrb = Unset

DropInput ==
  /\ modification' = <<>> /\ deltaRptr' = 0 /\ deltaWptr' = 0
  /\ setRptr' = Unset /\ setRptrb' = Unset /\ setWptr' = Unset /\ setWptrb' = Unset

(* new TPayload[size] leaves the slots uninitialised for a plain type.     *)
FifoInit ==
  /\ memory \in [Slots -> Payload]
  /\ rptr = 0 /\ rptrb = 0 /\ wptr = 0 /\ wptrb = 0
  /\ NoInput

(* SetPayload and SetWritePointer may name the slot past the last one.     *)
FifoTypeOK ==
  /\ memory \in [Slots -> Payload]
  /\ rptr \in Slots /\ rptrb \in {0, 1}
  /\ wptr \in Slots /\ wptrb \in {0, 1}
  /\ modification \in Seq((0 .. Size) \X Payload)
  /\ deltaRptr \in 0 .. Size /\ deltaWptr \in 0 .. Size
  /\ setRptr \in Slots \cup {Unset} /\ setWptr \in 0 .. Size \cup {Unset}
  /\ setRptrb \in {0, 1, Unset} /\ setWptrb \in {0, 1, Unset}

-----------------------------------------------------------------------------
GetCount == wptr - rptr + (IF wptrb = rptrb THEN 0 ELSE Size)

GetRemainingSize == Size - GetCount

PopPayload ==
  /\ deltaRptr < GetCount
  /\ deltaRptr' = deltaRptr + 1
  /\ UNCHANGED <<fifoState, modification, deltaWptr, fifoSet>>

(* Mutant: a pop of the same cycle makes room.                             *)
PushPayloadBypass(payload) ==
  /\ deltaWptr < GetRemainingSize + deltaRptr
  /\ modification' = Append(modification, <<(wptr + deltaWptr) % Size, payload>>)
  /\ deltaWptr' = deltaWptr + 1
  /\ UNCHANGED <<fifoState, deltaRptr, fifoSet>>

PushPayload(payload) ==
  /\ deltaWptr < GetRemainingSize
  /\ modification' = Append(modification, <<(wptr + deltaWptr) % Size, payload>>)
  /\ deltaWptr' = deltaWptr + 1
  /\ UNCHANGED <<fifoState, deltaRptr, fifoSet>>

(* SetPayload, called for each of a list of writes <<index, payload>>.     *)
SetPayloads(writes) ==
  /\ modification' = modification \o writes
  /\ UNCHANGED <<fifoState, deltaRptr, deltaWptr>>

(* SetReadPointer and SetReadPointerB                                      *)
SetReadPointers(ptr, bit) == setRptr' = ptr /\ setRptrb' = bit

(* SetWritePointer and SetWritePointerB                                    *)
SetWritePointers(ptr, bit) == setWptr' = ptr /\ setWptrb' = bit

ResetInput ==
  /\ DropInput
  /\ UNCHANGED fifoState

Clear ==
  /\ rptr' = 0 /\ rptrb' = 0 /\ wptr' = 0 /\ wptrb' = 0
  /\ UNCHANGED <<memory, fifoInput>>

-----------------------------------------------------------------------------
(* The last write to a slot in a cycle is the one that stays.  One past    *)
(* the last slot changes nothing the queue can see.                        *)
MemoryNext ==
  [i \in Slots |->
     LET writes == {k \in DOMAIN modification : modification[k][1] = i}
     IN  IF writes = {} THEN memory[i]
         ELSE modification[CHOOSE k \in writes : \A l \in writes : l <= k][2]]

Moved(ptr, delta, set) == IF set = Unset THEN ptr + delta ELSE set

(* Mutant: a pointer stays one past the last slot.                         *)
WrappedLate(ptr) == IF ptr > Size THEN ptr - Size ELSE ptr

Wrapped(ptr) == IF ptr >= Size THEN ptr - Size ELSE ptr

(* Mutant: the wrap bit follows the pointer only past the last slot.       *)
WrapBitLate(ptr, bit, set) ==
  LET b == IF set = Unset THEN bit ELSE set
  IN  IF ptr > Size THEN 1 - b ELSE b

WrapBit(ptr, bit, set) ==
  LET b == IF set = Unset THEN bit ELSE set
  IN  IF ptr >= Size THEN 1 - b ELSE b

Eval ==
  /\ memory' = MemoryNext
  /\ LET r == Moved(rptr, deltaRptr, setRptr)
     IN  rptr' = Wrapped(r) /\ rptrb' = WrapBit(r, rptrb, setRptrb)
  /\ LET w == Moved(wptr, deltaWptr, setWptr)
     IN  wptr' = Wrapped(w) /\ wptrb' = WrapBit(w, wptrb, setWptrb)
  /\ DropInput

-----------------------------------------------------------------------------
(* The slot of the i-th element, which an Iterator from Begin reaches      *)
(* after i increments.                                                     *)
SlotAt(i) == Wrapped(rptr + i)

Contents == [i \in 1 .. GetCount |-> memory[SlotAt(i - 1)]]
=============================================================================
