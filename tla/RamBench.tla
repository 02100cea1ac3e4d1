------------------------------ MODULE RamBench ------------------------------
(***************************************************************************)
(* The three RAMs given the same calls, as test/verilated/common_dffram_1a *)
(* does with the emulated read-through memory and the hardware: the memory *)
(* with delayed reads runs beside them, and the writes of every edge go to *)
(* a snapshot.                                                             *)
(***************************************************************************)
EXTENDS Integers, Sequences, FiniteSetsExt

CONSTANTS
  Size, Bits, None, Ports, Destinations,
  Payloads, Masks,  \* the words and masks the callers write
  MaxEntries,       \* bound on the entries of a snapshot
  MaxReads          \* bound on the nodes of the list of reads

VARIABLES
  rmode,
  rtMemory, rtWrite,                    \* W1RTRandomAccessMemory
  rdMemory, rdWrite, rops, tail, cell,  \* W1RDRandomAccessMemory
  dff,                                  \* common_dffram_1a1w1r
  snapshot,                             \* MemoryWriteSnapshot
  base                                  \* ghost: contents when it was made

RT == INSTANCE ReadThroughMemory WITH memory <- rtMemory, write <- rtWrite
RD == INSTANCE ReadDelayedMemory WITH memory <- rdMemory, write <- rdWrite
Ram == INSTANCE DffRam WITH RAM_DEPTH <- Size, RAM_BITS <- Bits

rtVars  == <<rtMemory, rtWrite>>
rdVars  == <<rdMemory, rdWrite, rops, tail, cell>>
logVars == <<snapshot, base>>
ramVars == <<rmode, rtVars, rdVars, dff, logVars>>

Addresses == RT!Addresses

RamInit ==
  /\ RT!RTInit
  /\ RD!RDInit
  /\ Ram!DffInit
  /\ snapshot = <<>> /\ base = rtMemory

-----------------------------------------------------------------------------
CallSetWrite(address, src) ==
  /\ RT!SetWrite(address, src)
  /\ RD!SetWrite(address, src)
  /\ UNCHANGED <<dff, logVars>>

CallSetWriteWithMask(address, src, mask) ==
  /\ RT!SetWriteWithMask(address, src, mask)
  /\ RD!SetWriteWithMask(address, src, mask)
  /\ UNCHANGED <<dff, logVars>>

CallResetWrite ==
  /\ RT!ResetWrite
  /\ RD!ResetWrite
  /\ UNCHANGED <<dff, logVars>>

CallReadDelayed(port, address, dst) ==
  /\ tail < MaxReads
  /\ RD!ReadDelayed(port, address, dst)
  /\ UNCHANGED <<rtVars, dff, logVars>>

CallResetReadPort(port) ==
  /\ RD!ResetReadPort(port)
  /\ UNCHANGED <<rtVars, dff, logVars>>

CallResetRead ==
  /\ RD!ResetRead
  /\ UNCHANGED <<rtVars, dff, logVars>>

(* All memories are replaced by copies of themselves.                      *)
CopyAll ==
  /\ RT!Copy
  /\ RD!Copy
  /\ UNCHANGED <<dff, logVars>>

(* The wires carry what the port of the emulation was given: addr, we, din *)
Wires ==
  [addr |-> rtWrite.address,
   we   |-> IF rtWrite.address < 0 THEN {}
            ELSE IF rtWrite.masked THEN rtWrite.mask ELSE Bits,
   din  |-> rtWrite.payload]

Clock ==
  /\ RT!EvalWrite
  /\ RD!EvalEx
  /\ Ram!DffEdge(Wires.addr, TRUE, Wires.we, Wires.din)

(* A rising edge, with EvalEx(&snapshot), or with Eval before anything was *)
(* put into the snapshot.                                                  *)
LoggedEdge ==
  /\ Len(snapshot) < MaxEntries
  /\ Clock
  /\ snapshot' = RT!AddEntry(snapshot)
  /\ UNCHANGED base

PlainEdge ==
  /\ snapshot = <<>>
  /\ Clock
  /\ UNCHANGED snapshot /\ base' = rtMemory'

(* A snapshot that was used up is left for a new one.                      *)
NewSnapshot ==
  /\ snapshot' = <<>> /\ base' = rtMemory
  /\ UNCHANGED <<rmode, rtVars, rdVars, dff>>

PlainWrites ==
  \/ \E a \in Addresses, p \in Payloads : CallSetWrite(a, p)
  \/ CallResetWrite

Writes ==
  \/ PlainWrites
  \/ \E a \in Addresses, p \in Payloads, m \in Masks : CallSetWriteWithMask(a, p, m)

Reads ==
  \/ \E port \in Ports, a \in Addresses, d \in Destinations : CallReadDelayed(port, a, d)
  \/ \E port \in Ports : CallResetReadPort(port)
  \/ CallResetRead
  \/ CopyAll

RamNext == Writes \/ Reads \/ LoggedEdge \/ PlainEdge \/ NewSnapshot

RamSpec == RamInit /\ [][RamNext]_ramVars

-----------------------------------------------------------------------------
(* What ReadThrough shows during a cycle is what the hardware shows, or in *)
(* mode WRITE_FIRST what the edge is going to leave there.  A masked write *)
(* is the exception: its payload is shown as it is, a word the memory may  *)
(* never hold.                                                             *)
ReadsAgree ==
  \A a \in Addresses :
    IF rmode = "READ_FIRST"
    THEN RT!ReadThrough(a) = Ram!Dout(a)
    ELSE \/ RT!ReadThrough(a) = RT!MemoryNext[a]
         \/ rtWrite.masked /\ a = rtWrite.address

(* Taking the writes of a snapshot back, last one first, gives the         *)
(* contents from when it was made; doing them again gives those of now.    *)
Undo(m, e) == [m EXCEPT ![e.address] = e.history]
Redo(m, e) == [m EXCEPT ![e.address] = RT!Written(@, e)]

Undone[k \in 0 .. Len(snapshot)] ==
  IF k = Len(snapshot) THEN rtMemory ELSE Undo(Undone[k + 1], snapshot[k + 1])

Redone[k \in 0 .. Len(snapshot)] ==
  IF k = 0 THEN base ELSE Redo(Redone[k - 1], snapshot[k])

SnapshotUndoes == Undone[0] = base /\ Redone[Len(snapshot)] = rtMemory

(* The list of nodes is the reads of the cycle, answered before or after   *)
(* the write, the last one of a destination, whatever nodes of earlier     *)
(* cycles are left in it.  Every call records the very read or write it was given, a snapshot *)
(* of the reads tells what the destinations got, and the three memories    *)
(* make the same of a write.                                               *)
Pending ==
  [d \in Destinations |->
     LET of == {i \in RD!InUse : rops[i].dst = d}
     IN  IF of = {} THEN None ELSE rops[Max(of)].address]

Delayed == INSTANCE DelayedReads WITH
  Words  <- SUBSET Bits,
  memory <- rdMemory,
  update <- RD!MemoryNext,
  reads  <- Pending,
  early  <- rmode = "READ_FIRST"

AnswersReads ==
  /\ Delayed!Spec
  /\ [][/\ tail' > tail =>
             \A port \in Ports, a \in Addresses, d \in Destinations :
               CallReadDelayed(port, a, d) => Delayed!Read(a, d)
        /\ \A a \in Addresses, p \in Payloads :
             rdWrite'.address = a /\ CallSetWrite(a, p) =>
               RD!MemoryNext' = [rdMemory EXCEPT ![a] = p]
        /\ Clock =>
             /\ rdMemory' = rtMemory' /\ rdMemory' = dff'
             /\ LET log == RD!EvalReadSnapshot(RD!ReadFrom)
                IN  \A i \in DOMAIN log :
                      \/ \E j \in DOMAIN log : j > i /\ log[j].subject = log[i].subject
                      \/ cell'[log[i].subject] = log[i].payload]_ramVars
=============================================================================
