------------------------------ MODULE CamBench ------------------------------
(***************************************************************************)
(* ContentAddressableMemory (main/emulated/common/memory.hpp) on a memory  *)
(* of contents and one of valid bits, beside the hardware that it stands   *)
(* for, as in test/verilated/common_dffcam_1qa; and PhysicalRegisterFile   *)
(* beside issue_prf, as in test/verilated/issue_prf, with the same writes. *)
(***************************************************************************)
EXTENDS Integers, FiniteSets, FiniteSetsExt

CONSTANTS
  AddressWidth,  \* of the CAM and of the register file
  WordBits       \* the bits of a content

VARIABLES
  contents, contentWrite,   \* the read-through memory of contents
  valids, validWrite,       \* the read-through memory of valid bits
  mode,                     \* MemoryReadMode of both, READ_FIRST in the test
  tdata, tvalid,            \* common_dffcam_1a1w1r1qa
  prfs, writing,            \* PhysicalRegisterFile
  slots                     \* issue_prf

camMemory == <<contents, contentWrite, valids, validWrite, mode>>
camHard   == <<tdata, tvalid, slots>>
camRegs   == <<prfs, writing>>
camVars   == <<camMemory, camHard, camRegs>>

Depth == 2 ^ AddressWidth
Words == SUBSET WordBits

Memory == INSTANCE ReadThroughMemory WITH
  Size <- Depth, Bits <- WordBits, rmode <- mode,
  memory <- contents, write <- contentWrite
ValidF == INSTANCE ReadThroughMemory WITH
  Size <- Depth, Bits <- {0}, rmode <- mode,
  memory <- valids, write <- validWrite
Cam == INSTANCE DffCam WITH CAM_ADDRESS_WIDTH <- AddressWidth, CAM_BITS <- WordBits
PRF == INSTANCE PhysicalRegisterFile WITH
  EMULATED_PRF_SIZE <- Depth, Value <- Words, Zero <- {}

CamInit ==
  /\ Memory!RTInit /\ ValidF!RTInit /\ mode = "READ_FIRST"
  /\ Cam!CamInit
  /\ PRF!PRFInit /\ PRF!PrfInit

(* Mutant: the highest address wins.                                       *)
QueryAddressHighest(content) ==
  LET hits == {i \in 0 .. Depth - 1 :
                 ValidF!ReadThrough(i) = {0} /\ Memory!ReadThrough(i) = content}
  IN  IF hits = {} THEN -1 ELSE Max(hits)

(* ContentAddressableMemory::QueryAddress, with both offsets 0             *)
QueryAddress(content) ==
  LET hits == {i \in 0 .. Depth - 1 :
                 ValidF!ReadThrough(i) = {0} /\ Memory!ReadThrough(i) = content}
  IN  IF hits = {} THEN -1 ELSE Min(hits)

-----------------------------------------------------------------------------
CallWrite(address, word, valid) ==
  /\ Memory!SetWrite(address, word)
  /\ ValidF!SetWrite(address, valid)
  /\ PRF!Set(address, word)
  /\ UNCHANGED camHard

(* A rising edge.  The wires carry the write of the cycle, if any.         *)
CamEdge ==
  /\ Memory!EvalWrite
  /\ ValidF!EvalWrite
  /\ PRF!PRFEval
  /\ LET pending == contentWrite.address >= 0
     IN  /\ Cam!CamEdge(contentWrite.address, pending, pending,
                        contentWrite.payload, validWrite.payload)
         /\ PRF!PrfEdge(contentWrite.address, pending, contentWrite.payload)

(* A register file is replaced by its copy.  One that has a pending write  *)
(* would lose it, so copies are taken after an edge.                       *)
CopyRegisters ==
  /\ writing.index < 0
  /\ PRF!PRFCopy
  /\ UNCHANGED <<camMemory, camHard>>

CamNext ==
  \/ \E a \in 0 .. Depth - 1, w \in Words, v \in SUBSET {0} : CallWrite(a, w, v)
  \/ CamEdge
  \/ CopyRegisters

CamSpec == CamInit /\ [][CamNext]_camVars

-----------------------------------------------------------------------------
(* The wires that carry an address: those of its bits that are 1.          *)
Wires(address) == {k \in 0 .. AddressWidth - 1 : Cam!BitOf(address, k) = 1}

(* The emulation and the hardware answer a query alike as long as no       *)
(* content is there twice.  Then the hardware says there is no match, and  *)
(* its address is the OR of those that match; the emulation answers the    *)
(* lowest of them.                                                         *)
QueriesAgree ==
  \A q \in Words :
    LET hits == Cam!Matching(q)
    IN  IF Cardinality(hits) <= 1
        THEN /\ Cam!QValid(q) <=> QueryAddress(q) >= 0
             /\ Cam!QValid(q) => Cam!QAddr(q) = Wires(QueryAddress(q))
        ELSE ~ Cam!QValid(q) /\ \A i \in hits : QueryAddress(q) <= i

(* Both read ports of the hardware show, at any time of a cycle, what Get  *)
(* returns: the write of the cycle is not bypassed in either of them.      *)
RegistersAgree ==
  \A i \in 0 .. Depth - 1 : PRF!Get(i) = PRF!Doutb(i) /\ PRF!Get(i) = PRF!Doutc(i)
=============================================================================
