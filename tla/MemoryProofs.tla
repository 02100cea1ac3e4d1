---------------------------- MODULE MemoryProofs ----------------------------
(***************************************************************************)
(* Proofs about the memories and the bypass buffers, for every size, width *)
(* and set of data, and about the LRU trees of every depth: the emulation  *)
(* and the hardware show the same, and the buffers lose nothing.           *)
(***************************************************************************)
EXTENDS MCMemories, WellFoundedInduction, FiniteSetTheorems, TLAPS

(* A set of naturals has a least element, and one of places a last.        *)
LEMMA LeastNat ==
  ASSUME NEW I \in SUBSET Nat, I # {}
  PROVE  \E m \in I : \A i \in I : m <= i
<1> DEFINE LT == {ss \in Nat \X Nat : ss[1] < ss[2]}
<1>1. IsWellFoundedOn(LT, Nat)
  BY NatLessThanWellFounded DEF OpToRel
<1> HIDE DEF LT
<1>2. PICK m \in I : \A i \in I : ~(<<i, m>> \in LT)
  BY <1>1, WFMin
<1>3. ASSUME NEW i \in I PROVE m <= i
  <2>1. ~(i < m)
    BY <1>2 DEF LT
  <2> QED
    BY <2>1
<1> QED
  BY <1>3

LEMMA MaxIsLast ==
  ASSUME NEW n \in Nat, NEW I \in SUBSET (1 .. n), I # {}
  PROVE  R!Max(I) \in I /\ \A i \in I : R!Max(I) >= i
<1> DEFINE J == {n - i : i \in I}
<1>1. PICK m \in J : \A j \in J : m <= j
  <2>1. \A i \in I : i \in 1 .. n /\ n - i \in Nat
    OBVIOUS
  <2>2. J \in SUBSET Nat /\ J # {}
    BY <2>1
  <2> HIDE DEF J
  <2> QED
    BY <2>2, LeastNat
<1>2. PICK i \in I : m = n - i
  OBVIOUS
<1>3. \A k \in I : i >= k
  <2> SUFFICES ASSUME NEW k \in I PROVE i >= k
    OBVIOUS
  <2>1. m <= n - k
    BY <1>1
  <2> QED
    BY <1>2, <2>1
<1> QED
  BY <1>3 DEF R!Max

LEMMA LastIsMax ==
  ASSUME NEW n \in Nat, NEW I \in SUBSET (1 .. n), NEW i \in I, \A j \in I : j <= i
  PROVE  R!Max(I) = i
<1>1. R!Max(I) \in I /\ R!Max(I) >= i /\ R!Max(I) <= i
  BY MaxIsLast
<1>2. \A k \in I : k \in Nat
  OBVIOUS
<1>3. R!Max(I) \in Nat /\ i \in Nat
  BY <1>1, <1>2, Zenon
<1> QED
  BY <1>1, <1>3

-----------------------------------------------------------------------------
(* The memories.                                                           *)

(* The inductive invariant: the emulation holds what the flip-flops hold.  *)
SameContents ==
  /\ rmode \in R!RT!Modes
  /\ rtMemory \in [R!Addresses -> SUBSET Bits]
  /\ rtWrite \in [address : R!Addresses \cup {-1}, payload : SUBSET Bits,
                  masked : BOOLEAN, mask : SUBSET Bits]
  /\ dff = rtMemory

(* What an edge of the hardware makes of a word is what EvalWrite makes.   *)
LEMMA SameEdge ==
  ASSUME SameContents, R!Clock
  PROVE  SameContents'
<1> DEFINE we == R!Wires.we
<1>1. dff' = [i \in R!Addresses |->
                LET mine == IF i = rtWrite.address THEN we ELSE {}
                IN  (dff[i] \ mine) \cup (rtWrite.payload \cap mine)]
  BY DEF R!Clock, R!Ram!DffEdge, R!Ram!DffWe, R!Ram!OneHot, R!Ram!Cells, R!Wires, R!Addresses, R!RT!Addresses
<1>2. ASSUME NEW i \in R!Addresses
      PROVE  dff'[i] = R!RT!MemoryNext[i] /\ R!RT!MemoryNext[i] \in SUBSET Bits
  <2>1. i \in Nat /\ dff[i] = rtMemory[i] /\ rtMemory[i] \in SUBSET Bits
    BY <1>2, MemoriesAssumption DEF SameContents, R!Addresses, R!RT!Addresses
  <2>2. R!RT!MemoryNext[i] = IF i = rtWrite.address THEN R!RT!Written(rtMemory[i], rtWrite)
                           ELSE rtMemory[i]
    BY DEF R!RT!MemoryNext, R!Addresses
  <2>3. CASE i # rtWrite.address
    BY <1>1, <2>1, <2>2, <2>3
  <2>4. CASE i = rtWrite.address
    <3>1. dff'[i] = (rtMemory[i] \ we) \cup (rtWrite.payload \cap we)
      BY <1>1, <2>1, <2>4
    <3>2. we = IF rtWrite.masked THEN rtWrite.mask ELSE Bits
      <4>1. ~(rtWrite.address < 0)
        BY <2>1, <2>4
      <4> QED
        BY <4>1, Zenon DEF R!Wires
    <3>3. rtWrite.payload \in SUBSET Bits
      BY DEF SameContents
    <3> QED
      BY <2>1, <2>2, <2>4, <3>1, <3>2, <3>3 DEF R!RT!Written
  <2> QED
    BY <2>3, <2>4
<1>3. rtMemory' = R!RT!MemoryNext
  BY DEF R!Clock, R!RT!EvalWrite
<1>4. dff' = rtMemory' /\ rtMemory' \in [R!Addresses -> SUBSET Bits]
  BY <1>1, <1>2, <1>3 DEF R!RT!MemoryNext, R!Addresses
<1> QED
  BY <1>4 DEF R!Clock, R!RT!EvalWrite, SameContents, R!Addresses

(* No step takes the emulated words away from the flip-flops.              *)
LEMMA SameAlways ==
  ASSUME SameContents, [R!RamNext]_R!ramVars
  PROVE  SameContents'
<1> USE DEF SameContents
<1>1. ASSUME NEW a \in R!Addresses, NEW p \in Payloads, R!CallSetWrite(a, p)
      PROVE  SameContents'
  BY <1>1, MemoriesAssumption DEF R!CallSetWrite, R!RT!SetWrite
<1>2. ASSUME NEW a \in R!Addresses, NEW p \in Payloads, NEW m \in Masks,
             R!CallSetWriteWithMask(a, p, m)
      PROVE  SameContents'
  BY <1>2, MemoriesAssumption DEF R!CallSetWriteWithMask, R!RT!SetWriteWithMask
<1>3. CASE R!CallResetWrite
  BY <1>3 DEF R!CallResetWrite, R!RT!ResetWrite
<1>4. CASE R!Reads
  BY <1>4 DEF R!Reads, R!CallReadDelayed, R!CallResetReadPort, R!CallResetRead, R!CopyAll, R!RT!Copy,
              R!RD!ReadDelayed, R!RD!ResetReadPort, R!RD!ResetRead, R!RD!Copy, R!RD!rdState, R!rtVars
<1>5. CASE R!LoggedEdge \/ R!PlainEdge
  BY <1>5, SameEdge DEF R!LoggedEdge, R!PlainEdge
<1>6. CASE R!NewSnapshot
  BY <1>6 DEF R!NewSnapshot, R!rtVars
<1>7. CASE UNCHANGED R!ramVars
  BY <1>7 DEF R!ramVars, R!rtVars
<1> QED
  BY <1>1, <1>2, <1>3, <1>4, <1>5, <1>6, <1>7 DEF R!RamNext, R!Writes, R!PlainWrites

(* Of equal words both show the same.                                      *)
LEMMA SameReads ==
  ASSUME SameContents
  PROVE  R!ReadsAgree
<1> SUFFICES ASSUME NEW a \in R!Addresses
             PROVE  IF rmode = "READ_FIRST"
                    THEN R!RT!ReadThrough(a) = R!Ram!Dout(a)
                    ELSE \/ R!RT!ReadThrough(a) = R!RT!MemoryNext[a]
                         \/ rtWrite.masked /\ a = rtWrite.address
  BY DEF R!ReadsAgree
<1>1. R!Ram!Dout(a) = dff[a]
  BY DEF R!Ram!Dout, R!Ram!OneHot, R!Ram!Cells, R!Addresses, R!RT!Addresses
<1>2. R!RT!MemoryNext[a] = IF a = rtWrite.address THEN R!RT!Written(rtMemory[a], rtWrite)
                         ELSE rtMemory[a]
  BY DEF R!RT!MemoryNext, R!Addresses
<1> QED
  BY <1>1, <1>2 DEF SameContents, R!RT!ReadThrough, R!RT!Written, R!RT!Modes

LEMMA SameInit ==
  ASSUME R!RamInit
  PROVE  SameContents
BY MemoriesAssumption
   DEF R!RamInit, R!RT!RTInit, R!Ram!DffInit, R!Ram!Cells, SameContents, R!Addresses, R!RT!Addresses

(* At any time the emulated memory shows what the hardware shows, or what  *)
(* it is going to show after the edge, whatever the users call.            *)
THEOREM ReadsAlwaysAgree == R!RamSpec => []R!ReadsAgree
BY SameInit, SameAlways, SameReads, PTL DEF R!RamSpec

-----------------------------------------------------------------------------
(* The memory with delayed reads.                                          *)

(* It holds and writes what the other memories do, and every node in use   *)
(* that is valid holds a read; what the nodes after rop_tail hold does not *)
(* matter.                                                                 *)
ReadNodes == [port : Ports \cup {-1}, address : R!Addresses \cup {-1},
              dst : Destinations \cup {None}]

ReadsInList ==
  /\ rdMemory = rtMemory /\ rdWrite = rtWrite
  /\ rops \in Seq(ReadNodes)
  /\ tail \in 0 .. Len(rops)
  /\ \A i \in R!RD!InUse : rops[i].dst \in Destinations
  /\ cell \in [Destinations -> SUBSET Bits]

LEMMA ListInit ==
  ASSUME R!RamInit
  PROVE  ReadsInList
<1>1. /\ rdMemory = rtMemory /\ rdWrite = rtWrite /\ tail = 0
      /\ rops = <<R!RD!NoRead>> /\ cell = [d \in Destinations |-> {}]
  BY DEF R!RamInit, R!RT!RTInit, R!RD!RDInit, R!RT!Addresses, R!RD!Addresses
<1>2. R!RD!InUse = {}
  BY <1>1 DEF R!RD!InUse
<1>3. R!RD!NoRead \in ReadNodes
  BY DEF R!RD!NoRead, ReadNodes
<1> QED
  BY <1>1, <1>2, <1>3 DEF ReadsInList

LEMMA NodeInUse ==
  ASSUME ReadsInList, NEW i \in R!RD!InUse
  PROVE  i \in 1 .. tail /\ rops[i].address \in R!Addresses /\ rops[i].dst \in Destinations
<1>1. i \in 1 .. tail /\ rops[i].address >= 0 /\ rops[i].dst \in Destinations
  BY DEF ReadsInList, R!RD!InUse, R!RD!IsValid
<1>2. rops[i] \in ReadNodes
  <2>1. i \in 1 .. Len(rops)
    BY <1>1 DEF ReadsInList
  <2> QED
    BY <2>1 DEF ReadsInList
<1>3. rops[i].address \in R!Addresses \cup {-1}
  BY <1>2 DEF ReadNodes
<1> QED
  BY <1>1, <1>3

(* A destination waits for the last node that names it.                    *)
LEMMA WhatIsPending ==
  ASSUME ReadsInList, NEW d \in Destinations
  PROVE  \/ /\ R!Pending[d] = None
            /\ \A i \in R!RD!InUse : rops[i].dst # d
         \/ \E i \in R!RD!InUse :
              /\ rops[i].dst = d /\ \A j \in R!RD!InUse : rops[j].dst = d => j <= i
              /\ R!Pending[d] = rops[i].address /\ R!Pending[d] \in R!Addresses
<1> DEFINE of == {j \in R!RD!InUse : rops[j].dst = d}
<1>1. CASE of = {}
  BY <1>1 DEF R!Pending
<1>2. CASE of # {}
  <2>1. of \in SUBSET (1 .. tail) /\ tail \in Nat
    BY DEF R!RD!InUse, ReadsInList
  <2> DEFINE i == R!Max(of)
  <2>2. i \in of /\ \A j \in of : i >= j
    BY <1>2, <2>1, MaxIsLast
  <2>3. R!Pending[d] = rops[i].address
    BY <1>2 DEF R!Pending
  <2>4. rops[i].address \in R!Addresses
    BY <2>2, NodeInUse
  <2>5. \A j \in R!RD!InUse : rops[j].dst = d => j <= i
    <3> SUFFICES ASSUME NEW j \in R!RD!InUse, rops[j].dst = d PROVE j <= i
      OBVIOUS
    <3>1. i >= j /\ i \in Nat /\ j \in Nat
      BY <2>1, <2>2
    <3> QED
      BY <3>1
  <2> HIDE DEF i
  <2> QED
    BY <2>2, <2>3, <2>4, <2>5
<1> QED
  BY <1>1, <1>2

(* A read takes the node after the last one in use, and the destination    *)
(* waits for it.                                                           *)
LEMMA ReadAppends ==
  ASSUME ReadsInList, NEW port \in Ports, NEW a \in R!Addresses, NEW d \in Destinations,
         R!RD!ReadDelayed(port, a, d), UNCHANGED <<rtMemory, rtWrite>>
  PROVE  ReadsInList' /\ R!Pending' = [R!Pending EXCEPT ![d] = a]
<1> DEFINE rop == [port |-> port, address |-> a, dst |-> d]
<1>1. /\ rops' = IF tail = Len(rops) THEN Append(rops, rop) ELSE [rops EXCEPT ![tail + 1] = rop]
      /\ tail' = tail + 1 /\ UNCHANGED <<rdMemory, rdWrite, rmode, cell>>
  BY DEF R!RD!ReadDelayed, R!RD!rdState
<1>2. rop \in ReadNodes /\ rop.address = a /\ rop.dst = d /\ a >= 0
  BY DEF ReadNodes, R!Addresses, R!RT!Addresses
<1> HIDE DEF rop
<1>3. rops \in Seq(ReadNodes) /\ tail \in 0 .. Len(rops)
  BY DEF ReadsInList
<1>4. /\ rops' \in Seq(ReadNodes) /\ Len(rops') >= Len(rops) /\ tail + 1 \in 1 .. Len(rops')
      /\ rops'[tail + 1] = rop
      /\ \A i \in 1 .. tail : rops'[i] = rops[i]
  <2>1. CASE tail = Len(rops)
    BY <1>1, <1>2, <1>3, <2>1
  <2>2. CASE tail # Len(rops)
    BY <1>1, <1>2, <1>3, <2>2
  <2> QED
    BY <2>1, <2>2
<1>5. R!RD!InUse' = R!RD!InUse \cup {tail + 1}
  BY <1>1, <1>2, <1>3, <1>4 DEF R!RD!InUse, R!RD!IsValid
<1>6. \A i \in R!RD!InUse : rops'[i] = rops[i] /\ i < tail + 1
  BY <1>3, <1>4 DEF R!RD!InUse
<1>7. ASSUME NEW e \in Destinations
      PROVE  R!Pending'[e] = IF e = d THEN a ELSE R!Pending[e]
  <2> DEFINE old == {i \in R!RD!InUse : rops[i].dst = e}
             new == {i \in R!RD!InUse' : rops'[i].dst = e}
  <2>1. R!Pending'[e] = IF new = {} THEN None ELSE rops'[R!Max(new)].address
    BY DEF R!Pending
  <2>2. R!Pending[e] = IF old = {} THEN None ELSE rops[R!Max(old)].address
    BY DEF R!Pending
  <2>3. new = old \cup {i \in {tail + 1} : e = d}
    BY <1>2, <1>4, <1>5, <1>6
  <2>4. old \in SUBSET (1 .. tail) /\ tail \in Nat /\ old \subseteq R!RD!InUse
    BY <1>3 DEF R!RD!InUse
  <2> HIDE DEF old, new
  <2>5. CASE e = d
    <3>1. tail + 1 \in new /\ tail + 1 \in Nat
      BY <2>3, <2>4, <2>5
    <3>2. \A j \in new : j \in 1 .. (tail + 1) /\ j <= tail + 1
      <4> SUFFICES ASSUME NEW j \in new PROVE j \in 1 .. (tail + 1)
        BY <2>4
      <4>1. j \in 1 .. tail \/ j = tail + 1
        BY <2>3, <2>4
      <4> QED
        BY <2>4, <4>1
    <3>3. new \in SUBSET (1 .. (tail + 1))
      BY <3>2
    <3>4. R!Max(new) = tail + 1
      BY <3>1, <3>2, <3>3, LastIsMax
    <3> QED
      BY <1>2, <1>4, <2>1, <2>5, <3>1, <3>4
  <2>6. CASE e # d
    <3>1. new = old
      BY <2>3, <2>6
    <3>2. CASE old = {}
      BY <2>1, <2>2, <2>6, <3>1, <3>2
    <3>3. CASE old # {}
      <4>1. R!Max(old) \in R!RD!InUse
        BY <2>4, <3>3, MaxIsLast
      <4> QED
        BY <1>6, <2>1, <2>2, <2>6, <3>1, <3>3, <4>1
    <3> QED
      BY <3>2, <3>3
  <2> QED
    BY <2>5, <2>6
<1>8. R!Pending' = [R!Pending EXCEPT ![d] = a]
  BY <1>7 DEF R!Pending
<1>9. \A i \in R!RD!InUse' : rops'[i].dst \in Destinations
  BY <1>2, <1>4, <1>5, <1>6 DEF ReadsInList
<1>10. ReadsInList'
  <2>1. tail' \in 0 .. Len(rops')
    BY <1>1, <1>3, <1>4
  <2> QED
    BY <1>1, <1>4, <1>9, <2>1 DEF ReadsInList
<1> QED
  BY <1>8, <1>10

LEMMA ReadIsRecorded ==
  ASSUME ReadsInList, NEW port \in Ports, NEW a \in R!Addresses, NEW d \in Destinations,
         R!CallReadDelayed(port, a, d)
  PROVE  ReadsInList' /\ R!Delayed!Read(a, d)
<1>1. R!RD!ReadDelayed(port, a, d) /\ UNCHANGED <<rdMemory, rdWrite, rmode, cell>>
  BY DEF R!CallReadDelayed, R!RD!ReadDelayed, R!RD!rdState
<1>2. ReadsInList' /\ R!Pending' = [R!Pending EXCEPT ![d] = a]
  <2>1. UNCHANGED <<rtMemory, rtWrite>>
    BY DEF R!CallReadDelayed, R!rtVars
  <2> QED
    BY <1>1, <2>1, ReadAppends
<1>3. R!RD!MemoryNext' = R!RD!MemoryNext
  BY <1>1 DEF R!RD!MemoryNext
<1> QED
  BY <1>1, <1>2, <1>3 DEF R!Delayed!Read

(* No call of a port touches the nodes; each changes one word at most.     *)
LEMMA WritesOneWord ==
  ASSUME SameContents, SameContents', ReadsInList, R!Writes
  PROVE  ReadsInList' /\ R!Delayed!Write
<1> DEFINE Kept == UNCHANGED <<rdMemory, rops, tail, cell, rmode, rtMemory>> /\ rdWrite' = rtWrite'
<1>1. Kept
  <2>1. ASSUME NEW a \in R!Addresses, NEW p \in Payloads, R!CallSetWrite(a, p)
        PROVE  Kept
    BY <2>1 DEF R!CallSetWrite, R!RD!SetWrite, R!RT!SetWrite, R!RD!rdReads, ReadsInList
  <2>2. ASSUME NEW a \in R!Addresses, NEW p \in Payloads, NEW m \in Masks,
               R!CallSetWriteWithMask(a, p, m)
        PROVE  Kept
    BY <2>2 DEF R!CallSetWriteWithMask, R!RD!SetWriteWithMask, R!RT!SetWriteWithMask, R!RD!rdReads
  <2>3. ASSUME R!CallResetWrite PROVE Kept
    BY <2>3 DEF R!CallResetWrite, R!RD!ResetWrite, R!RT!ResetWrite, R!RD!rdReads, ReadsInList
  <2> QED
    BY <2>1, <2>2, <2>3 DEF R!Writes, R!PlainWrites
<1>2. R!RD!InUse' = R!RD!InUse /\ R!Pending' = R!Pending
  BY <1>1 DEF R!RD!InUse, R!Pending
<1>3. ReadsInList'
  BY <1>1, <1>2 DEF ReadsInList
<1>4. R!RD!MemoryNext' \in [R!Addresses -> SUBSET Bits]
  BY <1>1, <1>3 DEF R!RD!MemoryNext, R!RD!Addresses, R!Addresses, R!RT!Addresses, SameContents, ReadsInList
<1>5. \A b \in R!Addresses : b # rtWrite'.address => R!RD!MemoryNext'[b] = rdMemory[b]
  BY <1>1 DEF R!RD!MemoryNext, R!RD!Addresses, R!Addresses, R!RT!Addresses
<1>6. \E a \in R!Addresses : \A b \in R!Addresses \ {a} : R!RD!MemoryNext'[b] = rdMemory[b]
  <2>1. CASE rtWrite'.address \in R!Addresses
    BY <1>5, <2>1
  <2>2. CASE rtWrite'.address \notin R!Addresses
    BY <1>5, <2>2, MemoriesAssumption DEF R!Addresses, R!RT!Addresses
  <2> QED
    BY <2>1, <2>2
<1> QED
  BY <1>1, <1>2, <1>3, <1>4, <1>6 DEF R!Delayed!Write, R!RD!Words

(* Without a node in use nobody waits.                                     *)
LEMMA CancelsAll ==
  ASSUME SameContents, ReadsInList,
         \/ \E port \in Ports : R!CallResetReadPort(port)
         \/ R!CallResetRead \/ R!CopyAll
  PROVE  ReadsInList' /\ R!Delayed!Cancel
<1>1. UNCHANGED <<rdMemory, rdWrite, rmode, cell, rtMemory, rtWrite>>
  BY DEF R!CallResetReadPort, R!CallResetRead, R!CopyAll, R!RD!ResetReadPort, R!RD!ResetRead, R!RD!Copy,
         R!RT!Copy, R!RD!rdState, R!rtVars
<1>2. R!RD!NoRead \in ReadNodes
  BY DEF R!RD!NoRead, ReadNodes
<1> DEFINE Cleared == tail' = 0 /\ rops' \in Seq(ReadNodes)
<1>3. Cleared
  <2>1. CASE R!CopyAll
    BY <1>2, <2>1 DEF R!CopyAll, R!RD!Copy
  <2>2. ASSUME NEW port \in Ports, R!CallResetReadPort(port) PROVE Cleared
    BY <1>2, <2>2 DEF R!CallResetReadPort, R!RD!ResetReadPort, ReadsInList
  <2>3. CASE R!CallResetRead
    BY <1>2, <2>3 DEF R!CallResetRead, R!RD!ResetRead, ReadsInList
  <2> QED
    BY <2>1, <2>2, <2>3
<1>4. R!RD!InUse' = {}
  BY <1>3 DEF R!RD!InUse
<1>5. R!Pending' = [d \in Destinations |-> None]
  BY <1>4 DEF R!Pending
<1>6. R!RD!MemoryNext' = R!RD!MemoryNext
  BY <1>1 DEF R!RD!MemoryNext
<1>7. ReadsInList'
  BY <1>1, <1>3, <1>4 DEF ReadsInList
<1> QED
  BY <1>1, <1>5, <1>6, <1>7 DEF R!Delayed!Cancel, R!Delayed!Nothing

(* The edge answers every destination that waits, from the contents before *)
(* or after the write, and all memories make the same of the write.        *)
LEMMA EdgeAnswers ==
  ASSUME SameContents, SameContents', ReadsInList, R!Clock
  PROVE  /\ ReadsInList' /\ R!Delayed!Edge
         /\ rdMemory' = rtMemory' /\ rdMemory' = dff'
<1>1. /\ rtMemory' = R!RT!MemoryNext /\ rdMemory' = R!RD!MemoryNext
      /\ rdWrite' = rtWrite' /\ rtWrite'.address = -1
      /\ tail' = tail /\ rmode' = rmode
  BY DEF R!Clock, R!RT!EvalWrite, R!RD!EvalEx, R!RD!EvalWrite, R!RD!EvalRead, ReadsInList, SameContents
<1>2. R!RT!MemoryNext = R!RD!MemoryNext
  BY DEF R!RT!MemoryNext, R!RD!MemoryNext, R!RT!Written, R!RT!Addresses, R!RD!Addresses, ReadsInList
<1>3. R!RD!MemoryNext' = R!RD!MemoryNext
  <2>1. rtMemory' \in [R!Addresses -> SUBSET Bits]
    BY DEF SameContents
  <2>2. R!RD!MemoryNext' = [a \in R!Addresses |-> rdMemory'[a]]
    <3>1. \A a \in R!Addresses : a # -1
      BY DEF R!Addresses, R!RT!Addresses
    <3> QED
      BY <1>1, <3>1 DEF R!RD!MemoryNext, R!Addresses, R!RT!Addresses, R!RD!Addresses
  <2> QED
    BY <1>1, <1>2, <2>1, <2>2
<1>4. /\ rops' = [i \in DOMAIN rops |-> IF i \in R!RD!InUse THEN R!RD!NoRead ELSE rops[i]]
      /\ cell' = [d \in Destinations |->
                    LET of == {i \in R!RD!InUse : rops[i].dst = d}
                    IN  IF of = {} THEN cell[d] ELSE R!RD!ReadFrom[rops[R!RD!Max(of)].address]]
  BY DEF R!Clock, R!RD!EvalEx, R!RD!EvalRead
<1>5. rops' \in Seq(ReadNodes) /\ Len(rops') = Len(rops) /\ R!RD!InUse' = {}
  <2>1. R!RD!NoRead \in ReadNodes
    BY DEF R!RD!NoRead, ReadNodes
  <2>2. rops' \in Seq(ReadNodes) /\ Len(rops') = Len(rops)
    BY <1>4, <2>1 DEF ReadsInList
  <2>3. ASSUME NEW i \in 1 .. tail PROVE ~ R!RD!IsValid(rops'[i])
    <3>1. i \in DOMAIN rops
      BY DEF ReadsInList
    <3>2. CASE i \in R!RD!InUse
      BY <1>4, <3>1, <3>2 DEF R!RD!IsValid, R!RD!NoRead
    <3>3. CASE i \notin R!RD!InUse
      BY <1>4, <3>1, <3>3 DEF R!RD!IsValid, R!RD!InUse
    <3> QED
      BY <3>2, <3>3
  <2> QED
    BY <1>1, <2>2, <2>3 DEF R!RD!InUse
<1>6. R!Pending' = [d \in Destinations |-> None]
  BY <1>5 DEF R!Pending
<1>7. ASSUME NEW d \in Destinations
      PROVE  /\ cell'[d] = IF R!Pending[d] = None THEN cell[d] ELSE R!RD!ReadFrom[R!Pending[d]]
             /\ cell'[d] \in SUBSET Bits
  <2> DEFINE of == {i \in R!RD!InUse : rops[i].dst = d}
  <2>1. cell'[d] = IF of = {} THEN cell[d] ELSE R!RD!ReadFrom[rops[R!RD!Max(of)].address]
    BY <1>4
  <2>2. R!Pending[d] = IF of = {} THEN None ELSE rops[R!Max(of)].address
    BY DEF R!Pending
  <2>3. R!RD!Max(of) = R!Max(of)
    BY DEF R!RD!Max, R!Max
  <2>4. of \in SUBSET (1 .. tail) /\ of \subseteq R!RD!InUse /\ tail \in Nat
    BY DEF R!RD!InUse, ReadsInList
  <2>5. R!RD!ReadFrom \in [R!Addresses -> SUBSET Bits] /\ cell[d] \in SUBSET Bits
    BY <1>1, <1>2 DEF R!RD!ReadFrom, ReadsInList, SameContents
  <2> HIDE DEF of
  <2>6. CASE of = {}
    BY <2>1, <2>2, <2>5, <2>6
  <2>7. CASE of # {}
    <3>1. R!Max(of) \in R!RD!InUse
      BY <2>4, <2>7, MaxIsLast
    <3>2. rops[R!Max(of)].address \in R!Addresses
      BY <3>1, NodeInUse
    <3>3. rops[R!Max(of)].address # None
      BY <3>2, MemoriesAssumption DEF R!Addresses, R!RT!Addresses
    <3> QED
      BY <2>1, <2>2, <2>3, <2>5, <2>7, <3>2, <3>3
  <2> QED
    BY <2>6, <2>7
<1>8. cell' = [d \in Destinations |->
                 IF R!Pending[d] = None THEN cell[d] ELSE R!RD!ReadFrom[R!Pending[d]]]
  <2>1. cell' = [d \in Destinations |-> cell'[d]]
    BY <1>4
  <2> QED
    BY <1>7, <2>1
<1>9. R!Delayed!Edge
  BY <1>1, <1>3, <1>6, <1>8 DEF R!Delayed!Edge, R!Delayed!Nothing, R!RD!ReadFrom
<1>10. cell' \in [Destinations -> SUBSET Bits]
  BY <1>7, <1>8
<1>11. ReadsInList'
  BY <1>1, <1>2, <1>5, <1>10 DEF ReadsInList
<1> QED
  BY <1>1, <1>2, <1>9, <1>11 DEF SameContents

(* A snapshot of the reads tells what the destinations got, but for those  *)
(* that were read into again.                                              *)
LEMMA LogTells ==
  ASSUME ReadsInList, R!Clock
  PROVE  LET log == R!RD!EvalReadSnapshot(R!RD!ReadFrom)
         IN  \A i \in DOMAIN log :
               \/ \E j \in DOMAIN log : j > i /\ log[j].subject = log[i].subject
               \/ cell'[log[i].subject] = log[i].payload
<1> DEFINE log == R!RD!EvalReadSnapshot(R!RD!ReadFrom)
<1>1. /\ DOMAIN log = R!RD!InUse
      /\ \A i \in R!RD!InUse : /\ log[i].subject = rops[i].dst
                               /\ log[i].payload = R!RD!ReadFrom[rops[i].address]
  BY DEF R!RD!EvalReadSnapshot
<1>2. cell' = [d \in Destinations |->
                 LET of == {i \in R!RD!InUse : rops[i].dst = d}
                 IN  IF of = {} THEN cell[d] ELSE R!RD!ReadFrom[rops[R!RD!Max(of)].address]]
  BY DEF R!Clock, R!RD!EvalEx, R!RD!EvalRead
<1> HIDE DEF log
<1>3. ASSUME NEW i \in R!RD!InUse,
             ~ \E j \in R!RD!InUse : j > i /\ log[j].subject = log[i].subject
      PROVE  cell'[log[i].subject] = log[i].payload
  <2> DEFINE of == {j \in R!RD!InUse : rops[j].dst = rops[i].dst}
  <2>1. rops[i].dst \in Destinations
    BY NodeInUse
  <2>2. of \in SUBSET (1 .. tail) /\ tail \in Nat /\ i \in of
    BY DEF R!RD!InUse, ReadsInList
  <2>3. \A j \in of : j <= i
    <3> SUFFICES ASSUME NEW j \in of PROVE j <= i
      OBVIOUS
    <3>1. ~ j > i
      BY <1>1, <1>3
    <3>2. j \in Nat /\ i \in Nat
      BY <2>2
    <3> QED
      BY <3>1, <3>2
  <2>4. cell'[rops[i].dst] = IF of = {} THEN cell[rops[i].dst]
                             ELSE R!RD!ReadFrom[rops[R!RD!Max(of)].address]
    BY <1>2, <2>1
  <2> HIDE DEF of
  <2>5. R!RD!Max(of) = i
    BY <2>2, <2>3, LastIsMax DEF R!RD!Max, R!Max
  <2> QED
    BY <1>1, <2>2, <2>4, <2>5
<1> QED
  BY <1>1, <1>3 DEF log

-----------------------------------------------------------------------------
(* Snapshots.                                                              *)

Contents == [R!Addresses -> SUBSET Bits]

(* There is a row of contents from base to those of now, in which each is  *)
(* what an entry makes of the one before, and the one before what taking   *)
(* that entry back makes of it.                                            *)
Row(f) ==
  /\ f[0] = base /\ f[Len(snapshot)] = rtMemory
  /\ \A k \in 1 .. Len(snapshot) :
       /\ f[k] = R!Redo(f[k - 1], snapshot[k])
       /\ f[k - 1] = R!Undo(f[k], snapshot[k])

Entries == [port : {0}, address : R!Addresses, history : SUBSET Bits,
            payload : SUBSET Bits, masked : BOOLEAN, mask : SUBSET Bits]

SnapshotRow ==
  /\ snapshot \in Seq(Entries)
  /\ \E f \in [0 .. Len(snapshot) -> Contents] : Row(f)

LEMMA EmptyRow ==
  ASSUME SameContents', snapshot' = <<>>, base' = rtMemory'
  PROVE  SnapshotRow'
<1> DEFINE f == [k \in 0 .. 0 |-> rtMemory']
<1>1. f \in [0 .. Len(snapshot') -> Contents] /\ f[0] = base' /\ f[Len(snapshot')] = rtMemory'
  BY DEF SameContents, Contents
<1>2. \A k \in 1 .. Len(snapshot') :
        /\ f[k] = R!Redo(f[k - 1], snapshot'[k])
        /\ f[k - 1] = R!Undo(f[k], snapshot'[k])
  OBVIOUS
<1> HIDE DEF f
<1>3. \E g \in [0 .. Len(snapshot') -> Contents] : Row(g)'
  BY <1>1, <1>2 DEF Row
<1> QED
  BY <1>3 DEF SnapshotRow

(* The entry an edge adds extends the row by the new contents.             *)
LEMMA EntryExtends ==
  ASSUME SameContents, SameContents', SnapshotRow, R!LoggedEdge
  PROVE  SnapshotRow'
<1> DEFINE n == Len(snapshot)
           e == R!RT!Entry
<1>1. /\ snapshot' = IF rtWrite.address < 0 THEN snapshot ELSE Append(snapshot, e)
      /\ base' = base /\ rtMemory' = R!RT!MemoryNext
  BY DEF R!LoggedEdge, R!Clock, R!RT!EvalWrite, R!RT!AddEntry
<1>2. snapshot \in Seq(Entries) /\ n \in Nat
  BY DEF SnapshotRow
<1>3. PICK f \in [0 .. n -> Contents] : Row(f)
  BY DEF SnapshotRow
<1>4. CASE rtWrite.address < 0
  <2>1. rtMemory' = rtMemory
    <3>1. \A a \in R!Addresses : a # rtWrite.address
      BY <1>4 DEF R!Addresses, R!RT!Addresses
    <3> QED
      BY <1>1, <3>1 DEF R!RT!MemoryNext, R!Addresses, SameContents
  <2> QED
    BY <1>1, <1>2, <1>3, <1>4, <2>1 DEF SnapshotRow, Row
<1>5. CASE ~ rtWrite.address < 0
  <2>1. rtWrite.address \in R!Addresses
    BY <1>5 DEF SameContents
  <2>2. /\ e \in Entries
        /\ e.address = rtWrite.address /\ e.history = rtMemory[rtWrite.address]
        /\ e.payload = rtWrite.payload /\ e.masked = rtWrite.masked /\ e.mask = rtWrite.mask
    BY <2>1 DEF R!RT!Entry, Entries, SameContents
  <2>3. rtMemory \in Contents /\ rtMemory' \in Contents
    BY DEF SameContents, Contents
  <2>4. rtMemory' = R!Redo(rtMemory, e)
    <3>1. rtMemory' = [a \in R!Addresses |-> IF a = rtWrite.address
                                             THEN R!RT!Written(rtMemory[a], rtWrite)
                                             ELSE rtMemory[a]]
      BY <1>1 DEF R!RT!MemoryNext, R!Addresses
    <3>2. R!RT!Written(rtMemory[rtWrite.address], rtWrite)
            = R!RT!Written(rtMemory[rtWrite.address], e)
      BY <2>2 DEF R!RT!Written
    <3> HIDE DEF e
    <3> QED
      BY <2>1, <2>2, <2>3, <3>1, <3>2 DEF R!Redo, Contents
  <2> HIDE DEF e
  <2>5. rtMemory = R!Undo(rtMemory', e)
    BY <2>1, <2>2, <2>3, <2>4 DEF R!Undo, R!Redo, Contents
  <2> DEFINE g == [k \in 0 .. n + 1 |-> IF k = n + 1 THEN rtMemory' ELSE f[k]]
  <2>6. snapshot' = Append(snapshot, e)
    BY <1>1, <1>5
  <2>7. /\ Len(snapshot') = n + 1 /\ snapshot' \in Seq(Entries)
        /\ \A k \in 1 .. n : snapshot'[k] = snapshot[k]
        /\ snapshot'[n + 1] = e
    BY <1>2, <2>2, <2>6
  <2>8. /\ g \in [0 .. n + 1 -> Contents]
        /\ g[n + 1] = rtMemory' /\ \A k \in 0 .. n : g[k] = f[k]
    BY <1>2, <2>3
  <2>9. f[0] = base /\ f[n] = rtMemory
        /\ \A k \in 1 .. n : /\ f[k] = R!Redo(f[k - 1], snapshot[k])
                             /\ f[k - 1] = R!Undo(f[k], snapshot[k])
    BY <1>3 DEF Row
  <2> HIDE DEF g, n
  <2>10. ASSUME NEW k \in 1 .. n + 1
         PROVE  /\ g[k] = R!Redo(g[k - 1], snapshot'[k])
                /\ g[k - 1] = R!Undo(g[k], snapshot'[k])
    <3>1. CASE k = n + 1
      <4>1. g[k - 1] = rtMemory /\ g[k] = rtMemory' /\ snapshot'[k] = e
        BY <1>2, <2>7, <2>8, <2>9, <3>1
      <4> QED
        BY <2>4, <2>5, <4>1
    <3>2. CASE k # n + 1
      <4>1. k \in 1 .. n /\ k - 1 \in 0 .. n /\ k \in 0 .. n
        BY <1>2, <3>2
      <4>2. g[k - 1] = f[k - 1] /\ g[k] = f[k] /\ snapshot'[k] = snapshot[k]
        BY <2>7, <2>8, <4>1
      <4> QED
        BY <2>9, <4>1, <4>2
    <3> QED
      BY <3>1, <3>2
  <2>11. g[0] = base'
    BY <1>1, <1>2, <2>8, <2>9
  <2>12. \E h \in [0 .. Len(snapshot') -> Contents] : Row(h)'
    BY <2>7, <2>8, <2>10, <2>11 DEF Row
  <2> QED
    BY <2>7, <2>12 DEF SnapshotRow
<1> QED
  BY <1>4, <1>5

(* Taking entries back from the last one, and doing them again from the    *)
(* first one, both go along the row.                                       *)
LEMMA RowUndoes ==
  ASSUME SnapshotRow
  PROVE  R!SnapshotUndoes
<1> DEFINE n == Len(snapshot)
           Up(g) == [k \in 0 .. n |-> IF k = 0 THEN base ELSE R!Redo(g[k - 1], snapshot[k])]
           Down(g) == [k \in 0 .. n |-> IF k = n THEN rtMemory ELSE R!Undo(g[k + 1], snapshot[k + 1])]
<1>1. n \in Nat
  BY DEF SnapshotRow
<1>2. PICK f \in [0 .. n -> Contents] : Row(f)
  BY DEF SnapshotRow
<1>3. /\ f[0] = base /\ f[n] = rtMemory
      /\ \A k \in 1 .. n : f[k] = R!Redo(f[k - 1], snapshot[k])
      /\ \A k \in 1 .. n : f[k - 1] = R!Undo(f[k], snapshot[k])
  BY <1>2 DEF Row
<1> HIDE DEF n
<1>4. f = Up(f)
  BY <1>1, <1>3
<1>5. f = Down(f)
  <2>1. ASSUME NEW k \in 0 .. n, k # n PROVE f[k] = R!Undo(f[k + 1], snapshot[k + 1])
    <3>1. k + 1 \in 1 .. n /\ (k + 1) - 1 = k
      BY <1>1, <2>1
    <3> QED
      BY <1>3, <3>1
  <2> QED
    BY <1>1, <1>3, <2>1
<1>6. R!Redone = Up(R!Redone)
  <2>1. R!Redone = CHOOSE g : g = Up(g)
    BY DEF R!Redone, n
  <2> HIDE DEF Up
  <2> QED
    BY <1>4, <2>1
<1>7. R!Undone = Down(R!Undone)
  <2>1. R!Undone = CHOOSE g : g = Down(g)
    BY DEF R!Undone, n
  <2> HIDE DEF Down
  <2> QED
    BY <1>5, <2>1
<1>8. \A k \in 0 .. n : R!Redone[k] = f[k]
  <2> DEFINE Bad == {k \in 0 .. n : R!Redone[k] # f[k]}
  <2>1. SUFFICES ASSUME Bad # {} PROVE FALSE
    OBVIOUS
  <2>2. Bad \in SUBSET Nat
    BY <1>1
  <2>3. PICK k \in Bad : \A j \in Bad : k <= j
    <3> HIDE DEF Bad
    <3> QED
      BY <2>1, <2>2, LeastNat
  <2>4. CASE k = 0
    BY <1>1, <1>3, <1>6, <2>4
  <2>5. CASE k # 0
    <3>1. k \in 1 .. n /\ k - 1 \in 0 .. n /\ ~(k <= k - 1)
      BY <1>1, <2>5
    <3>2. R!Redone[k - 1] = f[k - 1]
      BY <2>3, <3>1
    <3>3. R!Redone[k] = R!Redo(R!Redone[k - 1], snapshot[k])
      BY <1>6, <3>1
    <3> QED
      BY <1>3, <3>1, <3>2, <3>3
  <2> QED
    BY <2>4, <2>5
<1>9. \A k \in 0 .. n : R!Undone[n - k] = f[n - k]
  <2> DEFINE Bad == {k \in 0 .. n : R!Undone[n - k] # f[n - k]}
  <2>1. SUFFICES ASSUME Bad # {} PROVE FALSE
    OBVIOUS
  <2>2. Bad \in SUBSET Nat
    BY <1>1
  <2>3. PICK k \in Bad : \A j \in Bad : k <= j
    <3> HIDE DEF Bad
    <3> QED
      BY <2>1, <2>2, LeastNat
  <2>4. CASE k = 0
    BY <1>1, <1>3, <1>7, <2>4
  <2>5. CASE k # 0
    <3>1. /\ k - 1 \in 0 .. n /\ ~(k <= k - 1) /\ n - k \in 0 .. n /\ n - k # n
          /\ n - (k - 1) = (n - k) + 1 /\ (n - k) + 1 \in 1 .. n
      BY <1>1, <2>5
    <3>2. R!Undone[n - (k - 1)] = f[n - (k - 1)]
      BY <2>3, <3>1
    <3>3. R!Undone[n - k] = R!Undo(R!Undone[(n - k) + 1], snapshot[(n - k) + 1])
      BY <1>7, <3>1
    <3>4. f[n - k] = R!Undo(f[(n - k) + 1], snapshot[(n - k) + 1])
      BY <1>5, <3>1
    <3>5. R!Undone[n - k] = f[n - k]
      BY <3>1, <3>2, <3>3, <3>4
    <3> QED
      BY <3>5
  <2> QED
    BY <2>4, <2>5
<1>10. R!Redone[n] = rtMemory /\ R!Undone[0] = base
  <2>1. R!Redone[n] = f[n]
    BY <1>1, <1>8
  <2>2. R!Undone[n - n] = f[n - n] /\ n - n = 0
    BY <1>1, <1>9
  <2> QED
    BY <1>3, <2>1, <2>2
<1> QED
  BY <1>10 DEF R!SnapshotUndoes, n

LEMMA RowAlways ==
  ASSUME SameContents, SameContents', SnapshotRow, [R!RamNext]_R!ramVars
  PROVE  SnapshotRow'
<1>1. CASE R!Writes \/ R!Reads \/ UNCHANGED R!ramVars
  <2>1. CASE R!Writes
    BY <2>1 DEF R!Writes, R!PlainWrites, R!CallSetWrite, R!CallSetWriteWithMask, R!CallResetWrite,
                R!RT!SetWrite, R!RT!SetWriteWithMask, R!RT!ResetWrite, R!logVars, SnapshotRow, Row
  <2>2. CASE R!Reads
    BY <2>2 DEF R!Reads, R!CallReadDelayed, R!CallResetReadPort, R!CallResetRead, R!CopyAll,
                R!RT!Copy, R!rtVars, R!logVars, SnapshotRow, Row
  <2>3. CASE UNCHANGED R!ramVars
    BY <2>3 DEF R!ramVars, R!rtVars, R!logVars, SnapshotRow, Row
  <2> QED
    BY <1>1, <2>1, <2>2, <2>3
<1>2. CASE R!LoggedEdge
  BY <1>2, EntryExtends
<1>3. CASE R!PlainEdge \/ R!NewSnapshot
  BY <1>3, EmptyRow DEF R!PlainEdge, R!NewSnapshot, R!rtVars
<1> QED
  BY <1>1, <1>2, <1>3 DEF R!RamNext

LEMMA ListAlways ==
  ASSUME SameContents, SameContents', ReadsInList, [R!RamNext]_R!ramVars
  PROVE  ReadsInList' /\ [R!Delayed!Next]_(R!Delayed!vars)
<1>1. CASE R!Writes
  BY <1>1, WritesOneWord DEF R!Delayed!Next
<1>2. ASSUME NEW port \in Ports, NEW a \in R!Addresses, NEW d \in Destinations,
             R!CallReadDelayed(port, a, d)
      PROVE  ReadsInList' /\ R!Delayed!Read(a, d)
  BY <1>2, ReadIsRecorded
<1>3. CASE (\E port \in Ports : R!CallResetReadPort(port)) \/ R!CallResetRead \/ R!CopyAll
  BY <1>3, CancelsAll DEF R!Delayed!Next
<1>4. CASE R!LoggedEdge \/ R!PlainEdge
  BY <1>4, EdgeAnswers DEF R!LoggedEdge, R!PlainEdge, R!Delayed!Next
<1>5. CASE R!NewSnapshot \/ UNCHANGED R!ramVars
  <2>1. UNCHANGED <<rmode, rtMemory, rtWrite, rdMemory, rdWrite, rops, tail, cell>>
    BY <1>5 DEF R!NewSnapshot, R!ramVars, R!rtVars, R!rdVars
  <2>2. R!RD!InUse' = R!RD!InUse /\ R!Pending' = R!Pending /\ R!RD!MemoryNext' = R!RD!MemoryNext
    BY <2>1 DEF R!RD!InUse, R!Pending, R!RD!MemoryNext
  <2>3. ReadsInList'
    BY <2>1, <2>2 DEF ReadsInList
  <2> QED
    BY <2>1, <2>2, <2>3 DEF R!Delayed!vars
<1> QED
  BY <1>1, <1>2, <1>3, <1>4, <1>5 DEF R!RamNext, R!Reads, R!Delayed!Next

LEMMA DelayedStarts ==
  ASSUME R!RamInit
  PROVE  R!Delayed!Init
<1>1. SameContents /\ ReadsInList
  BY SameInit, ListInit
<1>2. tail = 0 /\ rdWrite.address = -1
  BY DEF R!RamInit, R!RD!RDInit
<1>3. R!Pending = [d \in Destinations |-> None]
  <2>1. R!RD!InUse = {}
    BY <1>2 DEF R!RD!InUse
  <2> QED
    BY <2>1 DEF R!Pending
<1>4. R!RD!MemoryNext = rdMemory
  <2>1. \A a \in R!Addresses : a # -1
    BY DEF R!Addresses, R!RT!Addresses
  <2> QED
    BY <1>1, <1>2, <2>1 DEF R!RD!MemoryNext, R!RD!Addresses, R!RT!Addresses, R!Addresses, ReadsInList, SameContents
<1> QED
  BY <1>1, <1>3, <1>4 DEF R!Delayed!Init, R!Delayed!Nothing, SameContents, ReadsInList, R!RD!Words

-----------------------------------------------------------------------------
(* The register file.                                                      *)

(* The write that PhysicalRegisterFile records is the one on the wires, as *)
(* long as it is copied between an edge and the next write.                *)
SameRegisters ==
  /\ contentWrite \in [address : (0 .. C!Depth - 1) \cup {-1}, payload : SUBSET WordBits,
                       masked : BOOLEAN, mask : SUBSET WordBits]
  /\ writing \in [index : (0 .. C!Depth - 1) \cup {-1}, value : SUBSET WordBits]
  /\ writing.index = contentWrite.address
  /\ writing.index >= 0 => writing.value = contentWrite.payload
  /\ prfs \in [0 .. C!Depth - 1 -> SUBSET WordBits]
  /\ slots = prfs

LEMMA RegistersInit ==
  ASSUME C!CamInit
  PROVE  SameRegisters
BY DEF C!CamInit, C!Memory!RTInit, C!PRF!PRFInit, C!PRF!PrfInit, C!PRF!PRFIndexes, SameRegisters

LEMMA RegistersStep ==
  ASSUME SameRegisters, [C!CamNext]_C!camVars
  PROVE  SameRegisters'
<1> USE DEF SameRegisters
<1>1. ASSUME NEW a \in 0 .. C!Depth - 1, NEW w \in C!Words, NEW v \in SUBSET {0},
             C!CallWrite(a, w, v)
      PROVE  SameRegisters'
  BY <1>1 DEF C!CallWrite, C!Memory!SetWrite, C!PRF!Set, C!camHard, C!Words
<1>2. CASE C!CamEdge
  <2>1. /\ contentWrite' = [contentWrite EXCEPT !.address = -1]
        /\ writing' = [writing EXCEPT !.index = -1]
        /\ prfs' = IF writing.index < 0 THEN prfs
                   ELSE [prfs EXCEPT ![writing.index] = writing.value]
        /\ slots' = [i \in DOMAIN slots |->
                       IF contentWrite.address >= 0 /\ i = contentWrite.address
                       THEN contentWrite.payload ELSE slots[i]]
    BY <1>2 DEF C!CamEdge, C!Memory!EvalWrite, C!PRF!PRFEval, C!PRF!PrfEdge
  <2>2. prfs' \in [0 .. C!Depth - 1 -> SUBSET WordBits]
    BY <2>1
  <2>3. slots' = prfs'
    <3>1. CASE writing.index < 0
      BY <2>1, <3>1
    <3>2. CASE ~ writing.index < 0
      <4>1. writing.index \in 0 .. C!Depth - 1 /\ writing.index >= 0
        BY <3>2
      <4> QED
        BY <2>1, <3>2, <4>1
    <3> QED
      BY <3>1, <3>2
  <2>4. /\ contentWrite' \in [address : (0 .. C!Depth - 1) \cup {-1}, payload : SUBSET WordBits,
                              masked : BOOLEAN, mask : SUBSET WordBits]
        /\ contentWrite'.address = -1
    BY <2>1
  <2>5. /\ writing' \in [index : (0 .. C!Depth - 1) \cup {-1}, value : SUBSET WordBits]
        /\ writing'.index = -1
    BY <2>1
  <2> QED
    BY <2>2, <2>3, <2>4, <2>5
<1>3. CASE C!CopyRegisters
  BY <1>3 DEF C!CopyRegisters, C!PRF!PRFCopy, C!camMemory, C!camHard
<1>4. CASE UNCHANGED C!camVars
  BY <1>4 DEF C!camVars, C!camMemory, C!camHard, C!camRegs
<1> QED
  BY <1>1, <1>2, <1>3, <1>4 DEF C!CamNext

LEMMA RegistersShown ==
  ASSUME SameRegisters
  PROVE  C!RegistersAgree
<1> SUFFICES ASSUME NEW i \in 0 .. C!Depth - 1
             PROVE  C!PRF!Get(i) = C!PRF!Doutb(i) /\ C!PRF!Get(i) = C!PRF!Doutc(i)
  BY DEF C!RegistersAgree
<1>1. slots[i] = UNION {IF j = i THEN slots[j] ELSE {} : j \in DOMAIN slots}
  BY DEF SameRegisters
<1> QED
  BY <1>1 DEF SameRegisters, C!PRF!Get, C!PRF!Doutb, C!PRF!Doutc

-----------------------------------------------------------------------------
(* The CAM.                                                                *)

(* The RAMs of the hardware hold what the memories of the emulation hold,  *)
(* and one address writes both.                                            *)
SameCam ==
  /\ mode = "READ_FIRST"
  /\ contents \in [0 .. C!Depth - 1 -> SUBSET WordBits] /\ tdata = contents
  /\ valids \in [0 .. C!Depth - 1 -> SUBSET {0}] /\ tvalid = valids
  /\ contentWrite.masked = FALSE
  /\ validWrite \in [address : (0 .. C!Depth - 1) \cup {-1}, payload : SUBSET {0},
                     masked : {FALSE}, mask : SUBSET {0}]
  /\ validWrite.address = contentWrite.address

LEMMA CamStarts ==
  ASSUME C!CamInit
  PROVE  SameCam
BY DEF C!CamInit, C!Memory!RTInit, C!ValidF!RTInit, C!Memory!Addresses, C!ValidF!Addresses,
       C!Cam!CamInit, C!Cam!Content!DffInit, C!Cam!Valid!DffInit, C!Cam!Content!Cells,
       C!Cam!Valid!Cells, C!Cam!CAM_DEPTH, C!Depth, SameCam

LEMMA CamStep ==
  ASSUME SameCam, SameRegisters, [C!CamNext]_C!camVars
  PROVE  SameCam'
<1>1. ASSUME NEW a \in 0 .. C!Depth - 1, NEW w \in C!Words, NEW v \in SUBSET {0},
             C!CallWrite(a, w, v)
      PROVE  SameCam'
  <2>1. /\ UNCHANGED <<mode, contents, valids, tdata, tvalid>>
        /\ contentWrite' = [contentWrite EXCEPT !.address = a, !.payload = w, !.masked = FALSE]
        /\ validWrite' = [validWrite EXCEPT !.address = a, !.payload = v, !.masked = FALSE]
    BY <1>1 DEF C!CallWrite, C!Memory!SetWrite, C!ValidF!SetWrite, C!camHard
  <2> QED
    BY <2>1 DEF SameCam, SameRegisters
<1>2. CASE C!CamEdge
  <2> DEFINE addr == contentWrite.address
  <2>1. /\ contents' = C!Memory!MemoryNext /\ valids' = C!ValidF!MemoryNext /\ mode' = mode
        /\ contentWrite' = [contentWrite EXCEPT !.address = -1]
        /\ validWrite' = [validWrite EXCEPT !.address = -1]
    BY <1>2 DEF C!CamEdge, C!Memory!EvalWrite, C!ValidF!EvalWrite
  <2>2. /\ tdata' = [i \in 0 .. C!Depth - 1 |->
                       LET mine == IF addr >= 0 /\ i = addr
                                   THEN (IF addr >= 0 THEN WordBits ELSE {}) ELSE {}
                       IN  (tdata[i] \ mine) \cup (contentWrite.payload \cap mine)]
        /\ tvalid' = [i \in 0 .. C!Depth - 1 |->
                       LET mine == IF addr >= 0 /\ i = addr
                                   THEN (IF addr >= 0 THEN {0} ELSE {}) ELSE {}
                       IN  (tvalid[i] \ mine) \cup (validWrite.payload \cap mine)]
    BY <1>2 DEF C!CamEdge, C!Cam!CamEdge, C!Cam!Content!DffEdge, C!Cam!Valid!DffEdge,
                C!Cam!Content!DffWe, C!Cam!Valid!DffWe, C!Cam!Content!OneHot, C!Cam!Valid!OneHot,
                C!Cam!Content!Cells, C!Cam!Valid!Cells, C!Cam!CAM_DEPTH, C!Depth
  <2>3. /\ contents' = [i \in 0 .. C!Depth - 1 |->
                          IF i = addr THEN contentWrite.payload ELSE contents[i]]
        /\ valids' = [i \in 0 .. C!Depth - 1 |->
                          IF i = addr THEN validWrite.payload ELSE valids[i]]
    BY <2>1 DEF C!Memory!MemoryNext, C!ValidF!MemoryNext, C!Memory!Written, C!ValidF!Written,
                C!Memory!Addresses, C!ValidF!Addresses, SameCam
  <2>4. ASSUME NEW i \in 0 .. C!Depth - 1
        PROVE  /\ tdata'[i] = contents'[i] /\ contents'[i] \in SUBSET WordBits
               /\ tvalid'[i] = valids'[i] /\ valids'[i] \in SUBSET {0}
    <3>1. /\ contentWrite.payload \in SUBSET WordBits /\ validWrite.payload \in SUBSET {0}
          /\ tdata[i] = contents[i] /\ contents[i] \in SUBSET WordBits
          /\ tvalid[i] = valids[i] /\ valids[i] \in SUBSET {0} /\ i >= 0
      BY DEF SameCam, SameRegisters
    <3>2. CASE i = addr
      BY <2>2, <2>3, <3>1, <3>2
    <3>3. CASE i # addr
      BY <2>2, <2>3, <3>1, <3>3
    <3> QED
      BY <3>2, <3>3
  <2>5. /\ tdata' = contents' /\ contents' \in [0 .. C!Depth - 1 -> SUBSET WordBits]
        /\ tvalid' = valids' /\ valids' \in [0 .. C!Depth - 1 -> SUBSET {0}]
    BY <2>2, <2>3, <2>4
  <2>6. /\ contentWrite'.masked = FALSE /\ validWrite'.address = contentWrite'.address
        /\ validWrite' \in [address : (0 .. C!Depth - 1) \cup {-1}, payload : SUBSET {0},
                            masked : {FALSE}, mask : SUBSET {0}]
    BY <2>1 DEF SameCam, SameRegisters
  <2> QED
    BY <2>1, <2>5, <2>6 DEF SameCam
<1>3. CASE C!CopyRegisters
  BY <1>3 DEF C!CopyRegisters, C!camMemory, C!camHard, SameCam
<1>4. CASE UNCHANGED C!camVars
  BY <1>4 DEF C!camVars, C!camMemory, C!camHard, SameCam
<1> QED
  BY <1>1, <1>2, <1>3, <1>4 DEF C!CamNext

(* The modules count with the same operator.                               *)
LEMMA SameCount ==
  \A S : C!Cardinality(S) = Cardinality(S) /\ C!Cam!Cardinality(S) = Cardinality(S)
BY DEF C!Cardinality, C!Cam!Cardinality, Cardinality

(* Of equal contents both give the same answer to a query.                 *)
LEMMA QueriesShown ==
  ASSUME SameCam
  PROVE  C!QueriesAgree
<1> SUFFICES ASSUME NEW q \in C!Words
             PROVE  LET hits == C!Cam!Matching(q)
                    IN  IF Cardinality(hits) <= 1
                        THEN /\ C!Cam!QValid(q) <=> C!QueryAddress(q) >= 0
                             /\ C!Cam!QValid(q) => C!Cam!QAddr(q) = C!Wires(C!QueryAddress(q))
                        ELSE ~ C!Cam!QValid(q) /\ \A i \in hits : C!QueryAddress(q) <= i
  BY SameCount DEF C!QueriesAgree
<1> DEFINE hits == C!Cam!Matching(q)
<1>1. hits = {i \in 0 .. C!Depth - 1 : C!ValidF!ReadThrough(i) = {0} /\ C!Memory!ReadThrough(i) = q}
  BY DEF C!Cam!Matching, C!ValidF!ReadThrough, C!Memory!ReadThrough, C!Cam!CAM_DEPTH, C!Depth, SameCam
<1>2. C!QueryAddress(q) = IF hits = {} THEN -1 ELSE C!Min(hits)
  BY <1>1 DEF C!QueryAddress
<1>3. C!Cam!QValid(q) <=> Cardinality(hits) = 1
  BY SameCount DEF C!Cam!QValid, C!Cam!DetectedOneHot
<1>4. C!Cam!QAddr(q) = {k \in 0 .. AddressWidth - 1 : \E i \in hits : C!Cam!BitOf(i, k) = 1}
  BY DEF C!Cam!QAddr, C!Cam!EncodedOneHot
<1>5. hits \in SUBSET Nat /\ IsFiniteSet(hits)
  <2>1. hits \in SUBSET (0 .. C!Depth - 1)
    BY <1>1
  <2>2. C!Depth \in Int
    BY MemoriesAssumption DEF C!Depth
  <2>3. IsFiniteSet(0 .. C!Depth - 1)
    BY <2>2, FS_Interval
  <2> QED
    BY <2>1, <2>2, <2>3, FS_Subset
<1> HIDE DEF hits
<1>6. CASE hits = {}
  <2>1. Cardinality(hits) = 0
    BY <1>6, FS_EmptySet
  <2> QED
    BY <1>2, <1>3, <1>6, <2>1 DEF hits
<1>7. CASE hits # {}
  <2>1. C!Min(hits) \in hits /\ \A i \in hits : C!Min(hits) <= i
    BY <1>5, <1>7, LeastNat DEF C!Min
  <2>2. C!QueryAddress(q) \in Nat /\ C!QueryAddress(q) \in hits
        /\ \A i \in hits : C!QueryAddress(q) <= i
    BY <1>2, <1>5, <1>7, <2>1
  <2>3. Cardinality(hits) \in Nat /\ Cardinality(hits) # 0
    BY <1>5, <1>7, FS_CardinalityType, FS_EmptySet
  <2>4. CASE Cardinality(hits) = 1
    <3>1. \E i : hits = {i}
      BY <1>5, <2>4, FS_Singleton
    <3>2. hits = {C!QueryAddress(q)}
      BY <2>2, <3>1
    <3>3. C!Cam!QAddr(q) = C!Wires(C!QueryAddress(q))
      BY <1>4, <3>2 DEF C!Wires
    <3> QED
      BY <1>3, <2>2, <2>4, <3>3 DEF hits
  <2>5. CASE Cardinality(hits) # 1
    <3>1. ~ Cardinality(hits) <= 1
      BY <2>3, <2>5
    <3> QED
      BY <1>3, <2>2, <2>5, <3>1 DEF hits
  <2> QED
    BY <2>4, <2>5
<1> QED
  BY <1>6, <1>7

-----------------------------------------------------------------------------
(* The bypass buffers.                                                     *)

(* The classes keep what the hardware keeps; after a flush the flushable   *)
(* one is empty.                                                           *)
SameBuffers ==
  /\ input \in Data \cup {None} /\ readed \in BOOLEAN /\ flushed \in BOOLEAN
  /\ valid_q \in [{0} -> BOOLEAN] /\ buffer_q \in [{0} -> Data]
  /\ IF valid_q[0] THEN bypass = buffer_q[0] ELSE bypass = None
  /\ validf_q \in BOOLEAN /\ bufferf_q \in Data
  /\ IF validf_q THEN bypassf = bufferf_q ELSE bypassf = None
  /\ flush \in BOOLEAN /\ flush_q = flush
  /\ flush => bypassf = None

LEMMA BuffersInit ==
  ASSUME K!Init
  PROVE  SameBuffers
BY MemoriesAssumption DEF K!Init, K!BufferInit, SameBuffers

LEMMA BuffersStep ==
  ASSUME SameBuffers, [K!Next]_K!vars
  PROVE  SameBuffers'
<1>1. CASE K!Eval
  <2>1. /\ bypass' = (IF readed THEN None
                     ELSE IF input # None /\ bypass = None THEN input ELSE bypass)
        /\ bypassf' = (IF flushed \/ readed THEN None
                      ELSE IF input # None /\ bypassf = None THEN input ELSE bypassf)
        /\ flush' = flushed /\ flush_q' = flushed
        /\ readed' = FALSE /\ flushed' = FALSE /\ input' = input
    BY <1>1 DEF K!Eval, K!BypassNext, K!BypassNextF
  <2>2. K!BufferEn(0, [i \in {0} |-> input], IF readed THEN {0} ELSE {})
          <=> ~ valid_q[0] /\ input # None /\ ~ readed
    BY DEF K!BufferEn
  <2>3. /\ valid_q' \in [{0} -> BOOLEAN] /\ buffer_q' \in [{0} -> Data]
        /\ valid_q'[0] <=> (~ valid_q[0] /\ input # None /\ ~ readed) \/ (valid_q[0] /\ ~ readed)
        /\ buffer_q'[0] = IF ~ valid_q[0] /\ input # None /\ ~ readed THEN input ELSE buffer_q[0]
    BY <1>1, <2>2 DEF K!Eval, K!BufferEdge, K!BufferEn, SameBuffers
  <2>4. /\ validf_q' = (~ flushed /\ IF validf_q THEN ~ readed
                                     ELSE ~ validf_q /\ input # None /\ ~ readed)
        /\ bufferf_q' = IF ~ validf_q /\ input # None /\ ~ readed THEN input ELSE bufferf_q
    BY <1>1 DEF K!Eval, K!ValidNextF, K!BufferEnF
  <2> QED
    BY <2>1, <2>3, <2>4, MemoriesAssumption DEF SameBuffers
<1>2. CASE \/ \E src \in Data : K!SetInput(src)
           \/ K!ResetInput \/ K!ReadOutput \/ K!ResetOutput \/ K!Flush \/ K!ResetFlush
  <2>1. /\ UNCHANGED <<bypass, bypassf, flush, buffer_q, valid_q, bufferf_q, validf_q, flush_q>>
        /\ input' \in Data \cup {input, None}
        /\ readed' \in {TRUE, FALSE, readed} /\ flushed' \in {TRUE, FALSE, flushed}
    BY <1>2 DEF K!SetInput, K!ResetInput, K!ReadOutput, K!ResetOutput, K!Flush, K!ResetFlush,
                K!state, K!bufferVars
  <2> QED
    BY <2>1 DEF SameBuffers
<1>3. CASE UNCHANGED K!vars
  BY <1>3 DEF K!vars, K!wires, K!state, K!bufferVars, SameBuffers
<1> QED
  BY <1>1, <1>2, <1>3 DEF K!Next

LEMMA BuffersShown ==
  ASSUME SameBuffers
  PROVE  K!SameOutputs
BY MemoriesAssumption
   DEF SameBuffers, K!SameOutputs, K!IsWritable, K!Ready, K!GetOutput, K!OutValid, K!OutData,
       K!IsWritableF, K!PrevReadyF, K!GetOutputF, K!NextValidF, K!NextDataF

LEMMA EdgeConserves ==
  ASSUME SameBuffers, K!Eval
  PROVE  /\ K!One(IF readed THEN K!GetOutput ELSE None) \o K!One(bypass')
              = K!One(bypass) \o K!One(IF K!IsWritable THEN input ELSE None)
         /\ flushed => bypassf' = None
         /\ ~ flushed /\ flush => bypassf = None /\ bypassf' = IF readed THEN None ELSE input
         /\ ~ flushed /\ ~ flush =>
              K!One(IF readed THEN K!GetOutputF ELSE None) \o K!One(bypassf')
                = K!One(bypassf) \o K!One(IF K!IsWritableF THEN input ELSE None)
<1>1. /\ bypass' = (IF readed THEN None
                   ELSE IF input # None /\ bypass = None THEN input ELSE bypass)
      /\ bypassf' = (IF flushed \/ readed THEN None
                    ELSE IF input # None /\ bypassf = None THEN input ELSE bypassf)
  BY DEF K!Eval, K!BypassNext, K!BypassNextF
<1>2. \A x : <<>> \o K!One(x) = K!One(x) /\ K!One(x) \o <<>> = K!One(x)
  BY DEF K!One
<1>3. K!One(None) = <<>>
  BY DEF K!One
<1> QED
  BY <1>1, <1>2, <1>3 DEF SameBuffers, K!GetOutput, K!IsWritable, K!GetOutputF, K!IsWritableF

-----------------------------------------------------------------------------
(* All benches.                                                            *)

IInv ==
  /\ SameContents /\ ReadsInList /\ SnapshotRow
  /\ SameRegisters /\ SameCam
  /\ SameBuffers

LEMMA InvStep ==
  ASSUME IInv, [Next]_vars
  PROVE  IInv' /\ [R!RamNext]_R!ramVars /\ [C!CamNext]_C!camVars /\ [K!Next]_K!vars
<1>1. ASSUME UNCHANGED ramVars PROVE UNCHANGED R!ramVars
  BY <1>1 DEF ramVars, R!ramVars, R!rtVars, R!rdVars, R!logVars
<1>2. ASSUME UNCHANGED camVars PROVE UNCHANGED C!camVars
  BY <1>2 DEF camVars, C!camVars, C!camMemory, C!camHard, C!camRegs
<1>3. ASSUME UNCHANGED bypassVars PROVE UNCHANGED K!vars
  BY <1>3 DEF bypassVars, K!vars, K!wires, K!state, K!bufferVars
<1>4. [R!RamNext]_R!ramVars /\ [C!CamNext]_C!camVars /\ [K!Next]_K!vars
  BY <1>1, <1>2, <1>3 DEF Next, vars, R!RamNext, R!Writes
<1>5. SameContents' /\ SameRegisters' /\ SameBuffers'
  BY <1>4, SameAlways, RegistersStep, BuffersStep DEF IInv
<1> QED
  BY <1>4, <1>5, ListAlways, RowAlways, CamStep DEF IInv

(* In every bench the emulation holds what the hardware holds.             *)
THEOREM MemoriesInductive == Spec => []IInv
<1>1. Init => IInv
  <2>1. ASSUME Init PROVE IInv
    <3>1. SameContents
      BY <2>1, SameInit DEF Init
    <3>2. SnapshotRow
      <4> DEFINE f == [k \in 0 .. 0 |-> rtMemory]
      <4>1. snapshot = <<>> /\ base = rtMemory
        BY <2>1 DEF Init, R!RamInit
      <4>2. f \in [0 .. Len(snapshot) -> Contents] /\ Row(f)
        BY <3>1, <4>1 DEF SameContents, Contents, Row
      <4> QED
        BY <4>1, <4>2 DEF SnapshotRow
    <3> QED
      BY <2>1, <3>1, <3>2, ListInit, RegistersInit, CamStarts, BuffersInit DEF Init, IInv
  <2> QED
    BY <2>1
<1> QED
  BY <1>1, InvStep, PTL DEF Spec

(* The emulated read-through memory shows what the flip-flops show, or     *)
(* what the edge is going to leave in them, for every size and width.      *)
THEOREM ReadsNeverDiffer == Spec => []ReadsAgree
<1>1. IInv => ReadsAgree
  BY SameReads DEF IInv, ReadsAgree
<1> QED
  BY <1>1, MemoriesInductive, PTL

(* Both read ports of the hardware register file show what Get returns,    *)
(* for every number of registers and every width.                          *)
THEOREM RegistersNeverDiffer == Spec => []RegistersAgree
<1>1. IInv => RegistersAgree
  BY RegistersShown DEF IInv, RegistersAgree
<1> QED
  BY <1>1, MemoriesInductive, PTL

(* Whatever is written and logged, the writes of a snapshot can be taken   *)
(* back to the contents it was made from, and done again.                  *)
THEOREM SnapshotsUndo == Spec => []SnapshotUndoes
<1>1. IInv => SnapshotUndoes
  BY RowUndoes DEF IInv, SnapshotUndoes
<1> QED
  BY <1>1, MemoriesInductive, PTL

(* The emulated CAM and the hardware one answer every query alike, for     *)
(* every depth and width of the words, but for contents stored twice.      *)
THEOREM QueriesNeverDiffer == Spec => []QueriesAgree
<1>1. IInv => QueriesAgree
  BY QueriesShown DEF IInv, QueriesAgree
<1> QED
  BY <1>1, MemoriesInductive, PTL

(* The memory that delays its reads implements DelayedReads for every size *)
(* and every list of nodes, records each call as the read or write it is,  *)
(* and makes of every write what the other memories make of it.            *)
THEOREM ReadsAreAnswered == Spec => AnswersReads
<1> DEFINE Faithful ==
      /\ tail' > tail =>
           \A port \in Ports, a \in R!Addresses, d \in Destinations :
             R!CallReadDelayed(port, a, d) => R!Delayed!Read(a, d)
      /\ \A a \in R!Addresses, p \in Payloads :
           rdWrite'.address = a /\ R!CallSetWrite(a, p) =>
             R!RD!MemoryNext' = [rdMemory EXCEPT ![a] = p]
      /\ R!Clock =>
           /\ rdMemory' = rtMemory' /\ rdMemory' = dff'
           /\ LET log == R!RD!EvalReadSnapshot(R!RD!ReadFrom)
              IN  \A i \in DOMAIN log :
                    \/ \E j \in DOMAIN log : j > i /\ log[j].subject = log[i].subject
                    \/ cell'[log[i].subject] = log[i].payload
<1>1. Init => R!Delayed!Init
  BY DelayedStarts DEF Init
<1>2. ASSUME IInv, [Next]_vars PROVE [R!Delayed!Next]_(R!Delayed!vars)
  BY <1>2, InvStep, ListAlways DEF IInv
<1>3. ASSUME IInv, [Next]_vars PROVE [Faithful]_R!ramVars
  <2>1. IInv'
    BY <1>3, InvStep
  <2>2. ASSUME NEW a \in R!Addresses, NEW p \in Payloads, R!CallSetWrite(a, p)
        PROVE  R!RD!MemoryNext' = [rdMemory EXCEPT ![a] = p]
    <3>1. rdMemory' = rdMemory /\ rdWrite' = [rdWrite EXCEPT !.address = a, !.payload = p, !.masked = FALSE]
      BY <2>2 DEF R!CallSetWrite, R!RD!SetWrite
    <3>2. rdWrite'.address = a /\ rdWrite'.payload = p /\ rdWrite'.masked = FALSE
      BY <1>3, <3>1 DEF IInv, ReadsInList, SameContents
    <3>3. rdMemory \in [R!Addresses -> SUBSET Bits]
      BY <1>3 DEF IInv, ReadsInList, SameContents
    <3>4. R!RD!MemoryNext' = [b \in R!Addresses |-> IF b # a THEN rdMemory[b] ELSE p]
      BY <3>1, <3>2 DEF R!RD!MemoryNext, R!RD!Addresses, R!RT!Addresses, R!Addresses
    <3> QED
      BY <3>3, <3>4
  <2> QED
    BY <1>3, <2>1, <2>2, ReadIsRecorded, EdgeAnswers, LogTells DEF IInv
<1> HIDE DEF Faithful
<1>4. Spec => R!Delayed!Spec /\ [][Faithful]_R!ramVars
  BY <1>1, <1>2, <1>3, MemoriesInductive, PTL DEF Spec, R!Delayed!Spec
<1> QED
  BY <1>4, PTL DEF AnswersReads, R!AnswersReads, Faithful

(* The classes of the bypass buffers show what the hardware shows, for     *)
(* every set of data.                                                      *)
THEOREM OutputsNeverDiffer == Spec => []SameOutputs
<1>1. IInv => SameOutputs
  BY BuffersShown DEF IInv, SameOutputs
<1> QED
  BY <1>1, MemoriesInductive, PTL

(* No datum is lost in a bypass buffer or comes twice, and a flush drops   *)
(* just what the two stages know to be dropped.                            *)
THEOREM NothingIsLost == Spec => Conserves
<1>1. ASSUME IInv, [Next]_vars
      PROVE  [K!Eval =>
               /\ K!One(IF readed THEN K!GetOutput ELSE None) \o K!One(bypass')
                    = K!One(bypass) \o K!One(IF K!IsWritable THEN input ELSE None)
               /\ CASE flushed -> bypassf' = None
                    [] ~flushed /\ flush ->
                         bypassf = None /\ bypassf' = IF readed THEN None ELSE input
                    [] ~flushed /\ ~flush ->
                         K!One(IF readed THEN K!GetOutputF ELSE None) \o K!One(bypassf')
                           = K!One(bypassf) \o K!One(IF K!IsWritableF THEN input ELSE None)]_K!vars
  BY <1>1, EdgeConserves DEF IInv
<1> QED
  BY <1>1, MemoriesInductive, PTL DEF Spec, Conserves, K!Conserves

-----------------------------------------------------------------------------
(***************************************************************************)
(* Proofs about pseudo LRU, for trees of any depth: what the hardware      *)
(* selects on its way down the tree is what PseudoLRUPick has put first in *)
(* its order and PseudoLRUSwap walks to, and a subject that is used is     *)
(* last.                                                                   *)
(*                                                                         *)
(* The argument goes level by level: the nodes of a level stand in an      *)
(* order (NodeAt), the children of each in the order of its bit, and the   *)
(* tree selects in every level the first node with a valid subject below.  *)
(***************************************************************************)

(* Recursion and induction.                                                *)

(* A function in which every place is given by places of lower rank.       *)
Descends(S, V, N, rank, G) ==
  /\ V # {} /\ N \in Nat /\ rank \in [S -> 0 .. N] /\ G \in [S \X [S -> V] -> V]
  /\ \A s \in S : \A f, g \in [S -> V] :
       (\A t \in S : rank[t] < rank[s] => f[t] = g[t]) => G[<<s, f>>] = G[<<s, g>>]

LEMMA RecursionExists ==
  ASSUME NEW S, NEW V, NEW N, NEW rank, NEW G, Descends(S, V, N, rank, G)
  PROVE  \E f \in [S -> V] : \A s \in S : f[s] = G[<<s, f>>]
<1> DEFINE Good(k, f) == \A s \in S : rank[s] < k => f[s] = G[<<s, f>>]
           Bad == {k \in 0 .. N + 1 : ~ \E f \in [S -> V] : Good(k, f)}
<1>0. /\ V # {} /\ N \in Nat /\ rank \in [S -> 0 .. N] /\ G \in [S \X [S -> V] -> V]
      /\ \A s \in S : \A f, g \in [S -> V] :
           (\A t \in S : rank[t] < rank[s] => f[t] = g[t]) => G[<<s, f>>] = G[<<s, g>>]
  BY DEF Descends
<1>1. Bad = {}
  <2>1. SUFFICES ASSUME Bad # {} PROVE FALSE
    OBVIOUS
  <2>2. PICK k \in Bad : \A j \in Bad : k <= j
    <3>1. Bad \in SUBSET Nat
      BY <1>0
    <3> HIDE DEF Bad
    <3> QED
      BY <2>1, <3>1, LeastNat
  <2>3. k \in 0 .. N + 1 /\ ~ \E f \in [S -> V] : Good(k, f)
    <3> HIDE DEF Good
    <3> QED
      BY <2>2
  <2>4. k # 0
    <3>1. PICK v \in V : TRUE
      BY <1>0
    <3>2. [s \in S |-> v] \in [S -> V]
      BY <3>1
    <3>3. Good(0, [s \in S |-> v])
      BY <1>0
    <3> HIDE DEF Good
    <3> QED
      BY <2>3, <3>2, <3>3
  <2>5. k - 1 \in 0 .. N + 1 /\ ~(k <= k - 1) /\ k \in Nat
    BY <1>0, <2>3, <2>4
  <2>6. PICK f \in [S -> V] : Good(k - 1, f)
    <3> HIDE DEF Good
    <3> QED
      BY <2>2, <2>5
  <2> DEFINE h == [s \in S |-> IF rank[s] = k - 1 THEN G[<<s, f>>] ELSE f[s]]
  <2> HIDE DEF Bad
  <2>7. h \in [S -> V]
    BY <1>0
  <2>8. ASSUME NEW s \in S, rank[s] < k PROVE h[s] = G[<<s, h>>]
    <3>1. rank[s] \in Nat
      BY <1>0
    <3>2. \A t \in S : rank[t] < rank[s] => f[t] = h[t]
      <4>1. \A t \in S : rank[t] \in Nat
        BY <1>0
      <4> QED
        BY <2>5, <2>8, <3>1, <4>1
    <3>3. G[<<s, f>>] = G[<<s, h>>]
      <4> HIDE DEF h
      <4> QED
        BY <1>0, <2>7, <3>2, Zenon
    <3>4. CASE rank[s] = k - 1
      BY <3>3, <3>4
    <3>5. CASE rank[s] # k - 1
      <4>1. rank[s] < k - 1
        BY <2>5, <2>8, <3>1, <3>5
      <4>2. f[s] = G[<<s, f>>]
        BY <2>6, <4>1
      <4> QED
        BY <3>3, <3>5, <4>2
    <3> QED
      BY <3>4, <3>5
  <2>9. Good(k, h)
    BY <2>8
  <2> HIDE DEF Good, h
  <2> QED
    BY <2>3, <2>7, <2>9
<1>2. PICK f \in [S -> V] : Good(N + 1, f)
  <2>1. N + 1 \in 0 .. N + 1
    BY <1>0
  <2> HIDE DEF Good
  <2> QED
    BY <1>1, <2>1
<1>3. \A s \in S : rank[s] < N + 1
  BY <1>0
<1> QED
  BY <1>2, <1>3

(* Induction up to a bound, over the set of the numbers for which it holds. *)
LEMMA UpTo ==
  ASSUME NEW N \in Nat, NEW I, 0 \in I, \A k \in 1 .. N : k - 1 \in I => k \in I
  PROVE  \A k \in 0 .. N : k \in I
<1> DEFINE Bad == {k \in 0 .. N : k \notin I}
<1>1. SUFFICES ASSUME Bad # {} PROVE FALSE
  OBVIOUS
<1>2. PICK k \in Bad : \A j \in Bad : k <= j
  <2>1. Bad \in SUBSET Nat
    OBVIOUS
  <2> HIDE DEF Bad
  <2> QED
    BY <1>1, <2>1, LeastNat
<1>3. k \in 1 .. N /\ k - 1 \in 0 .. N /\ ~(k <= k - 1)
  OBVIOUS
<1>4. k - 1 \in I
  BY <1>2, <1>3
<1> QED
  BY <1>2, <1>3, <1>4

-----------------------------------------------------------------------------
(* The sizes of the levels, and the nodes above a leaf.                    *)
Depths == 0 .. SubjectCountLog2

LEMMA PowersOfTwo ==
   /\ L!TwoTo \in [Depths -> Nat \ {0}]
         /\ L!TwoTo[0] = 1
         /\ \A k \in 1 .. SubjectCountLog2 : L!TwoTo[k] = 2 * L!TwoTo[k - 1]
<1> DEFINE V == Nat \ {0}
           Step(f, k) == IF k = 0 THEN 1 ELSE 2 * f[k - 1]
           G == [x \in Depths \X [Depths -> V] |-> Step(x[2], x[1])]
           rank == [k \in Depths |-> k]
<1>0. SubjectCountLog2 \in Nat /\ Depths \subseteq Nat
  BY SubjectAssumption DEF Depths
<1>1. \E f \in [Depths -> V] : \A k \in Depths : f[k] = G[<<k, f>>]
  <2>1. ASSUME NEW x \in Depths \X [Depths -> V] PROVE Step(x[2], x[1]) \in V
    <3>1. x[1] \in Depths /\ x[2] \in [Depths -> V]
      OBVIOUS
    <3>2. CASE x[1] # 0
      <4>1. x[1] - 1 \in Depths
        BY <1>0, <3>1, <3>2 DEF Depths
      <4>2. x[2][x[1] - 1] \in V
        BY <3>1, <4>1
      <4> QED
        BY <3>2, <4>2
    <3> QED
      BY <3>2
  <2>2. G \in [Depths \X [Depths -> V] -> V]
    BY <2>1
  <2>3. ASSUME NEW k \in Depths, NEW f \in [Depths -> V], NEW g \in [Depths -> V],
               \A t \in Depths : rank[t] < rank[k] => f[t] = g[t]
        PROVE  G[<<k, f>>] = G[<<k, g>>]
    <3>1. Step(f, k) = Step(g, k)
      BY <1>0, <2>3 DEF Depths
    <3> QED
      BY <3>1
  <2>4. rank \in [Depths -> 0 .. SubjectCountLog2] /\ V # {}
    BY <1>0 DEF Depths
  <2>5. \A s \in Depths : \A f, g \in [Depths -> V] :
          (\A t \in Depths : rank[t] < rank[s] => f[t] = g[t]) => G[<<s, f>>] = G[<<s, g>>]
    <3> HIDE DEF G, rank, V
    <3> QED
      BY <2>3
  <2> HIDE DEF G, rank, V
  <2>6. Descends(Depths, V, SubjectCountLog2, rank, G)
    BY <1>0, <2>2, <2>4, <2>5 DEF Descends
  <2> QED
    BY <2>6, RecursionExists
<1>2. PICK f \in [Depths -> V] : \A k \in Depths : f[k] = Step(f, k)
  BY <1>1
<1>3. f = [k \in Depths |-> Step(f, k)]
  BY <1>2
<1>4. L!TwoTo = CHOOSE g : g = [k \in Depths |-> Step(g, k)]
  BY DEF L!TwoTo, Depths
<1>5. L!TwoTo = [k \in Depths |-> Step(L!TwoTo, k)]
  <2> HIDE DEF Step
  <2> QED
    BY <1>3, <1>4
<1>6. \A k \in 1 .. SubjectCountLog2 : L!TwoTo[k] = 2 * L!TwoTo[k - 1]
  BY <1>0, <1>5 DEF Depths
<1>7. L!TwoTo[0] = 1
  BY <1>0, <1>5 DEF Depths
<1>8. L!TwoTo \in [Depths -> V]
  <2> DEFINE Bad == {k \in Depths : L!TwoTo[k] \notin V}
  <2>1. SUFFICES ASSUME Bad # {} PROVE FALSE
    BY <1>5
  <2>2. PICK k \in Bad : \A j \in Bad : k <= j
    <3>1. Bad \in SUBSET Nat
      BY <1>0
    <3> HIDE DEF Bad
    <3> QED
      BY <2>1, <3>1, LeastNat
  <2>3. k # 0
    BY <1>7
  <2>4. k - 1 \in Depths /\ ~(k <= k - 1) /\ k \in 1 .. SubjectCountLog2
    BY <1>0, <2>3 DEF Depths
  <2>5. L!TwoTo[k - 1] \in V
    BY <2>2, <2>4
  <2> QED
    BY <1>6, <2>4, <2>5
<1> QED
  BY <1>6, <1>7, <1>8

LEMMA Sizes ==
  /\ SubjectCountLog2 \in Nat \ {0}
  /\ L!P_COUNT \in Nat \ {0, 1} /\ L!P_COUNT = L!TwoTo[SubjectCountLog2]
  /\ \A k \in 0 .. SubjectCountLog2 - 1 :
       L!TwoTo[k + 1] = 2 * L!TwoTo[k] /\ L!TwoTo[k + 1] <= L!P_COUNT
  /\ \A k \in Depths : L!TwoTo[k] \in Nat \ {0}
<1>1. SubjectCountLog2 \in Nat \ {0} /\ L!P_COUNT = L!TwoTo[SubjectCountLog2]
  BY SubjectAssumption DEF L!P_COUNT
<1>2. \A k \in Depths : L!TwoTo[k] \in Nat \ {0}
  BY PowersOfTwo
<1>3. \A k \in 0 .. SubjectCountLog2 - 1 :
        /\ k \in Depths /\ k + 1 \in Depths /\ L!TwoTo[k] \in Nat \ {0}
        /\ L!TwoTo[k + 1] = 2 * L!TwoTo[k]
  <2> SUFFICES ASSUME NEW k \in 0 .. SubjectCountLog2 - 1
               PROVE  /\ k \in Depths /\ k + 1 \in Depths /\ L!TwoTo[k] \in Nat \ {0}
                      /\ L!TwoTo[k + 1] = 2 * L!TwoTo[k]
    OBVIOUS
  <2>1. k \in Depths /\ k + 1 \in 1 .. SubjectCountLog2 /\ (k + 1) - 1 = k /\ k + 1 \in Depths
    BY <1>1 DEF Depths
  <2> QED
    BY <1>2, <2>1, PowersOfTwo
<1>4. \A k \in Depths : L!TwoTo[SubjectCountLog2 - k] <= L!P_COUNT
  <2> DEFINE I == {k \in Depths : L!TwoTo[SubjectCountLog2 - k] <= L!P_COUNT}
  <2>1. 0 \in I
    BY <1>1, <1>2 DEF Depths
  <2>2. ASSUME NEW k \in 1 .. SubjectCountLog2, k - 1 \in I PROVE k \in I
    <3>1. /\ SubjectCountLog2 - k \in 0 .. SubjectCountLog2 - 1 /\ k \in Depths
          /\ (SubjectCountLog2 - k) + 1 = SubjectCountLog2 - (k - 1)
      BY <1>1 DEF Depths
    <3>2. /\ L!TwoTo[SubjectCountLog2 - (k - 1)] = 2 * L!TwoTo[SubjectCountLog2 - k]
          /\ L!TwoTo[SubjectCountLog2 - k] \in Nat
      BY <1>3, <3>1
    <3>3. L!P_COUNT \in Nat
      BY <1>1, <1>2 DEF Depths
    <3> QED
      BY <2>2, <3>1, <3>2, <3>3
  <2> HIDE DEF I
  <2>3. \A k \in 0 .. SubjectCountLog2 : k \in I
    BY <1>1, <2>1, <2>2, UpTo
  <2> QED
    BY <2>3 DEF I, Depths
<1>5. \A k \in Depths : L!TwoTo[k] <= L!P_COUNT
  <2> SUFFICES ASSUME NEW k \in Depths PROVE L!TwoTo[k] <= L!P_COUNT
    OBVIOUS
  <2>1. SubjectCountLog2 - k \in Depths /\ SubjectCountLog2 - (SubjectCountLog2 - k) = k
    BY <1>1 DEF Depths
  <2> QED
    BY <1>4, <2>1
<1>6. L!P_COUNT \in Nat \ {0, 1}
  <2>1. /\ SubjectCountLog2 - 1 \in 0 .. SubjectCountLog2 - 1
        /\ (SubjectCountLog2 - 1) + 1 = SubjectCountLog2
    BY <1>1
  <2>2. L!P_COUNT = 2 * L!TwoTo[SubjectCountLog2 - 1] /\ L!TwoTo[SubjectCountLog2 - 1] \in Nat \ {0}
    BY <1>1, <1>3, <2>1
  <2> QED
    BY <2>2
<1> QED
  BY <1>1, <1>2, <1>3, <1>5, <1>6

LEMMA DivideTwice ==
  ASSUME NEW x \in Nat, NEW p \in Nat \ {0}
  PROVE  /\ x \div (2 * p) = (x \div p) \div 2
         /\ x \div p \in Nat
OBVIOUS

(* Of the nodes at height k, leaves being at 0, the one above leaf j.      *)
Place(j, k) == j \div L!TwoTo[k]
Above(j, k) == L!TwoTo[SubjectCountLog2 - k] - 1 + Place(j, k)

LEMMA Places ==
  ASSUME NEW j \in L!Subjects, NEW k \in Depths
  PROVE  /\ Place(j, k) \in 0 .. L!TwoTo[SubjectCountLog2 - k] - 1
         /\ Place(j, 0) = j
         /\ k < SubjectCountLog2 => Place(j, k + 1) = Place(j, k) \div 2
<1>1. j \in 0 .. L!P_COUNT - 1 /\ j \in Nat
  BY Sizes DEF L!Subjects
<1>2. Place(j, 0) = j
  BY <1>1, PowersOfTwo DEF Place
<1>3. ASSUME NEW i \in Depths, i < SubjectCountLog2
      PROVE  Place(j, i + 1) = Place(j, i) \div 2
  <2>1. L!TwoTo[i + 1] = 2 * L!TwoTo[i] /\ L!TwoTo[i] \in Nat \ {0}
    BY <1>3, Sizes DEF Depths
  <2> QED
    BY <1>1, <2>1, DivideTwice DEF Place
<1> DEFINE I == {i \in Depths : Place(j, i) \in 0 .. L!TwoTo[SubjectCountLog2 - i] - 1}
<1>4. 0 \in I
  BY <1>1, <1>2, Sizes DEF Depths
<1>5. ASSUME NEW i \in 1 .. SubjectCountLog2, i - 1 \in I PROVE i \in I
  <2>1. /\ SubjectCountLog2 - i \in 0 .. SubjectCountLog2 - 1 /\ i \in Depths
        /\ (SubjectCountLog2 - i) + 1 = SubjectCountLog2 - (i - 1)
        /\ i - 1 \in Depths /\ i - 1 < SubjectCountLog2 /\ (i - 1) + 1 = i
    BY Sizes DEF Depths
  <2>2. /\ L!TwoTo[SubjectCountLog2 - (i - 1)] = 2 * L!TwoTo[SubjectCountLog2 - i]
        /\ L!TwoTo[SubjectCountLog2 - i] \in Nat \ {0}
    BY <2>1, Sizes DEF Depths
  <2>3. Place(j, i) = Place(j, i - 1) \div 2
    BY <1>3, <2>1
  <2>4. Place(j, i - 1) \in 0 .. 2 * L!TwoTo[SubjectCountLog2 - i] - 1
    BY <1>5, <2>2
  <2> HIDE DEF I
  <2>5. Place(j, i) \in 0 .. L!TwoTo[SubjectCountLog2 - i] - 1
    BY <2>2, <2>3, <2>4
  <2> QED
    BY <2>1, <2>5 DEF I
<1> HIDE DEF I
<1>6. \A i \in 0 .. SubjectCountLog2 : i \in I
  BY <1>4, <1>5, Sizes, UpTo
<1> QED
  BY <1>2, <1>3, <1>6 DEF I, Depths

LEMMA NodesAbove ==
  ASSUME NEW j \in L!Subjects, NEW k \in Depths
  PROVE  /\ Above(j, k) \in L!Tree
         /\ Above(j, 0) = L!Leaf(j) /\ Above(j, SubjectCountLog2) = 0
         /\ k # 0 => Above(j, k) \in L!Nodes
         /\ k = SubjectCountLog2 <=> Above(j, k) = 0
         /\ k < SubjectCountLog2 =>
              /\ L!Parent(Above(j, k)) = Above(j, k + 1)
              /\ Above(j, k) = IF Place(j, k) % 2 = 0 THEN L!A(Above(j, k + 1))
                               ELSE L!B(Above(j, k + 1))
<1>1. /\ Place(j, k) \in 0 .. L!TwoTo[SubjectCountLog2 - k] - 1
      /\ Place(j, SubjectCountLog2) \in 0 .. L!TwoTo[SubjectCountLog2 - SubjectCountLog2] - 1
      /\ k < SubjectCountLog2 => Place(j, k + 1) = Place(j, k) \div 2
      /\ Place(j, 0) = j
  BY Places, Sizes DEF Depths
<1>2. L!TwoTo[SubjectCountLog2 - SubjectCountLog2] = 1 /\ SubjectCountLog2 - 0 = SubjectCountLog2
  BY Sizes, PowersOfTwo
<1>3. Above(j, 0) = L!Leaf(j)
  BY <1>1, <1>2, Sizes DEF Above, L!Leaf, L!Subjects
<1>4. Above(j, SubjectCountLog2) = 0
  BY <1>1, <1>2 DEF Above
<1>5. ASSUME k = 0 PROVE Above(j, k) \in L!Tree
  <2>1. L!Leaf(j) \in L!Tree
    BY Sizes DEF L!Leaf, L!Tree, L!Subjects
  <2> QED
    BY <1>3, <1>5, <2>1
<1>6. ASSUME k # 0 PROVE Above(j, k) \in L!Nodes /\ Above(j, k) \in L!Tree
  <2>1. /\ SubjectCountLog2 - k \in 0 .. SubjectCountLog2 - 1
        /\ SubjectCountLog2 - k \in Depths
    BY <1>6, Sizes DEF Depths
  <2>2. /\ L!TwoTo[SubjectCountLog2 - k] \in Nat \ {0}
        /\ L!TwoTo[(SubjectCountLog2 - k) + 1] = 2 * L!TwoTo[SubjectCountLog2 - k]
        /\ L!TwoTo[(SubjectCountLog2 - k) + 1] <= L!P_COUNT
    BY <2>1, Sizes
  <2>3. Above(j, k) \in L!Nodes /\ Above(j, k) \in L!Tree
    BY <1>1, <2>2, Sizes DEF Above, L!Nodes, L!Tree
  <2> QED
    BY <1>6, <2>3
<1>7. ASSUME k < SubjectCountLog2
      PROVE  /\ L!Parent(Above(j, k)) = Above(j, k + 1) /\ Above(j, k) # 0
             /\ Above(j, k) = IF Place(j, k) % 2 = 0 THEN L!A(Above(j, k + 1))
                              ELSE L!B(Above(j, k + 1))
  <2>1. /\ SubjectCountLog2 - (k + 1) \in 0 .. SubjectCountLog2 - 1
        /\ SubjectCountLog2 - (k + 1) \in Depths
        /\ (SubjectCountLog2 - (k + 1)) + 1 = SubjectCountLog2 - k
    BY <1>7, Sizes DEF Depths
  <2>2. /\ L!TwoTo[SubjectCountLog2 - (k + 1)] \in Nat \ {0}
        /\ L!TwoTo[SubjectCountLog2 - k] = 2 * L!TwoTo[SubjectCountLog2 - (k + 1)]
    BY <2>1, Sizes
  <2>3. Place(j, k + 1) = Place(j, k) \div 2 /\ Place(j, k) \in Nat
    BY <1>1, <1>7, <2>2
  <2>4. /\ Above(j, k + 1) = L!TwoTo[SubjectCountLog2 - (k + 1)] - 1 + Place(j, k) \div 2
        /\ Above(j, k) = 2 * L!TwoTo[SubjectCountLog2 - (k + 1)] - 1 + Place(j, k)
    BY <2>2, <2>3 DEF Above
  <2> QED
    BY <2>2, <2>3, <2>4 DEF L!Parent, L!A, L!B
<1>8. k = SubjectCountLog2 \/ k < SubjectCountLog2
  BY Sizes DEF Depths
<1> QED
  BY <1>3, <1>4, <1>5, <1>6, <1>7, <1>8, Sizes

LEMMA Children ==
  /\ \A n \in L!Nodes : /\ L!A(n) \in L!Tree /\ L!B(n) \in L!Tree /\ n \in L!Tree
                         /\ L!A(n) > n /\ L!B(n) > n /\ L!A(n) # L!B(n)
                         /\ L!Parent(L!A(n)) = n /\ L!Parent(L!B(n)) = n
  /\ \A t \in L!Tree : t # 0 =>
       /\ L!Parent(t) \in L!Nodes /\ L!Parent(t) < t
       /\ t = L!A(L!Parent(t)) \/ t = L!B(L!Parent(t))
BY Sizes DEF L!Nodes, L!Tree, L!A, L!B, L!Parent

-----------------------------------------------------------------------------
(* The subjects below a node.                                              *)

LEMMA BelowRecursion ==
  \A n \in L!Tree : L!Below[n] = IF n \in L!Nodes THEN L!Below[L!A(n)] \cup L!Below[L!B(n)]
                                 ELSE {n - (L!P_COUNT - 1)}
<1> DEFINE V == SUBSET L!Subjects
           N == 2 * L!P_COUNT - 2
           Step(f, n) == IF n \in L!Nodes THEN f[L!A(n)] \cup f[L!B(n)] ELSE {n - (L!P_COUNT - 1)}
           G == [x \in L!Tree \X [L!Tree -> V] |-> Step(x[2], x[1])]
           rank == [n \in L!Tree |-> N - n]
<1>1. ASSUME NEW n \in L!Tree, NEW f \in [L!Tree -> V] PROVE Step(f, n) \in V
  <2>1. CASE n \in L!Nodes
    BY <2>1, Children
  <2>2. CASE n \notin L!Nodes
    BY <2>2, Sizes DEF L!Nodes, L!Tree, L!Subjects
  <2> QED
    BY <2>1, <2>2
<1>2. G \in [L!Tree \X [L!Tree -> V] -> V]
  <2>1. \A x \in L!Tree \X [L!Tree -> V] : Step(x[2], x[1]) \in V
    <3> HIDE DEF Step
    <3> QED
      BY <1>1
  <2> HIDE DEF Step, V
  <2> QED
    BY <2>1
<1>3. rank \in [L!Tree -> 0 .. N] /\ V # {} /\ N \in Nat
  BY Sizes DEF L!Tree
<1>4. ASSUME NEW n \in L!Tree, NEW f \in [L!Tree -> V], NEW g \in [L!Tree -> V],
             \A t \in L!Tree : rank[t] < rank[n] => f[t] = g[t]
      PROVE  G[<<n, f>>] = G[<<n, g>>]
  <2>1. ASSUME n \in L!Nodes PROVE f[L!A(n)] = g[L!A(n)] /\ f[L!B(n)] = g[L!B(n)]
    <3>1. /\ L!A(n) \in L!Tree /\ L!B(n) \in L!Tree /\ L!A(n) > n /\ L!B(n) > n
          /\ L!A(n) \in Int /\ L!B(n) \in Int /\ n \in Int /\ N \in Int
      BY <1>3, <2>1, Children, Sizes DEF L!Tree
    <3>2. rank[L!A(n)] < rank[n] /\ rank[L!B(n)] < rank[n]
      <4> HIDE DEF N
      <4> QED
        BY <3>1
    <3> HIDE DEF rank
    <3> QED
      BY <1>4, <3>1, <3>2
  <2>2. Step(f, n) = Step(g, n)
    BY <2>1
  <2> HIDE DEF Step, V, rank
  <2> QED
    BY <2>2
<1>5. Descends(L!Tree, V, N, rank, G)
  <2> HIDE DEF G, V, N, rank
  <2> QED
    BY <1>2, <1>3, <1>4 DEF Descends
<1>6. PICK f \in [L!Tree -> V] : \A n \in L!Tree : f[n] = G[<<n, f>>]
  <2> HIDE DEF G, V, N, rank
  <2> QED
    BY <1>5, RecursionExists
<1>7. f = [n \in L!Tree |-> Step(f, n)]
  <2> HIDE DEF Step, V
  <2> QED
    BY <1>6
<1>8. L!Below = CHOOSE g : g = [n \in L!Tree |-> Step(g, n)]
  BY DEF L!Below
<1>9. L!Below = [n \in L!Tree |-> Step(L!Below, n)]
  <2> HIDE DEF Step, V
  <2> QED
    BY <1>7, <1>8
<1> QED
  BY <1>9

(* A subject is below the nodes above it.                                  *)
LEMMA BelowIsAbove ==
  ASSUME NEW i \in L!Subjects, NEW n \in L!Tree
  PROVE  i \in L!Below[n] <=> \E k \in Depths : n = Above(i, k)
<1> DEFINE N == 2 * L!P_COUNT - 2
           Q(t) == i \in L!Below[t] <=> \E k \in Depths : t = Above(i, k)
           I == {m \in 0 .. N : \A t \in L!Tree : N - t <= m => Q(t)}
<1>1. ASSUME NEW t \in L!Tree, t \notin L!Nodes PROVE Q(t)
  <2>1. i \in L!Below[t] <=> t = L!Leaf(i)
    <3>1. L!Below[t] = {t - (L!P_COUNT - 1)}
      BY <1>1, BelowRecursion
    <3>2. i = t - (L!P_COUNT - 1) <=> t = L!Leaf(i)
      BY Sizes DEF L!Leaf, L!Tree, L!Subjects
    <3> QED
      BY <3>1, <3>2
  <2>2. \A k \in Depths : t = Above(i, k) => k = 0
    BY <1>1, NodesAbove
  <2>3. 0 \in Depths /\ Above(i, 0) = L!Leaf(i)
    BY NodesAbove, Sizes DEF Depths
  <2> QED
    BY <2>1, <2>2, <2>3
<1>2. ASSUME NEW t \in L!Nodes, Q(L!A(t)), Q(L!B(t)) PROVE Q(t)
  <2>1. L!Below[t] = L!Below[L!A(t)] \cup L!Below[L!B(t)]
    BY <1>2, BelowRecursion, Children
  <2>2. ASSUME NEW k \in Depths, t = Above(i, k) PROVE i \in L!Below[t]
    <3>1. k # 0
      <4>1. L!Leaf(i) \notin L!Nodes
        BY Sizes DEF L!Leaf, L!Nodes, L!Subjects
      <4> QED
        BY <2>2, <4>1, NodesAbove
    <3>2. k - 1 \in Depths /\ k - 1 < SubjectCountLog2 /\ (k - 1) + 1 = k
      BY <3>1, Sizes DEF Depths
    <3>3. Above(i, k - 1) = L!A(t) \/ Above(i, k - 1) = L!B(t)
      BY <2>2, <3>2, NodesAbove
    <3> QED
      BY <1>2, <2>1, <3>2, <3>3
  <2>3. ASSUME NEW k \in Depths, NEW c \in {L!A(t), L!B(t)}, c = Above(i, k)
        PROVE  \E h \in Depths : t = Above(i, h)
    <3>1. c # 0 /\ L!Parent(c) = t
      BY Children, Sizes DEF L!Nodes
    <3>2. k < SubjectCountLog2 /\ k + 1 \in Depths
      BY <2>3, <3>1, NodesAbove, Sizes DEF Depths
    <3> QED
      BY <2>3, <3>1, <3>2, NodesAbove
  <2> QED
    BY <1>2, <2>1, <2>2, <2>3
<1> HIDE DEF Q
<1>3. 0 \in I
  <2>1. \A t \in L!Tree : N - t <= 0 => t \notin L!Nodes
    BY Sizes DEF L!Tree, L!Nodes
  <2> QED
    BY <1>1, <2>1, Sizes
<1>4. ASSUME NEW m \in 1 .. N, m - 1 \in I PROVE m \in I
  <2> SUFFICES ASSUME NEW t \in L!Tree, N - t <= m PROVE Q(t)
    BY Sizes
  <2>1. \A c \in L!Tree : c > t => Q(c)
    <3>1. \A c \in L!Tree : c > t => N - c <= m - 1
      BY Sizes DEF L!Tree
    <3> QED
      BY <1>4, <3>1
  <2> QED
    BY <1>1, <1>2, <2>1, Children
<1>5. N \in Nat /\ n \in Int /\ N - n <= N
  BY Sizes DEF L!Tree
<1> HIDE DEF I
<1>6. N \in I
  <2> HIDE DEF N
  <2> QED
    BY <1>3, <1>4, <1>5, UpTo
<1>7. Q(n)
  BY <1>5, <1>6 DEF I
<1> QED
  BY <1>7 DEF Q

(* The node a subject is in the first half of, and in which half.          *)
LEMMA HalfIsAbove ==
  ASSUME NEW i \in L!Subjects, NEW k \in Depths, k < SubjectCountLog2
  PROVE  i \in L!Below[L!A(Above(i, k + 1))] <=> Place(i, k) % 2 = 0
<1> DEFINE n == Above(i, k + 1)
<1>1. k + 1 \in Depths /\ k + 1 # 0 /\ n \in L!Nodes
  BY NodesAbove, Sizes DEF Depths
<1>2. CASE Place(i, k) % 2 = 0
  <2>1. Above(i, k) = L!A(n) /\ L!A(n) \in L!Tree
    BY <1>1, <1>2, NodesAbove, Children
  <2> QED
    BY <1>2, <2>1, BelowIsAbove
<1>3. CASE Place(i, k) % 2 # 0
  <2>1. Above(i, k) = L!B(n) /\ L!A(n) \in L!Tree
    BY <1>1, <1>3, NodesAbove, Children
  <2>2. \A a \in Depths, b \in Depths : a < b => Above(i, b) < Above(i, a)
    <3>0. \A a \in Depths : Above(i, a) \in Nat
      BY NodesAbove, Sizes DEF L!Tree
    <3>1. \A a \in Depths : a < SubjectCountLog2 =>
             a + 1 \in Depths /\ Above(i, a + 1) < Above(i, a)
      BY NodesAbove, Children, Sizes DEF Depths
    <3> DEFINE J == {b \in Depths : \A a \in Depths : a < b => Above(i, b) < Above(i, a)}
    <3>2. 0 \in J
      BY Sizes DEF Depths
    <3>3. ASSUME NEW b \in 1 .. SubjectCountLog2, b - 1 \in J PROVE b \in J
      <4> SUFFICES ASSUME NEW a \in Depths, a < b PROVE Above(i, b) < Above(i, a)
        BY Sizes DEF Depths
      <4>1. b - 1 \in Depths /\ b - 1 < SubjectCountLog2 /\ (b - 1) + 1 = b /\ b \in Depths
        BY Sizes DEF Depths
      <4>2. Above(i, b) < Above(i, b - 1)
        BY <3>1, <4>1
      <4>3. a = b - 1 \/ a < b - 1
        BY <4>1, Sizes DEF Depths
      <4> QED
        BY <3>0, <3>3, <4>1, <4>2, <4>3
    <3> HIDE DEF J
    <3>4. \A b \in 0 .. SubjectCountLog2 : b \in J
      BY <3>2, <3>3, Sizes, UpTo
    <3> QED
      BY <3>4 DEF J, Depths
  <2>3. ASSUME NEW h \in Depths, L!A(n) = Above(i, h) PROVE FALSE
    <3>1. L!A(n) # 0 /\ L!Parent(L!A(n)) = n
      BY <1>1, Children, Sizes DEF L!Nodes
    <3>2. h < SubjectCountLog2 /\ h + 1 \in Depths /\ Above(i, h + 1) = n
      BY <2>3, <3>1, NodesAbove, Sizes DEF Depths
    <3>3. \A a \in Depths : Above(i, a) \in Nat
      BY NodesAbove, Sizes DEF L!Tree
    <3>4. h + 1 = k + 1
      <4>1. ~(h + 1 < k + 1) /\ ~(k + 1 < h + 1)
        BY <1>1, <2>2, <3>2, <3>3
      <4> QED
        BY <4>1, Sizes DEF Depths
    <3>5. h = k
      BY <3>4, Sizes DEF Depths
    <3> QED
      BY <1>1, <2>1, <2>3, <3>5, Children
  <2> QED
    BY <1>3, <2>1, <2>3, BelowIsAbove
<1> QED
  BY <1>2, <1>3

(* Eval turns the bits the hardware turns.                                 *)
LEMMA UpdatesAgree ==
  ASSUME NEW index \in L!Subjects
  PROVE  L!Updated(index) = L!BitsNext(lru_bits, {index})
<1> DEFINE level(i) == L!TwoTo[SubjectCountLog2 - i - 1] - 1 + index \div L!TwoTo[i + 1]
           Levels == 0 .. SubjectCountLog2 - 1
           Path == {level(i) : i \in Levels}
           turned(n) == \E i \in Levels : n = level(i) /\ (index \div L!TwoTo[i]) % 2 = 0
<1>1. L!Updated(index) = [n \in L!Nodes |-> IF n \in Path THEN turned(n) ELSE lru_bits[n]]
  <2>1. ~(index < 0)
    BY Sizes DEF L!Subjects
  <2> QED
    BY <2>1 DEF L!Updated
<1>2. \A i \in Levels : /\ level(i) = Above(index, i + 1) /\ i \in Depths /\ i + 1 \in Depths
                         /\ i < SubjectCountLog2 /\ i + 1 # 0
                         /\ index \div L!TwoTo[i] = Place(index, i)
  BY Sizes DEF Above, Place, Depths
<1>3. \A k \in Depths : k # 0 => k - 1 \in Levels /\ (k - 1) + 1 = k
  BY Sizes DEF Depths
<1>4. \A n \in L!Nodes : n \in L!Tree /\ \A k \in Depths : n = Above(index, k) => k # 0
  <2>1. L!Leaf(index) \notin L!Nodes
    BY Sizes DEF L!Leaf, L!Nodes, L!Subjects
  <2> QED
    BY <2>1, NodesAbove, Children
<1> HIDE DEF level, Levels
<1>5. ASSUME NEW n \in L!Nodes PROVE n \in Path <=> index \in L!Below[n]
  <2>1. index \in L!Below[n] <=> \E k \in Depths : n = Above(index, k)
    BY <1>4, BelowIsAbove
  <2> QED
    BY <1>2, <1>3, <1>4, <2>1
<1>6. ASSUME NEW n \in L!Nodes, n \in Path
      PROVE  turned(n) <=> index \in L!Below[L!A(n)]
  <2>1. \A i \in Levels : index \in L!Below[L!A(level(i))] <=> (index \div L!TwoTo[i]) % 2 = 0
    BY <1>2, HalfIsAbove
  <2> QED
    BY <1>6, <2>1
<1> HIDE DEF Path, turned
<1>7. L!BitsNext(lru_bits, {index})
        = [n \in L!Nodes |-> IF index \notin L!Below[n] THEN lru_bits[n] ELSE index \in L!Below[L!A(n)]]
  <2>1. \A S : ({index} \cap S = {} <=> index \notin S)
    OBVIOUS
  <2> QED
    BY <2>1 DEF L!BitsNext
<1>8. \A n \in L!Nodes : (IF n \in Path THEN turned(n) ELSE lru_bits[n])
         = (IF index \notin L!Below[n] THEN lru_bits[n] ELSE index \in L!Below[L!A(n)])
  <2> SUFFICES ASSUME NEW n \in L!Nodes
               PROVE  (IF n \in Path THEN turned(n) ELSE lru_bits[n])
         = (IF index \notin L!Below[n] THEN lru_bits[n] ELSE index \in L!Below[L!A(n)])
    OBVIOUS
  <2>1. turned(n) \in BOOLEAN
    BY DEF turned
  <2> QED
    BY <1>5, <1>6, <2>1
<1> QED
  BY <1>1, <1>7, <1>8

-----------------------------------------------------------------------------
(* The order of level i that Eval makes of the one above, and the node it  *)
(* has at place k.                                                         *)
Level(i) == 0 .. L!TwoTo[i] - 1

OrderStep(b, f, i) ==
  IF i = 0 THEN [k \in {0} |-> 0]
  ELSE [k \in Level(i) |->
         LET s == f[i - 1][k \div 2]
         IN  2 * s + (IF (k % 2 = 1) # b[L!TwoTo[i - 1] - 1 + s] THEN 1 ELSE 0)]

Order(b) == CHOOSE f : f = [i \in Depths |-> OrderStep(b, f, i)]

NodeAt(b, i, k) == L!TwoTo[i] - 1 + Order(b)[i][k]

LEMMA StepTyped ==
  ASSUME NEW b, NEW f, NEW i \in Depths,
         i # 0 => f[i - 1] \in [Level(i - 1) -> Level(i - 1)]
  PROVE  OrderStep(b, f, i) \in [Level(i) -> Level(i)]
<1>1. CASE i = 0
  <2>1. Level(0) = {0}
    BY PowersOfTwo DEF Level
  <2> QED
    BY <1>1, <2>1 DEF OrderStep
<1>2. CASE i # 0
  <2>1. /\ i - 1 \in Depths /\ i - 1 \in 0 .. SubjectCountLog2 - 1 /\ (i - 1) + 1 = i
    BY <1>2, Sizes DEF Depths
  <2>2. L!TwoTo[i] = 2 * L!TwoTo[i - 1] /\ L!TwoTo[i - 1] \in Nat \ {0}
    BY <2>1, Sizes
  <2>3. ASSUME NEW k \in Level(i), NEW s, s = f[i - 1][k \div 2], NEW d \in {0, 1}
        PROVE  2 * s + d \in Level(i)
    <3>1. k \div 2 \in Level(i - 1)
      BY <2>2 DEF Level
    <3>2. s \in Level(i - 1)
      BY <1>2, <2>3, <3>1
    <3> QED
      BY <2>2, <3>2 DEF Level
  <2>4. \A k \in Level(i) : OrderStep(b, f, i)[k] \in Level(i)
    BY <1>2, <2>3 DEF OrderStep
  <2>5. OrderStep(b, f, i) = [k \in Level(i) |-> OrderStep(b, f, i)[k]]
    BY <1>2 DEF OrderStep
  <2> QED
    BY <2>4, <2>5
<1> QED
  BY <1>1, <1>2

LEMMA OrderRecursion ==
  ASSUME NEW b
  PROVE  /\ L!Ordered(b) = Order(b)[SubjectCountLog2]
         /\ \A i \in Depths : /\ Order(b)[i] = OrderStep(b, Order(b), i)
                              /\ Order(b)[i] \in [Level(i) -> Level(i)]
<1> DEFINE V == UNION {[Level(i) -> Level(i)] : i \in Depths}
           none == [k \in {0} |-> 0]
           Step(f, i) == IF OrderStep(b, f, i) \in V THEN OrderStep(b, f, i) ELSE none
           G == [x \in Depths \X [Depths -> V] |-> Step(x[2], x[1])]
           rank == [i \in Depths |-> i]
<1>0. 0 \in Depths /\ \A i \in Depths : i # 0 => i - 1 \in Depths /\ i - 1 < i
  BY Sizes DEF Depths
<1>1. none \in V
  <2>1. none \in [Level(0) -> Level(0)]
    BY PowersOfTwo DEF Level
  <2> HIDE DEF none
  <2> QED
    BY <1>0, <2>1
<1>2. ASSUME NEW i \in Depths, NEW f \in [Depths -> V], NEW g \in [Depths -> V],
             \A t \in Depths : rank[t] < rank[i] => f[t] = g[t]
      PROVE  G[<<i, f>>] = G[<<i, g>>]
  <2>1. i # 0 => f[i - 1] = g[i - 1]
    BY <1>0, <1>2
  <2>2. OrderStep(b, f, i) = OrderStep(b, g, i)
    BY <2>1 DEF OrderStep
  <2>3. Step(f, i) = Step(g, i)
    BY <2>2
  <2> HIDE DEF Step, V
  <2> QED
    BY <2>3
<1>3. G \in [Depths \X [Depths -> V] -> V]
  <2>1. ASSUME NEW f, NEW i PROVE Step(f, i) \in V
    <3> HIDE DEF V, none
    <3> QED
      BY <1>1
  <2> HIDE DEF Step, V
  <2> QED
    BY <2>1
<1>4. Descends(Depths, V, SubjectCountLog2, rank, G)
  <2>1. rank \in [Depths -> 0 .. SubjectCountLog2] /\ SubjectCountLog2 \in Nat
    BY Sizes DEF Depths
  <2> HIDE DEF G, V, rank, none
  <2> QED
    BY <1>1, <1>2, <1>3, <2>1 DEF Descends
<1>5. PICK f \in [Depths -> V] : \A i \in Depths : f[i] = G[<<i, f>>]
  <2> HIDE DEF G, V, rank
  <2> QED
    BY <1>4, RecursionExists
<1>6. \A i \in Depths : f[i] = Step(f, i)
  <2> HIDE DEF Step, V
  <2> QED
    BY <1>5
<1>7. ASSUME NEW i \in Depths, OrderStep(b, f, i) \in [Level(i) -> Level(i)]
      PROVE  f[i] = OrderStep(b, f, i)
  <2>1. OrderStep(b, f, i) \in V
    BY <1>7
  <2> HIDE DEF V
  <2> QED
    BY <1>6, <2>1
<1> HIDE DEF Step, V, none, G, rank
<1> DEFINE I == {i \in Depths : f[i] \in [Level(i) -> Level(i)]}
<1>8. \A i \in Depths : f[i] \in [Level(i) -> Level(i)]
  <2>1. 0 \in I
    <3>1. OrderStep(b, f, 0) \in [Level(0) -> Level(0)]
      BY <1>0, StepTyped
    <3> QED
      BY <1>0, <1>7, <3>1
  <2>2. ASSUME NEW i \in 1 .. SubjectCountLog2, i - 1 \in I PROVE i \in I
    <3>1. i \in Depths
      BY Sizes DEF Depths
    <3>2. OrderStep(b, f, i) \in [Level(i) -> Level(i)]
      BY <2>2, <3>1, StepTyped
    <3> QED
      BY <1>7, <3>1, <3>2
  <2> HIDE DEF I
  <2>3. \A i \in 0 .. SubjectCountLog2 : i \in I
    BY <2>1, <2>2, Sizes, UpTo
  <2> QED
    BY <2>3 DEF I, Depths
<1>9. \A i \in Depths : f[i] = OrderStep(b, f, i)
  BY <1>0, <1>7, <1>8, StepTyped
<1>10. f = [i \in Depths |-> OrderStep(b, f, i)]
  BY <1>9
<1>11. Order(b) = [i \in Depths |-> OrderStep(b, Order(b), i)]
  BY <1>10 DEF Order
<1>12. \A i \in Depths : Order(b)[i] = OrderStep(b, Order(b), i)
  BY <1>11
<1> DEFINE J == {i \in Depths : Order(b)[i] \in [Level(i) -> Level(i)]}
<1>13. \A i \in Depths : Order(b)[i] \in [Level(i) -> Level(i)]
  <2>1. 0 \in J
    BY <1>0, <1>12, StepTyped
  <2>2. ASSUME NEW i \in 1 .. SubjectCountLog2, i - 1 \in J PROVE i \in J
    <3>1. i \in Depths
      BY Sizes DEF Depths
    <3>2. OrderStep(b, Order(b), i) \in [Level(i) -> Level(i)]
      BY <2>2, <3>1, StepTyped
    <3> QED
      BY <1>12, <3>1, <3>2
  <2> HIDE DEF J
  <2>3. \A i \in 0 .. SubjectCountLog2 : i \in J
    BY <2>1, <2>2, Sizes, UpTo
  <2> QED
    BY <2>3 DEF J, Depths
<1>14. L!Ordered(b) = Order(b)[SubjectCountLog2]
  BY DEF L!Ordered, Order, OrderStep, Depths, Level
<1> QED
  BY <1>12, <1>13, <1>14

(* The two children of the node at place k come to places 2k and 2k + 1,   *)
(* first the half that its bit says.                                       *)
LEMMA ChildrenInOrder ==
  ASSUME NEW b \in [L!Nodes -> BOOLEAN], NEW i \in Depths, i < SubjectCountLog2, NEW k \in Level(i)
  PROVE  LET n == NodeAt(b, i, k)
         IN  /\ n \in L!Nodes /\ i + 1 \in Depths
             /\ 2 * k \in Level(i + 1) /\ 2 * k + 1 \in Level(i + 1)
             /\ NodeAt(b, i + 1, 2 * k) = IF b[n] THEN L!B(n) ELSE L!A(n)
             /\ NodeAt(b, i + 1, 2 * k + 1) = IF b[n] THEN L!A(n) ELSE L!B(n)
<1> DEFINE n == NodeAt(b, i, k)
           s == Order(b)[i][k]
<1>1. /\ i + 1 \in Depths /\ i + 1 # 0 /\ (i + 1) - 1 = i /\ i \in 0 .. SubjectCountLog2 - 1
  BY Sizes DEF Depths
<1>2. /\ L!TwoTo[i + 1] = 2 * L!TwoTo[i] /\ L!TwoTo[i] \in Nat \ {0} /\ L!TwoTo[i + 1] <= L!P_COUNT
  BY <1>1, Sizes
<1>3. s \in Level(i)
  BY OrderRecursion
<1>4. n \in L!Nodes
  <2>1. s \in Nat /\ s <= L!TwoTo[i] - 1 /\ L!P_COUNT \in Nat
    BY <1>2, <1>3, Sizes DEF Level
  <2>2. n = L!TwoTo[i] - 1 + s
    BY DEF NodeAt
  <2> HIDE DEF n, s
  <2> QED
    BY <1>2, <2>1, <2>2 DEF L!Nodes
<1>5. /\ 2 * k \in Level(i + 1) /\ (2 * k) \div 2 = k /\ (2 * k) % 2 = 0
      /\ 2 * k + 1 \in Level(i + 1) /\ (2 * k + 1) \div 2 = k /\ (2 * k + 1) % 2 = 1
  BY <1>2 DEF Level
<1>6. ASSUME NEW c \in Level(i + 1), c \div 2 = k
      PROVE  Order(b)[i + 1][c] = 2 * s + (IF (c % 2 = 1) # b[n] THEN 1 ELSE 0)
  <2>1. Order(b)[i + 1] = OrderStep(b, Order(b), i + 1)
    BY <1>1, OrderRecursion
  <2> QED
    BY <1>1, <1>6, <2>1 DEF OrderStep, NodeAt
<1> HIDE DEF s
<1>7. n = L!TwoTo[i] - 1 + s /\ s \in Int
  BY <1>2, <1>3 DEF NodeAt, Level, s
<1>8. b[n] \in BOOLEAN
  BY <1>4
<1>9. /\ NodeAt(b, i + 1, 2 * k) = L!TwoTo[i + 1] - 1 + 2 * s + (IF b[n] THEN 1 ELSE 0)
      /\ NodeAt(b, i + 1, 2 * k + 1) = L!TwoTo[i + 1] - 1 + 2 * s + (IF b[n] THEN 0 ELSE 1)
  <2>1. /\ Order(b)[i + 1][2 * k] = 2 * s + (IF b[n] THEN 1 ELSE 0)
        /\ Order(b)[i + 1][2 * k + 1] = 2 * s + (IF b[n] THEN 0 ELSE 1)
    <3> HIDE DEF n
    <3>1. Order(b)[i + 1][2 * k] = 2 * s + (IF (0 = 1) # b[n] THEN 1 ELSE 0)
      BY <1>5, <1>6
    <3>2. Order(b)[i + 1][2 * k + 1] = 2 * s + (IF (1 = 1) # b[n] THEN 1 ELSE 0)
      BY <1>5, <1>6
    <3>3. CASE b[n] = TRUE
      BY <3>1, <3>2, <3>3
    <3>4. CASE b[n] = FALSE
      BY <3>1, <3>2, <3>4
    <3> QED
      BY <1>8, <3>3, <3>4
  <2> HIDE DEF n
  <2> QED
    BY <1>2, <1>7, <2>1 DEF NodeAt
<1> HIDE DEF n
<1>10. /\ NodeAt(b, i + 1, 2 * k) = IF b[n] THEN L!B(n) ELSE L!A(n)
       /\ NodeAt(b, i + 1, 2 * k + 1) = IF b[n] THEN L!A(n) ELSE L!B(n)
  BY <1>2, <1>7, <1>9 DEF L!A, L!B
<1> QED
  BY <1>1, <1>4, <1>5, <1>10 DEF n

LEMMA Ends ==
  ASSUME NEW b
  PROVE  /\ Level(0) = {0} /\ NodeAt(b, 0, 0) = 0
         /\ Level(SubjectCountLog2) = L!Subjects
         /\ L!Ordered(b) \in [L!Subjects -> L!Subjects]
         /\ \A k \in L!Subjects : NodeAt(b, SubjectCountLog2, k) = L!Leaf(L!Ordered(b)[k])
<1>1. 0 \in Depths /\ SubjectCountLog2 \in Depths
  BY Sizes DEF Depths
<1>2. Level(0) = {0} /\ Level(SubjectCountLog2) = L!Subjects
  BY PowersOfTwo, Sizes DEF Level, L!Subjects
<1>3. NodeAt(b, 0, 0) = 0
  <2>1. Order(b)[0] = [k \in {0} |-> 0]
    BY <1>1, OrderRecursion DEF OrderStep
  <2> QED
    BY <2>1, PowersOfTwo DEF NodeAt
<1>4. L!Ordered(b) = Order(b)[SubjectCountLog2] /\ L!Ordered(b) \in [L!Subjects -> L!Subjects]
  BY <1>1, <1>2, OrderRecursion
<1> QED
  BY <1>2, <1>3, <1>4, Sizes DEF NodeAt, L!Leaf

(* Every place of a level is of a child.                                   *)
LEMMA PlacesOfChildren ==
  ASSUME NEW i \in Depths, i < SubjectCountLog2, NEW c \in Level(i + 1)
  PROVE  c \div 2 \in Level(i) /\ (c = 2 * (c \div 2) \/ c = 2 * (c \div 2) + 1)
<1>1. i \in 0 .. SubjectCountLog2 - 1
  BY Sizes DEF Depths
<1>2. L!TwoTo[i + 1] = 2 * L!TwoTo[i] /\ L!TwoTo[i] \in Nat \ {0}
  BY <1>1, Sizes
<1> QED
  BY <1>2 DEF Level

(* No node of a level is at two places, and none is missing.               *)
LEMMA OrderPermutes ==
  ASSUME NEW b \in [L!Nodes -> BOOLEAN]
  PROVE  /\ \A j, k \in L!Subjects : L!Ordered(b)[j] = L!Ordered(b)[k] => j = k
         /\ \A j \in L!Subjects : \E k \in L!Subjects : L!Ordered(b)[k] = j
<1> DEFINE Once(i) == \A j, k \in Level(i) : NodeAt(b, i, j) = NodeAt(b, i, k) => j = k
           All(i) == \A t \in L!TwoTo[i] - 1 .. 2 * L!TwoTo[i] - 2 : \E k \in Level(i) : NodeAt(b, i, k) = t
           I == {i \in Depths : Once(i) /\ All(i)}
<1>1. 0 \in I
  <2>1. Level(0) = {0} /\ NodeAt(b, 0, 0) = 0 /\ L!TwoTo[0] = 1 /\ 0 \in Depths
    <3>1. Level(0) = {0} /\ NodeAt(b, 0, 0) = 0
      BY Ends
    <3>2. L!TwoTo[0] = 1
      BY PowersOfTwo
    <3>3. 0 \in Depths
      BY Sizes DEF Depths
    <3> QED
      BY <3>1, <3>2, <3>3
  <2>2. Once(0)
    BY <2>1
  <2>3. All(0)
    BY <2>1
  <2> QED
    BY <2>1, <2>2, <2>3
<1>2. ASSUME NEW i \in Depths, i < SubjectCountLog2, i \in I PROVE i + 1 \in I
  <2>0. i + 1 \in Depths /\ i \in 0 .. SubjectCountLog2 - 1
    BY <1>2, Sizes DEF Depths
  <2>1. ASSUME NEW c \in Level(i + 1)
        PROVE  LET n == NodeAt(b, i, c \div 2)
               IN  /\ c \div 2 \in Level(i) /\ n \in L!Nodes
                   /\ L!Parent(NodeAt(b, i + 1, c)) = n
                   /\ \/ c = 2 * (c \div 2) /\ NodeAt(b, i + 1, c) = IF b[n] THEN L!B(n) ELSE L!A(n)
                      \/ c = 2 * (c \div 2) + 1 /\ NodeAt(b, i + 1, c) = IF b[n] THEN L!A(n) ELSE L!B(n)
    <3> DEFINE k == c \div 2
               n == NodeAt(b, i, k)
    <3>1. k \in Level(i) /\ (c = 2 * k \/ c = 2 * k + 1)
      BY <1>2, PlacesOfChildren
    <3>2. /\ n \in L!Nodes
          /\ NodeAt(b, i + 1, 2 * k) = IF b[n] THEN L!B(n) ELSE L!A(n)
          /\ NodeAt(b, i + 1, 2 * k + 1) = IF b[n] THEN L!A(n) ELSE L!B(n)
      <4> HIDE DEF k
      <4> QED
        BY <1>2, <3>1, ChildrenInOrder
    <3>3. L!Parent(L!A(n)) = n /\ L!Parent(L!B(n)) = n
      BY <3>2, Children
    <3> HIDE DEF n, k
    <3>4. /\ k \in Level(i) /\ n \in L!Nodes
          /\ L!Parent(NodeAt(b, i + 1, c)) = n
          /\ \/ c = 2 * k /\ NodeAt(b, i + 1, c) = IF b[n] THEN L!B(n) ELSE L!A(n)
             \/ c = 2 * k + 1 /\ NodeAt(b, i + 1, c) = IF b[n] THEN L!A(n) ELSE L!B(n)
      BY <3>1, <3>2, <3>3
    <3> QED
      BY <3>4 DEF k, n
  <2>2. Once(i + 1)
    <3> SUFFICES ASSUME NEW c \in Level(i + 1), NEW d \in Level(i + 1),
                        NodeAt(b, i + 1, c) = NodeAt(b, i + 1, d)
                 PROVE  c = d
      OBVIOUS
    <3> DEFINE n == NodeAt(b, i, c \div 2)
               m == NodeAt(b, i, d \div 2)
    <3>1. n = m
      BY <2>1
    <3>2. c \div 2 = d \div 2
      <4>1. c \div 2 \in Level(i) /\ d \div 2 \in Level(i)
        BY <2>1
      <4> QED
        BY <1>2, <3>1, <4>1
    <3>3. n \in L!Nodes /\ L!A(n) # L!B(n)
      BY <2>1, Children
    <3>4. /\ \/ c = 2 * (c \div 2) /\ NodeAt(b, i + 1, c) = IF b[n] THEN L!B(n) ELSE L!A(n)
             \/ c = 2 * (c \div 2) + 1 /\ NodeAt(b, i + 1, c) = IF b[n] THEN L!A(n) ELSE L!B(n)
          /\ \/ d = 2 * (d \div 2) /\ NodeAt(b, i + 1, d) = IF b[m] THEN L!B(m) ELSE L!A(m)
             \/ d = 2 * (d \div 2) + 1 /\ NodeAt(b, i + 1, d) = IF b[m] THEN L!A(m) ELSE L!B(m)
      BY <2>1
    <3> HIDE DEF n, m
    <3> QED
      BY <3>1, <3>2, <3>3, <3>4
  <2>3. All(i + 1)
    <3> SUFFICES ASSUME NEW t \in L!TwoTo[i + 1] - 1 .. 2 * L!TwoTo[i + 1] - 2
                 PROVE  \E k \in Level(i + 1) : NodeAt(b, i + 1, k) = t
      OBVIOUS
    <3>1. /\ L!TwoTo[i + 1] = 2 * L!TwoTo[i] /\ L!TwoTo[i] \in Nat \ {0}
          /\ L!TwoTo[i + 1] <= L!P_COUNT
      BY <2>0, Sizes
    <3>2. /\ L!Parent(t) \in L!TwoTo[i] - 1 .. 2 * L!TwoTo[i] - 2
          /\ t \in L!Tree /\ t # 0
      BY <3>1, Sizes DEF L!Parent, L!Tree
    <3>3. PICK k \in Level(i) : NodeAt(b, i, k) = L!Parent(t)
      BY <1>2, <3>2
    <3>4. t = L!A(L!Parent(t)) \/ t = L!B(L!Parent(t))
      BY <3>2, Children
    <3>5. b[L!Parent(t)] \in BOOLEAN
      BY <3>2, Children
    <3>6. /\ 2 * k \in Level(i + 1) /\ 2 * k + 1 \in Level(i + 1)
          /\ NodeAt(b, i + 1, 2 * k) = IF b[L!Parent(t)] THEN L!B(L!Parent(t)) ELSE L!A(L!Parent(t))
          /\ NodeAt(b, i + 1, 2 * k + 1) = IF b[L!Parent(t)] THEN L!A(L!Parent(t)) ELSE L!B(L!Parent(t))
      BY <1>2, <3>3, ChildrenInOrder
    <3> QED
      BY <3>4, <3>5, <3>6
  <2> QED
    BY <2>0, <2>2, <2>3
<1> HIDE DEF I
<1>3. \A i \in 0 .. SubjectCountLog2 : i \in I
  <2>1. ASSUME NEW i \in 1 .. SubjectCountLog2, i - 1 \in I PROVE i \in I
    <3>1. i - 1 \in Depths /\ i - 1 < SubjectCountLog2 /\ (i - 1) + 1 = i
      BY Sizes DEF Depths
    <3> QED
      BY <1>2, <2>1, <3>1
  <2> QED
    BY <1>1, <2>1, Sizes, UpTo
<1>4. Once(SubjectCountLog2) /\ All(SubjectCountLog2)
  BY <1>3, Sizes DEF I
<1>5. /\ L!Ordered(b) \in [L!Subjects -> L!Subjects] /\ Level(SubjectCountLog2) = L!Subjects
      /\ \A k \in L!Subjects : NodeAt(b, SubjectCountLog2, k) = L!Leaf(L!Ordered(b)[k])
  BY Ends
<1>6. \A j, k \in L!Subjects : L!Ordered(b)[j] = L!Ordered(b)[k] => j = k
  BY <1>4, <1>5
<1>7. ASSUME NEW j \in L!Subjects PROVE \E k \in L!Subjects : L!Ordered(b)[k] = j
  <2>1. L!Leaf(j) \in L!TwoTo[SubjectCountLog2] - 1 .. 2 * L!TwoTo[SubjectCountLog2] - 2
    BY Sizes DEF L!Leaf, L!Subjects
  <2>2. PICK k \in L!Subjects : L!Leaf(L!Ordered(b)[k]) = L!Leaf(j)
    BY <1>4, <1>5, <2>1
  <2>3. L!Ordered(b)[k] \in Int /\ j \in Int /\ L!P_COUNT \in Int
    BY <1>5, Sizes DEF L!Subjects
  <2> QED
    BY <2>2, <2>3 DEF L!Leaf
<1> QED
  BY <1>6, <1>7

LEMMA BelowNotEmpty ==
  \A n \in L!Tree : L!Below[n] \in SUBSET L!Subjects /\ L!Below[n] # {}
<1> DEFINE N == 2 * L!P_COUNT - 2
           Q(t) == L!Below[t] \in SUBSET L!Subjects /\ L!Below[t] # {}
           I == {m \in 0 .. N : \A t \in L!Tree : N - t <= m => Q(t)}
<1>1. ASSUME NEW t \in L!Tree, t \notin L!Nodes PROVE Q(t)
  <2>1. L!Below[t] = {t - (L!P_COUNT - 1)}
    BY <1>1, BelowRecursion
  <2>2. t - (L!P_COUNT - 1) \in L!Subjects
    BY <1>1, Sizes DEF L!Nodes, L!Tree, L!Subjects
  <2> QED
    BY <2>1, <2>2
<1>2. ASSUME NEW t \in L!Nodes, Q(L!A(t)), Q(L!B(t)) PROVE Q(t)
  BY <1>2, BelowRecursion, Children
<1> HIDE DEF Q
<1>3. 0 \in I
  <2>1. \A t \in L!Tree : N - t <= 0 => t \notin L!Nodes
    BY Sizes DEF L!Tree, L!Nodes
  <2> QED
    BY <1>1, <2>1, Sizes
<1>4. ASSUME NEW m \in 1 .. N, m - 1 \in I PROVE m \in I
  <2> SUFFICES ASSUME NEW t \in L!Tree, N - t <= m PROVE Q(t)
    BY Sizes
  <2>1. \A c \in L!Tree : c > t => Q(c)
    <3>1. \A c \in L!Tree : c > t => N - c <= m - 1
      BY Sizes DEF L!Tree
    <3> QED
      BY <1>4, <3>1
  <2> QED
    BY <1>1, <1>2, <2>1, Children
<1>5. N \in Nat /\ \A n \in L!Tree : n \in Int /\ N - n <= N
  BY Sizes DEF L!Tree
<1> HIDE DEF I
<1>6. N \in I
  <2> HIDE DEF N
  <2> QED
    BY <1>3, <1>4, <1>5, UpTo
<1>7. \A n \in L!Tree : Q(n)
  BY <1>5, <1>6 DEF I
<1> QED
  BY <1>7 DEF Q

-----------------------------------------------------------------------------
(* What a walk from the root along c reaches.                              *)
LEMMA WalkExists ==
  ASSUME NEW c \in [L!Tree -> BOOLEAN]
  PROVE  \E f \in [L!Tree -> BOOLEAN] :
           \A n \in L!Tree : f[n] = (n = 0 \/ (c[n] /\ f[L!Parent(n)]))
<1> DEFINE V == BOOLEAN
           N == 2 * L!P_COUNT - 2
           Step(f, n) == n = 0 \/ (c[n] /\ f[L!Parent(n)])
           G == [x \in L!Tree \X [L!Tree -> V] |-> Step(x[2], x[1])]
           rank == [n \in L!Tree |-> n]
<1>1. G \in [L!Tree \X [L!Tree -> V] -> V]
  <2>1. \A f, n : Step(f, n) \in V
    OBVIOUS
  <2> HIDE DEF Step, V
  <2> QED
    BY <2>1
<1>2. ASSUME NEW n \in L!Tree, NEW f \in [L!Tree -> V], NEW g \in [L!Tree -> V],
             \A t \in L!Tree : rank[t] < rank[n] => f[t] = g[t]
      PROVE  G[<<n, f>>] = G[<<n, g>>]
  <2>1. n # 0 => f[L!Parent(n)] = g[L!Parent(n)]
    <3>1. n # 0 => L!Parent(n) \in L!Tree /\ rank[L!Parent(n)] < rank[n]
      BY Children
    <3> HIDE DEF rank
    <3> QED
      BY <1>2, <3>1
  <2>2. Step(f, n) = Step(g, n)
    BY <2>1, Zenon
  <2> HIDE DEF Step, V
  <2> QED
    BY <2>2
<1>3. Descends(L!Tree, V, N, rank, G)
  <2>1. rank \in [L!Tree -> 0 .. N] /\ N \in Nat /\ V # {}
    BY Sizes DEF L!Tree
  <2> HIDE DEF G, V, N, rank
  <2> QED
    BY <1>1, <1>2, <2>1 DEF Descends
<1>4. PICK f \in [L!Tree -> V] : \A n \in L!Tree : f[n] = G[<<n, f>>]
  <2> HIDE DEF G, V, N, rank
  <2> QED
    BY <1>3, RecursionExists
<1>5. \A n \in L!Tree : f[n] = Step(f, n)
  <2> HIDE DEF Step, V
  <2> QED
    BY <1>4
<1> QED
  BY <1>5

(* The half of a node that its bit says was used longer ago.               *)
Older(b, n) == IF b[n] THEN L!B(n) ELSE L!A(n)
Newer(b, n) == IF b[n] THEN L!A(n) ELSE L!B(n)

LEMMA SelectedChild ==
  ASSUME NEW b \in [L!Nodes -> BOOLEAN], NEW valid \in SUBSET L!Subjects, NEW n \in L!Nodes,
         valid \cap L!Below[n] # {}
  PROVE  /\ L!Selects(b, valid, Older(b, n)) <=> valid \cap L!Below[Older(b, n)] # {}
         /\ L!Selects(b, valid, Newer(b, n)) <=> valid \cap L!Below[Older(b, n)] = {}
         /\ valid \cap L!Below[Older(b, n)] # {} \/ valid \cap L!Below[Newer(b, n)] # {}
<1> DEFINE f == Older(b, n)
           g == Newer(b, n)
           a == valid \cap L!Below[L!A(n)] # {}
           d == valid \cap L!Below[L!B(n)] # {}
<1>1. /\ L!Parent(f) = n /\ L!Parent(g) = n /\ L!A(n) # L!B(n) /\ b[n] \in BOOLEAN
      /\ (f = L!B(n)) = b[n] /\ (g = L!B(n)) = ~b[n]
      /\ (f = L!B(n) /\ g = L!A(n)) \/ (f = L!A(n) /\ g = L!B(n))
  BY Children DEF Older, Newer
<1>2. a \/ d
  BY BelowRecursion, Children
<1>3. L!Selects(b, valid, f) <=> IF a # d THEN valid \cap L!Below[f] # {} ELSE TRUE
  <2> HIDE DEF f
  <2> QED
    BY <1>1, <1>2 DEF L!Selects
<1>4. L!Selects(b, valid, g) <=> IF a # d THEN valid \cap L!Below[g] # {} ELSE FALSE
  <2> HIDE DEF g
  <2> QED
    BY <1>1, <1>2 DEF L!Selects
<1> HIDE DEF f, g
<1>5. /\ L!Selects(b, valid, f) <=> valid \cap L!Below[f] # {}
      /\ L!Selects(b, valid, g) <=> valid \cap L!Below[f] = {}
      /\ valid \cap L!Below[f] # {} \/ valid \cap L!Below[g] # {}
  BY <1>1, <1>2, <1>3, <1>4
<1> QED
  BY <1>5 DEF f, g

LEMMA Leaves ==
  ASSUME NEW j \in L!Subjects
  PROVE  L!Leaf(j) \in L!Tree /\ L!Leaf(j) \notin L!Nodes /\ L!Below[L!Leaf(j)] = {j}
<1>1. /\ j \in Nat /\ j < L!P_COUNT /\ L!P_COUNT \in Nat \ {0, 1}
      /\ L!Leaf(j) = L!P_COUNT - 1 + j
  BY Sizes DEF L!Leaf, L!Subjects
<1>2. L!Leaf(j) \in L!Tree /\ L!Leaf(j) \notin L!Nodes /\ L!Leaf(j) - (L!P_COUNT - 1) = j
  BY <1>1 DEF L!Tree, L!Nodes
<1> QED
  BY <1>2, BelowRecursion

(* sel holds of the nodes that every node above them selects.              *)
SelectedFromRoot(b, valid, sel) ==
  /\ sel \in [L!Tree -> BOOLEAN]
  /\ \A n \in L!Tree : sel[n] <=> n = 0 \/ (L!Selects(b, valid, n) /\ sel[L!Parent(n)])

Reached(sel) == {i \in L!Subjects : sel[L!Leaf(i)]}

(* The tree selects what comes first in the order.                         *)
LEMMA FirstIsSelected ==
  ASSUME NEW b \in [L!Nodes -> BOOLEAN], NEW valid \in SUBSET L!Subjects, valid # {},
         NEW sel, SelectedFromRoot(b, valid, sel)
  PROVE  \E k \in L!Subjects :
           /\ L!Ordered(b)[k] \in valid
           /\ \A j \in L!Subjects : j < k => L!Ordered(b)[j] \notin valid
           /\ Reached(sel) = {L!Ordered(b)[k]}
<1> DEFINE Some(n) == valid \cap L!Below[n] # {}
           First(i, k) == /\ Some(NodeAt(b, i, k))
                          /\ \A j \in Level(i) : j < k => ~Some(NodeAt(b, i, j))
                          /\ \A j \in Level(i) : sel[NodeAt(b, i, j)] <=> j = k
           I == {i \in Depths : \E k \in Level(i) : First(i, k)}
<1>0. /\ sel \in [L!Tree -> BOOLEAN]
      /\ \A n \in L!Tree : sel[n] <=> n = 0 \/ (L!Selects(b, valid, n) /\ sel[L!Parent(n)])
  BY DEF SelectedFromRoot
<1>1. 0 \in I
  <2>1. Level(0) = {0} /\ NodeAt(b, 0, 0) = 0
    BY Ends
  <2>2. 0 \in Depths /\ SubjectCountLog2 \in Depths /\ 0 \in L!Tree
    BY Sizes DEF Depths, L!Tree
  <2>3. PICK j \in L!Subjects : j \in valid
    OBVIOUS
  <2>4. j \in L!Below[0]
    BY <2>2, NodesAbove, BelowIsAbove
  <2>5. Some(0) /\ sel[0]
    BY <1>0, <2>2, <2>3, <2>4
  <2> HIDE DEF Some
  <2>6. First(0, 0)
    BY <2>1, <2>5
  <2> QED
    BY <2>1, <2>2, <2>6
<1>2. ASSUME NEW i \in Depths, i < SubjectCountLog2, i \in I PROVE i + 1 \in I
  <2>1. PICK k \in Level(i) : First(i, k)
    BY <1>2
  <2> DEFINE n == NodeAt(b, i, k)
             f == NodeAt(b, i + 1, 2 * k)
             g == NodeAt(b, i + 1, 2 * k + 1)
             h == IF Some(f) THEN 2 * k ELSE 2 * k + 1
  <2>2. /\ n \in L!Nodes /\ i + 1 \in Depths
        /\ 2 * k \in Level(i + 1) /\ 2 * k + 1 \in Level(i + 1)
        /\ f = (IF b[n] THEN L!B(n) ELSE L!A(n)) /\ g = (IF b[n] THEN L!A(n) ELSE L!B(n))
    BY <1>2, ChildrenInOrder
  <2>3. ASSUME NEW c \in Level(i + 1)
        PROVE  /\ c \div 2 \in Level(i) /\ (c = 2 * (c \div 2) \/ c = 2 * (c \div 2) + 1)
               /\ NodeAt(b, i + 1, c) \in L!Tree /\ NodeAt(b, i + 1, c) # 0
               /\ L!Parent(NodeAt(b, i + 1, c)) = NodeAt(b, i, c \div 2)
               /\ Some(NodeAt(b, i + 1, c)) => Some(NodeAt(b, i, c \div 2))
    <3> DEFINE q == c \div 2
               m == NodeAt(b, i, q)
    <3>1. q \in Level(i) /\ (c = 2 * q \/ c = 2 * q + 1)
      BY <1>2, PlacesOfChildren
    <3>2. /\ m \in L!Nodes
          /\ NodeAt(b, i + 1, 2 * q) = IF b[m] THEN L!B(m) ELSE L!A(m)
          /\ NodeAt(b, i + 1, 2 * q + 1) = IF b[m] THEN L!A(m) ELSE L!B(m)
      <4> HIDE DEF q
      <4> QED
        BY <1>2, <3>1, ChildrenInOrder
    <3>3. /\ L!Parent(L!A(m)) = m /\ L!Parent(L!B(m)) = m /\ L!A(m) \in L!Tree /\ L!B(m) \in L!Tree
          /\ L!A(m) # 0 /\ L!B(m) # 0 /\ L!Below[m] = L!Below[L!A(m)] \cup L!Below[L!B(m)]
      <4> HIDE DEF m
      <4>1. m \in L!Tree /\ L!Below[m] = L!Below[L!A(m)] \cup L!Below[L!B(m)]
        BY <3>2, Children, BelowRecursion
      <4>2. m \in Nat
        BY <3>2, Sizes DEF L!Nodes
      <4> QED
        BY <3>2, <4>1, <4>2, Children
    <3>4. Some(L!A(m)) \/ Some(L!B(m)) => Some(m)
      BY <3>3
    <3> HIDE DEF Some, q, m
    <3>5. NodeAt(b, i + 1, c) = L!A(m) \/ NodeAt(b, i + 1, c) = L!B(m)
      BY <3>1, <3>2
    <3>6. /\ q \in Level(i) /\ (c = 2 * q \/ c = 2 * q + 1)
          /\ NodeAt(b, i + 1, c) \in L!Tree /\ NodeAt(b, i + 1, c) # 0
          /\ L!Parent(NodeAt(b, i + 1, c)) = m
          /\ Some(NodeAt(b, i + 1, c)) => Some(m)
      BY <3>1, <3>3, <3>4, <3>5
    <3> QED
      BY <3>6 DEF m, q
  <2>4. /\ L!Selects(b, valid, f) <=> Some(f)
        /\ L!Selects(b, valid, g) <=> ~Some(f)
        /\ Some(f) \/ Some(g)
    <3>1. valid \cap L!Below[n] # {}
      BY <2>1
    <3> HIDE DEF n, f, g
    <3>2. f = Older(b, n) /\ g = Newer(b, n)
      BY <2>2 DEF Older, Newer
    <3>3. n \in L!Nodes
      BY <2>2
    <3>4. /\ L!Selects(b, valid, Older(b, n)) <=> valid \cap L!Below[Older(b, n)] # {}
          /\ L!Selects(b, valid, Newer(b, n)) <=> valid \cap L!Below[Older(b, n)] = {}
          /\ valid \cap L!Below[Older(b, n)] # {} \/ valid \cap L!Below[Newer(b, n)] # {}
      BY <3>1, <3>3, SelectedChild, Zenon
    <3> QED
      BY <3>2, <3>4, Zenon
  <2>5. \A c \in Level(i + 1) :
          sel[NodeAt(b, i + 1, c)] <=> L!Selects(b, valid, NodeAt(b, i + 1, c)) /\ c \div 2 = k
    <3> SUFFICES ASSUME NEW c \in Level(i + 1)
                 PROVE  sel[NodeAt(b, i + 1, c)]
                          <=> L!Selects(b, valid, NodeAt(b, i + 1, c)) /\ c \div 2 = k
      OBVIOUS
    <3> DEFINE t == NodeAt(b, i + 1, c)
    <3>1. t \in L!Tree /\ t # 0 /\ L!Parent(t) = NodeAt(b, i, c \div 2) /\ c \div 2 \in Level(i)
      BY <2>3
    <3>2. sel[NodeAt(b, i, c \div 2)] <=> c \div 2 = k
      <4> HIDE DEF Some
      <4> QED
        BY <2>1, <3>1
    <3> HIDE DEF t
    <3>3. sel[t] <=> L!Selects(b, valid, t) /\ sel[L!Parent(t)]
      BY <1>0, <3>1
    <3> QED
      BY <3>1, <3>2, <3>3 DEF t
  <2>6. /\ k \in Int /\ (2 * k) \div 2 = k /\ (2 * k + 1) \div 2 = k
        /\ \A c \in Level(i + 1) : c \in Int
        /\ \A c \in Level(i) : c \in Int
    BY Sizes, <2>2 DEF Level, Depths
  <2> HIDE DEF Some
  <2>7. h \in Level(i + 1)
    BY <2>2
  <2>8. Some(NodeAt(b, i + 1, h))
    BY <2>4
  <2>9. ASSUME NEW c \in Level(i + 1), c < h PROVE ~Some(NodeAt(b, i + 1, c))
    <3>1. c \div 2 < k \/ (c = 2 * k /\ ~Some(f))
      <4> HIDE DEF f
      <4> QED
        BY <2>3, <2>6, <2>9
    <3>2. c \div 2 < k => ~Some(NodeAt(b, i, c \div 2))
      BY <2>1, <2>3
    <3> QED
      BY <2>3, <3>1, <3>2
  <2>10. ASSUME NEW c \in Level(i + 1) PROVE sel[NodeAt(b, i + 1, c)] <=> c = h
    <3>1. CASE c = 2 * k
      <4>1. sel[NodeAt(b, i + 1, c)] <=> L!Selects(b, valid, f)
        BY <2>5, <2>6, <3>1
      <4> HIDE DEF f
      <4> QED
        BY <2>4, <2>6, <3>1, <4>1
    <3>2. CASE c = 2 * k + 1
      <4>1. sel[NodeAt(b, i + 1, c)] <=> L!Selects(b, valid, g)
        BY <2>5, <2>6, <3>2
      <4> HIDE DEF f, g
      <4> QED
        BY <2>4, <2>6, <3>2, <4>1
    <3>3. CASE c # 2 * k /\ c # 2 * k + 1
      <4>1. c \div 2 # k
        BY <2>3, <3>3
      <4> HIDE DEF f
      <4> QED
        BY <2>5, <3>3, <4>1
    <3> QED
      BY <3>1, <3>2, <3>3
  <2> HIDE DEF h
  <2>11. First(i + 1, h)
    BY <2>8, <2>9, <2>10
  <2> QED
    BY <2>2, <2>7, <2>11
<1> HIDE DEF I
<1>3. \A i \in 0 .. SubjectCountLog2 : i \in I
  <2>1. ASSUME NEW i \in 1 .. SubjectCountLog2, i - 1 \in I PROVE i \in I
    <3>1. i - 1 \in Depths /\ i - 1 < SubjectCountLog2 /\ (i - 1) + 1 = i
      BY Sizes DEF Depths
    <3> QED
      BY <1>2, <2>1, <3>1
  <2> QED
    BY <1>1, <2>1, Sizes, UpTo
<1>4. PICK k \in Level(SubjectCountLog2) : First(SubjectCountLog2, k)
  <2>1. SubjectCountLog2 \in I
    BY <1>3, Sizes
  <2> HIDE DEF First
  <2> QED
    BY <2>1 DEF I
<1>5. /\ L!Ordered(b) \in [L!Subjects -> L!Subjects] /\ Level(SubjectCountLog2) = L!Subjects
      /\ \A j \in L!Subjects : NodeAt(b, SubjectCountLog2, j) = L!Leaf(L!Ordered(b)[j])
  BY Ends
<1>6. \A j \in L!Subjects : Some(L!Leaf(j)) <=> j \in valid
  <2>1. \A j \in L!Subjects : L!Below[L!Leaf(j)] = {j}
    BY Leaves
  <2> QED
    BY <2>1
<1> HIDE DEF Some
<1>7. /\ L!Ordered(b)[k] \in valid
      /\ \A j \in L!Subjects : j < k => L!Ordered(b)[j] \notin valid
      /\ \A j \in L!Subjects : sel[L!Leaf(L!Ordered(b)[j])] <=> j = k
  BY <1>4, <1>5, <1>6
<1>8. \A i \in L!Subjects : \E j \in L!Subjects : L!Ordered(b)[j] = i
  BY OrderPermutes
<1>9. {i \in L!Subjects : sel[L!Leaf(i)]} = {L!Ordered(b)[k]}
  BY <1>5, <1>7, <1>8
<1> QED
  BY <1>5, <1>7, <1>9 DEF Reached

LEMMA PickIsFirst ==
  ASSUME NEW b \in [L!Nodes -> BOOLEAN], NEW valid \in SUBSET L!Subjects
  PROVE  /\ valid # {} => \E k \in L!Subjects :
               /\ L!Ordered(b)[k] \in valid
               /\ \A j \in L!Subjects : j < k => L!Ordered(b)[j] \notin valid
               /\ L!Pick(b, valid) = {L!Ordered(b)[k]}
         /\ valid = {} => L!Pick(b, valid) = {}
<1> DEFINE Step(f, n) == n = 0 \/ (L!Selects(b, valid, n) /\ f[L!Parent(n)])
           sel == CHOOSE f : f = [n \in L!Tree |-> Step(f, n)]
           c == [n \in L!Tree |-> L!Selects(b, valid, n)]
<1>1. L!Pick(b, valid) = Reached(sel)
  BY DEF L!Pick, Reached
<1>2. sel = [n \in L!Tree |-> Step(sel, n)]
  <2>1. c \in [L!Tree -> BOOLEAN]
    BY DEF L!Selects
  <2>2. \A n \in L!Tree : c[n] = L!Selects(b, valid, n)
    OBVIOUS
  <2> HIDE DEF c
  <2>3. PICK f \in [L!Tree -> BOOLEAN] :
          \A n \in L!Tree : f[n] = (n = 0 \/ (c[n] /\ f[L!Parent(n)]))
    BY <2>1, WalkExists
  <2>4. \A n \in L!Tree : f[n] = Step(f, n)
    BY <2>2, <2>3
  <2> HIDE DEF Step
  <2>5. f = [n \in L!Tree |-> Step(f, n)]
    BY <2>4
  <2> QED
    BY <2>5
<1> HIDE DEF sel
<1>3. \A n \in L!Tree : sel[n] = Step(sel, n)
  <2> HIDE DEF Step
  <2> QED
    BY <1>2
<1>4. sel \in [L!Tree -> BOOLEAN]
  <2>1. \A n \in L!Tree : Step(sel, n) \in BOOLEAN
    OBVIOUS
  <2> HIDE DEF Step
  <2> QED
    BY <1>2, <2>1
<1>5. SelectedFromRoot(b, valid, sel)
  BY <1>3, <1>4 DEF SelectedFromRoot
<1>6. ASSUME valid # {}
      PROVE  \E k \in L!Subjects :
               /\ L!Ordered(b)[k] \in valid
               /\ \A j \in L!Subjects : j < k => L!Ordered(b)[j] \notin valid
               /\ L!Pick(b, valid) = {L!Ordered(b)[k]}
  BY <1>1, <1>5, <1>6, FirstIsSelected
<1>7. ASSUME valid = {} PROVE L!Pick(b, valid) = {}
  <2>1. \A n : ~L!Selects(b, valid, n)
    BY <1>7 DEF L!Selects
  <2>2. \A i \in L!Subjects : L!Leaf(i) \in L!Tree /\ L!Leaf(i) # 0
    BY Leaves, Sizes DEF L!Nodes
  <2> QED
    BY <1>1, <1>5, <2>1, <2>2 DEF SelectedFromRoot, Reached
<1> QED
  BY <1>6, <1>7

(* Swap selects as if all subjects were valid.                             *)
LEMMA SwapIsFirst ==
  ASSUME NEW b \in [L!Nodes -> BOOLEAN]
  PROVE  L!Swap(b) = {L!Ordered(b)[0]}
<1> DEFINE Points(n) == (n = L!B(L!Parent(n))) = b[L!Parent(n)]
           Step(f, n) == n = 0 \/ (Points(n) /\ f[L!Parent(n)])
           sel == CHOOSE f : f = [n \in L!Tree |-> Step(f, n)]
           c == [n \in L!Tree |-> Points(n)]
<1>1. L!Swap(b) = Reached(sel)
  BY DEF L!Swap, Reached
<1>2. sel = [n \in L!Tree |-> Step(sel, n)]
  <2>1. c \in [L!Tree -> BOOLEAN] /\ \A n \in L!Tree : c[n] = Points(n)
    OBVIOUS
  <2> HIDE DEF c, Points
  <2>2. PICK f \in [L!Tree -> BOOLEAN] :
          \A n \in L!Tree : f[n] = (n = 0 \/ (c[n] /\ f[L!Parent(n)]))
    BY <2>1, WalkExists
  <2>3. \A n \in L!Tree : f[n] = Step(f, n)
    BY <2>1, <2>2
  <2> HIDE DEF Step
  <2>4. f = [n \in L!Tree |-> Step(f, n)]
    BY <2>3
  <2> QED
    BY <2>4
<1> HIDE DEF sel
<1>3. sel \in [L!Tree -> BOOLEAN] /\ \A n \in L!Tree : sel[n] = Step(sel, n)
  <2>1. \A n \in L!Tree : Step(sel, n) \in BOOLEAN
    OBVIOUS
  <2> HIDE DEF Step
  <2> QED
    BY <1>2, <2>1
<1>4. ASSUME NEW n \in L!Tree, n # 0 PROVE Points(n) <=> L!Selects(b, L!Subjects, n)
  <2>1. /\ L!Parent(n) \in L!Nodes
        /\ L!A(L!Parent(n)) \in L!Tree /\ L!B(L!Parent(n)) \in L!Tree
    BY <1>4, Children
  <2>2. \A t \in L!Tree : L!Subjects \cap L!Below[t] # {}
    BY BelowNotEmpty
  <2>3. /\ L!Subjects \cap L!Below[L!A(L!Parent(n))] # {}
        /\ L!Subjects \cap L!Below[L!B(L!Parent(n))] # {}
    BY <2>1, <2>2
  <2> QED
    BY <2>3 DEF L!Selects
<1>5. SelectedFromRoot(b, L!Subjects, sel)
  <2> SUFFICES ASSUME NEW n \in L!Tree
               PROVE  sel[n] <=> n = 0 \/ (L!Selects(b, L!Subjects, n) /\ sel[L!Parent(n)])
    BY <1>3 DEF SelectedFromRoot
  <2>1. sel[n] = (n = 0 \/ (Points(n) /\ sel[L!Parent(n)]))
    BY <1>3
  <2> HIDE DEF Points
  <2> QED
    BY <1>4, <2>1
<1>6. 0 \in L!Subjects /\ \A k \in L!Subjects : k # 0 => 0 < k
  BY Sizes DEF L!Subjects
<1>7. PICK k \in L!Subjects :
        /\ \A j \in L!Subjects : j < k => L!Ordered(b)[j] \notin L!Subjects
        /\ Reached(sel) = {L!Ordered(b)[k]}
  <2>1. L!Subjects \in SUBSET L!Subjects /\ L!Subjects # {}
    BY <1>6
  <2> QED
    BY <1>5, <2>1, FirstIsSelected
<1>8. k = 0
  <2>1. L!Ordered(b)[0] \in L!Subjects
    BY <1>6, Ends
  <2> QED
    BY <1>6, <1>7, <2>1
<1> QED
  BY <1>1, <1>7, <1>8

(* The walk of PseudoLRUSwap::Eval comes to the first of the order.        *)
LEMMA WalkedIsFirst ==
  ASSUME NEW b \in [L!Nodes -> BOOLEAN]
  PROVE  L!Walked(b) = L!Ordered(b)[0]
<1> DEFINE Step(f, i) == IF i = 0 THEN 0
                         ELSE L!TwoTo[i] - 1 + 2 * (f[i - 1] - (L!TwoTo[i - 1] - 1))
                              + (IF b[f[i - 1]] THEN 1 ELSE 0)
           picked == CHOOSE f : f = [i \in Depths |-> Step(f, i)]
           first == [i \in Depths |-> NodeAt(b, i, 0)]
<1>1. L!Walked(b) = picked[SubjectCountLog2] - (L!P_COUNT - 1)
  BY DEF L!Walked, Depths
<1>2. ASSUME NEW i \in Depths, i < SubjectCountLog2
      PROVE  /\ i + 1 \in Depths /\ i + 1 # 0 /\ (i + 1) - 1 = i
             /\ NodeAt(b, i, 0) \in L!Nodes
             /\ NodeAt(b, i + 1, 0) = IF b[NodeAt(b, i, 0)] THEN L!B(NodeAt(b, i, 0))
                                       ELSE L!A(NodeAt(b, i, 0))
             /\ L!TwoTo[i + 1] = 2 * L!TwoTo[i] /\ L!TwoTo[i] \in Nat
  <2>1. i + 1 \in Depths /\ i + 1 # 0 /\ (i + 1) - 1 = i /\ i \in 0 .. SubjectCountLog2 - 1
    BY <1>2, Sizes DEF Depths
  <2>2. L!TwoTo[i + 1] = 2 * L!TwoTo[i] /\ L!TwoTo[i] \in Nat \ {0}
    BY <2>1, Sizes
  <2>3. 0 \in Level(i) /\ 2 * 0 = 0
    BY <2>2 DEF Level
  <2> QED
    BY <1>2, <2>1, <2>2, <2>3, ChildrenInOrder
<1>3. ASSUME NEW f, NEW i \in Depths, i < SubjectCountLog2, f[i] = NodeAt(b, i, 0)
      PROVE  Step(f, i + 1) = NodeAt(b, i + 1, 0)
  <2> DEFINE n == NodeAt(b, i, 0)
  <2>1. n \in Int
    BY <1>2, <1>3, Sizes DEF L!Nodes
  <2>2. NodeAt(b, i + 1, 0) = 2 * n + 1 + (IF b[n] THEN 1 ELSE 0)
    BY <1>2, <1>3, <2>1 DEF L!A, L!B
  <2>3. Step(f, i + 1) = L!TwoTo[i + 1] - 1 + 2 * (n - (L!TwoTo[i] - 1)) + (IF b[n] THEN 1 ELSE 0)
    BY <1>2, <1>3
  <2> HIDE DEF n
  <2> QED
    BY <1>2, <1>3, <2>1, <2>2, <2>3
<1>4. NodeAt(b, 0, 0) = 0 /\ 0 \in Depths
  BY Ends, Sizes DEF Depths
<1>5. \A i \in Depths : i # 0 => i - 1 \in Depths /\ i - 1 < SubjectCountLog2 /\ (i - 1) + 1 = i
  BY Sizes DEF Depths
<1>6. first = [i \in Depths |-> Step(first, i)]
  <2>1. ASSUME NEW i \in Depths PROVE first[i] = Step(first, i)
    <3>1. CASE i = 0
      BY <1>4, <3>1
    <3>2. CASE i # 0
      <4>1. first[i - 1] = NodeAt(b, i - 1, 0) /\ first[i] = NodeAt(b, i, 0)
        BY <1>5, <3>2
      <4>2. Step(first, (i - 1) + 1) = NodeAt(b, (i - 1) + 1, 0)
        <5> HIDE DEF Step, first
        <5> QED
          BY <1>3, <1>5, <3>2, <4>1
      <4> HIDE DEF Step, first
      <4> QED
        BY <1>5, <3>2, <4>1, <4>2
    <3> QED
      BY <3>1, <3>2
  <2>2. first = [i \in Depths |-> first[i]]
    OBVIOUS
  <2> HIDE DEF Step, first
  <2> QED
    BY <2>1, <2>2
<1>7. picked = [i \in Depths |-> Step(picked, i)]
  <2> HIDE DEF Step, first
  <2> QED
    BY <1>6
<1> HIDE DEF picked
<1> DEFINE I == {i \in Depths : picked[i] = NodeAt(b, i, 0)}
<1>8. 0 \in I
  BY <1>4, <1>7
<1>9. ASSUME NEW i \in 1 .. SubjectCountLog2, i - 1 \in I PROVE i \in I
  <2>1. i \in Depths /\ i - 1 \in Depths /\ i - 1 < SubjectCountLog2 /\ (i - 1) + 1 = i
    BY Sizes DEF Depths
  <2>2. picked[i] = Step(picked, i)
    <3> HIDE DEF Step
    <3> QED
      BY <1>7, <2>1
  <2> HIDE DEF Step
  <2> QED
    BY <1>3, <1>9, <2>1, <2>2
<1> HIDE DEF I
<1>10. \A i \in 0 .. SubjectCountLog2 : i \in I
  BY <1>8, <1>9, Sizes, UpTo
<1>11. picked[SubjectCountLog2] = NodeAt(b, SubjectCountLog2, 0)
  BY <1>10, Sizes DEF I
<1>12. NodeAt(b, SubjectCountLog2, 0) = L!Leaf(L!Ordered(b)[0]) /\ L!Ordered(b)[0] \in L!Subjects
  <2>1. 0 \in L!Subjects
    BY Sizes DEF L!Subjects
  <2> QED
    BY <2>1, Ends
<1> QED
  BY <1>1, <1>11, <1>12, Sizes DEF L!Leaf, L!Subjects

-----------------------------------------------------------------------------
(* The registers of the hardware are the bits of the classes, lru_sub and  *)
(* lru_picked_index are the order and the walk along them, and the index   *)
(* into lru_sub is at the first subject that is valid.                     *)
LruInv ==
  /\ bits \in [L!Nodes -> BOOLEAN] /\ lru_bits = bits
  /\ lru_update_index \in L!Subjects \cup {-1}
  /\ lru_picked_index = L!Walked(bits)
  /\ lru_sub = L!Ordered(bits)
  /\ dvalid \in SUBSET L!Subjects
  /\ dvalid = {} => lru_sub_picked_index = L!P_COUNT
  /\ dvalid # {} =>
       /\ lru_sub_picked_index \in L!Subjects
       /\ lru_sub[lru_sub_picked_index] \in dvalid
       /\ \A k \in L!Subjects : k < lru_sub_picked_index => lru_sub[k] \notin dvalid

LEMMA LruShown ==
  ASSUME LruInv
  PROVE  L!PicksAgree
<1>1. \A i \in L!Subjects : \E k \in L!Subjects : lru_sub[k] = i
  BY OrderPermutes DEF LruInv
<1>2. L!Swap(bits) = {lru_picked_index}
  BY SwapIsFirst, WalkedIsFirst DEF LruInv
<1>3. CASE dvalid = {}
  <2>1. L!Pick(bits, dvalid) = {}
    BY <1>3, PickIsFirst DEF LruInv
  <2>2. ~(lru_sub_picked_index < L!P_COUNT)
    BY <1>3, Sizes DEF LruInv
  <2> QED
    BY <1>1, <1>2, <1>3, <2>1, <2>2 DEF L!PicksAgree, L!IsPicked
<1>4. CASE dvalid # {}
  <2>1. PICK k \in L!Subjects :
          /\ lru_sub[k] \in dvalid
          /\ \A j \in L!Subjects : j < k => lru_sub[j] \notin dvalid
          /\ L!Pick(bits, dvalid) = {lru_sub[k]}
    BY <1>4, PickIsFirst DEF LruInv
  <2>2. k = lru_sub_picked_index
    <3>1. /\ lru_sub_picked_index \in L!Subjects
          /\ ~(k < lru_sub_picked_index) /\ ~(lru_sub_picked_index < k)
      BY <1>4, <2>1 DEF LruInv
    <3> QED
      BY <3>1, Sizes DEF L!Subjects
  <2>3. lru_sub_picked_index < L!P_COUNT
    BY <2>2, Sizes DEF L!Subjects
  <2>4. lru_sub[k] \in L!Subjects
    BY <2>1 DEF LruInv
  <2>5. {i \in L!Subjects : L!IsPicked(i)} = {lru_sub[k]}
    BY <2>2, <2>3, <2>4 DEF L!IsPicked
  <2>6. L!GetPicked \in dvalid
    BY <2>1, <2>2, <2>3 DEF L!GetPicked
  <2> QED
    BY <1>1, <1>2, <2>1, <2>5, <2>6 DEF L!PicksAgree
<1> QED
  BY <1>3, <1>4

(* A subject that is used comes last.                                      *)
LEMMA UsedComesLast ==
  ASSUME NEW b \in [L!Nodes -> BOOLEAN], NEW u \in L!Subjects,
         NEW c, c = L!BitsNext(b, {u})
  PROVE  c \in [L!Nodes -> BOOLEAN] /\ L!Ordered(c)[L!P_COUNT - 1] = u
<1>1. /\ c \in [L!Nodes -> BOOLEAN]
      /\ \A n \in L!Nodes : u \in L!Below[n] => c[n] = (u \in L!Below[L!A(n)])
  <2>1. \A S : ({u} \cap S = {} <=> u \notin S) /\ ({u} \cap S # {} <=> u \in S)
    OBVIOUS
  <2>2. c = [n \in L!Nodes |-> IF u \notin L!Below[n] THEN b[n] ELSE u \in L!Below[L!A(n)]]
    BY <2>1 DEF L!BitsNext
  <2>3. \A n \in L!Nodes : c[n] = IF u \notin L!Below[n] THEN b[n] ELSE u \in L!Below[L!A(n)]
    BY <2>2
  <2>4. \A n \in L!Nodes : c[n] \in BOOLEAN
    <3> SUFFICES ASSUME NEW n \in L!Nodes PROVE c[n] \in BOOLEAN
      OBVIOUS
    <3>1. b[n] \in BOOLEAN /\ (u \in L!Below[L!A(n)]) \in BOOLEAN
      OBVIOUS
    <3>2. CASE u \notin L!Below[n]
      BY <2>3, <3>1, <3>2
    <3>3. CASE u \in L!Below[n]
      BY <2>3, <3>1, <3>3
    <3> QED
      BY <3>2, <3>3
  <2>5. c \in [L!Nodes -> BOOLEAN]
    BY <2>2, <2>4
  <2>6. \A n \in L!Nodes : u \in L!Below[n] => c[n] = (u \in L!Below[L!A(n)])
    BY <2>3
  <2> QED
    BY <2>5, <2>6
<1> DEFINE Last(i) == L!TwoTo[i] - 1
           I == {i \in Depths : NodeAt(c, i, Last(i)) = Above(u, SubjectCountLog2 - i)}
<1>2. 0 \in I
  <2>1. Last(0) = 0 /\ 0 \in Depths /\ SubjectCountLog2 \in Depths /\ SubjectCountLog2 - 0 = SubjectCountLog2
    BY PowersOfTwo, Sizes DEF Depths
  <2>2. NodeAt(c, 0, 0) = 0 /\ Above(u, SubjectCountLog2) = 0
    BY <2>1, Ends, NodesAbove
  <2> QED
    BY <2>1, <2>2
<1>3. ASSUME NEW i \in Depths, i < SubjectCountLog2, i \in I PROVE i + 1 \in I
  <2> DEFINE h == SubjectCountLog2 - (i + 1)
             n == Above(u, h + 1)
  <2>1. /\ h \in Depths /\ h < SubjectCountLog2 /\ h + 1 = SubjectCountLog2 - i /\ h + 1 \in Depths
        /\ h + 1 # 0 /\ i + 1 \in Depths /\ i \in 0 .. SubjectCountLog2 - 1
    BY <1>3, Sizes DEF Depths
  <2>2. L!TwoTo[i + 1] = 2 * L!TwoTo[i] /\ L!TwoTo[i] \in Nat \ {0}
    BY <2>1, Sizes
  <2>3. Last(i) \in Level(i) /\ Last(i + 1) = 2 * Last(i) + 1
    BY <2>2 DEF Level
  <2>4. NodeAt(c, i, Last(i)) = n
    BY <1>3, <2>1
  <2> HIDE DEF Last, I
  <2>5. n \in L!Nodes /\ NodeAt(c, i + 1, Last(i + 1)) = IF c[n] THEN L!A(n) ELSE L!B(n)
    <3>1. /\ NodeAt(c, i, Last(i)) \in L!Nodes
          /\ NodeAt(c, i + 1, 2 * Last(i) + 1) = IF c[NodeAt(c, i, Last(i))]
                                                  THEN L!A(NodeAt(c, i, Last(i)))
                                                  ELSE L!B(NodeAt(c, i, Last(i)))
      BY <1>1, <1>3, <2>3, ChildrenInOrder
    <3> HIDE DEF n
    <3> QED
      BY <2>3, <2>4, <3>1
  <2> HIDE DEF h
  <2>6. u \in L!Below[n]
    <3>1. n \in L!Tree
      BY <2>5, Children
    <3> QED
      BY <2>1, <3>1, BelowIsAbove
  <2>7. c[n] = (Place(u, h) % 2 = 0)
    <3>1. u \in L!Below[L!A(n)] <=> Place(u, h) % 2 = 0
      BY <2>1, HalfIsAbove
    <3> QED
      BY <1>1, <2>5, <2>6, <3>1
  <2>8. Above(u, h) = IF Place(u, h) % 2 = 0 THEN L!A(n) ELSE L!B(n)
    BY <2>1, NodesAbove
  <2>9. NodeAt(c, i + 1, Last(i + 1)) = Above(u, h)
    BY <2>5, <2>7, <2>8
  <2> QED
    BY <2>1, <2>9 DEF h, I
<1> HIDE DEF I
<1>4. \A i \in 0 .. SubjectCountLog2 : i \in I
  <2>1. ASSUME NEW i \in 1 .. SubjectCountLog2, i - 1 \in I PROVE i \in I
    <3>1. i - 1 \in Depths /\ i - 1 < SubjectCountLog2 /\ (i - 1) + 1 = i
      BY Sizes DEF Depths
    <3> QED
      BY <1>3, <2>1, <3>1
  <2> QED
    BY <1>2, <2>1, Sizes, UpTo
<1>5. NodeAt(c, SubjectCountLog2, L!P_COUNT - 1) = Above(u, SubjectCountLog2 - SubjectCountLog2)
  <2>1. SubjectCountLog2 \in I /\ Last(SubjectCountLog2) = L!P_COUNT - 1
    BY <1>4, Sizes
  <2> QED
    BY <2>1 DEF I
<1>6. L!P_COUNT - 1 \in L!Subjects /\ 0 \in Depths /\ SubjectCountLog2 - SubjectCountLog2 = 0
  BY Sizes DEF L!Subjects, Depths
<1>7. L!Leaf(L!Ordered(c)[L!P_COUNT - 1]) = L!Leaf(u) /\ L!Ordered(c)[L!P_COUNT - 1] \in L!Subjects
  BY <1>5, <1>6, Ends, NodesAbove
<1>8. \A x, y \in L!Subjects : L!Leaf(x) = L!Leaf(y) => x = y
  BY Sizes DEF L!Leaf, L!Subjects
<1> QED
  BY <1>1, <1>7, <1>8

LEMMA LruEdge ==
  ASSUME LruInv, L!Eval
  PROVE  LruInv' /\ (lru_update_index >= 0 => bits' = L!BitsNext(bits, {lru_update_index}))
<1>1. /\ bits' = L!BitsNext(bits, IF lru_update_index < 0 THEN {} ELSE {lru_update_index})
      /\ lru_bits' = L!Updated(lru_update_index)
      /\ lru_update_index' = -1
      /\ lru_picked_index' = L!Walked(lru_bits')
      /\ lru_sub' = L!Ordered(lru_bits')
      /\ dvalid' = {} /\ lru_sub_picked_index' = L!P_COUNT
  BY DEF L!Eval
<1>2. bits' \in [L!Nodes -> BOOLEAN] /\ lru_bits' = bits'
  <2>1. CASE lru_update_index = -1
    <3>1. bits' = L!BitsNext(bits, {}) /\ lru_bits' = lru_bits
      BY <1>1, <2>1 DEF L!Updated
    <3>2. L!BitsNext(bits, {}) = bits
      BY DEF L!BitsNext, LruInv
    <3> QED
      BY <3>1, <3>2 DEF LruInv
  <2>2. CASE lru_update_index \in L!Subjects
    <3>1. ~(lru_update_index < 0)
      BY <2>2, Sizes DEF L!Subjects
    <3>2. bits' = L!BitsNext(bits, {lru_update_index})
      BY <1>1, <3>1
    <3>3. lru_bits' = L!BitsNext(bits, {lru_update_index})
      BY <1>1, <2>2, UpdatesAgree DEF LruInv
    <3>4. bits' \in [L!Nodes -> BOOLEAN]
      BY <2>2, <3>2, UsedComesLast DEF LruInv
    <3> QED
      BY <3>2, <3>3, <3>4
  <2> QED
    BY <2>1, <2>2 DEF LruInv
<1>3. lru_update_index >= 0 => bits' = L!BitsNext(bits, {lru_update_index})
  <2>1. lru_update_index \in Int
    BY Sizes DEF LruInv, L!Subjects
  <2> QED
    BY <1>1, <2>1
<1> QED
  BY <1>1, <1>2, <1>3 DEF LruInv

LEMMA LruSetValid ==
  ASSUME LruInv, NEW index \in L!Subjects, L!SetValid(index)
  PROVE  LruInv'
<1>1. /\ dvalid' = dvalid \cup {index}
      /\ lru_sub_picked_index' =
           IF \E i \in 0 .. lru_sub_picked_index - 1 : lru_sub[i] = index
           THEN CHOOSE i \in L!Subjects : lru_sub[i] = index
           ELSE lru_sub_picked_index
      /\ UNCHANGED <<bits, lru_bits, lru_update_index, lru_picked_index, lru_sub>>
  BY DEF L!SetValid
<1>2. /\ lru_sub \in [L!Subjects -> L!Subjects]
      /\ \A j, k \in L!Subjects : lru_sub[j] = lru_sub[k] => j = k
      /\ \E k \in L!Subjects : lru_sub[k] = index
  BY OrderPermutes, Ends DEF LruInv
<1>3. PICK p \in L!Subjects : lru_sub[p] = index
  BY <1>2
<1>4. (CHOOSE i \in L!Subjects : lru_sub[i] = index) = p
  BY <1>2, <1>3
<1>5. /\ lru_sub_picked_index \in Nat /\ p \in Nat
      /\ 0 .. lru_sub_picked_index - 1 \subseteq L!Subjects
      /\ \A k \in L!Subjects : k \in Nat /\ k < L!P_COUNT
  BY Sizes DEF LruInv, L!Subjects
<1>6. (\E i \in 0 .. lru_sub_picked_index - 1 : lru_sub[i] = index) <=> p < lru_sub_picked_index
  <2>1. \A i \in 0 .. lru_sub_picked_index - 1 : lru_sub[i] = index => i = p
    BY <1>2, <1>3, <1>5
  <2>2. p < lru_sub_picked_index <=> p \in 0 .. lru_sub_picked_index - 1
    BY <1>5
  <2> QED
    BY <1>3, <2>1, <2>2
<1> DEFINE found == \E i \in 0 .. lru_sub_picked_index - 1 : lru_sub[i] = index
           place == CHOOSE i \in L!Subjects : lru_sub[i] = index
           q == lru_sub_picked_index'
<1>7. q = IF p < lru_sub_picked_index THEN p ELSE lru_sub_picked_index
  <2>1. q = IF found THEN place ELSE lru_sub_picked_index
    BY <1>1
  <2>2. place = p /\ (found <=> p < lru_sub_picked_index)
    BY <1>4, <1>6
  <2> HIDE DEF found, place, q
  <2> QED
    BY <2>1, <2>2
<1>8. /\ q \in L!Subjects /\ lru_sub[q] \in dvalid'
      /\ \A k \in L!Subjects : k < q => lru_sub[k] \notin dvalid'
  <2>0. \A x : x \in dvalid' <=> x \in dvalid \/ x = index
    BY <1>1
  <2> HIDE DEF q
  <2>1. \A k \in L!Subjects : k # p => lru_sub[k] # index
    BY <1>2, <1>3
  <2>2. CASE dvalid = {}
    <3>1. q = p
      BY <1>5, <1>7, <2>2 DEF LruInv
    <3>2. \A k \in L!Subjects : k < p => k # p
      BY <1>5
    <3> QED
      BY <1>3, <2>0, <2>1, <2>2, <3>1, <3>2
  <2>3. CASE dvalid # {}
    <3>1. /\ lru_sub_picked_index \in L!Subjects
          /\ lru_sub[lru_sub_picked_index] \in dvalid
          /\ \A k \in L!Subjects : k < lru_sub_picked_index => lru_sub[k] \notin dvalid
      BY <2>3 DEF LruInv
    <3>2. \A k \in L!Subjects : k < q => k # p /\ k < lru_sub_picked_index
      BY <1>5, <1>7
    <3> QED
      BY <1>3, <1>7, <2>0, <2>1, <3>1, <3>2
  <2> QED
    BY <2>2, <2>3
<1> QED
  BY <1>1, <1>8 DEF LruInv

LEMMA LruInit ==
  ASSUME L!Init
  PROVE  LruInv
<1>1. L!ResetBits \in [L!Nodes -> BOOLEAN]
  BY DEF L!ResetBits
<1> QED
  BY <1>1 DEF L!Init, LruInv

LEMMA LruStep ==
  ASSUME LruInv, [L!Next]_(L!vars)
  PROVE  LruInv'
<1>1. ASSUME NEW index \in L!Subjects \cup {-1}, L!Update(index) PROVE LruInv'
  BY <1>1 DEF L!Update, LruInv
<1>2. CASE L!ResetValid
  BY <1>2 DEF L!ResetValid, LruInv
<1>3. CASE UNCHANGED L!vars
  BY <1>3 DEF L!vars, LruInv
<1> QED
  BY <1>1, <1>2, <1>3, LruSetValid, LruEdge DEF L!Next, L!ResetUpdate

(* In every reachable state, whatever was used and declared valid, the     *)
(* emulated LRU and the registers of the hardware are related by LruInv.   *)
THEOREM LruInductive == Spec => []LruInv
<1>1. Init => LruInv
  BY LruInit DEF Init
<1>2. LruInv /\ [Next]_vars => LruInv'
  <2>1. [Next]_vars => [L!Next]_(L!vars)
    BY DEF Next, vars, lruVars, L!vars
  <2> QED
    BY <2>1, LruStep
<1> QED
  BY <1>1, <1>2, PTL DEF Spec

(* Whatever subjects are used and valid, PseudoLRUPick and the tree pick   *)
(* the same one, if any, and PseudoLRUSwap and the tree of swap agree.     *)
THEOREM PicksNeverDiffer == Spec => []PicksAgree
<1>1. LruInv => PicksAgree
  BY LruShown DEF PicksAgree
<1> QED
  BY <1>1, LruInductive, PTL

(* A subject whose use was recorded at an edge is picked after it only if  *)
(* no other is valid, and swap does not point to it.                       *)
THEOREM UsedIsPickedLast == Spec => L!LastUsedIsLastPicked
<1> DEFINE Last == lru_update_index >= 0 /\ L!Eval =>
             /\ \A valid \in SUBSET L!Subjects :
                  lru_update_index \in L!Pick(bits', valid) => valid = {lru_update_index}
             /\ lru_update_index \notin L!Swap(bits')
<1>1. LruInv /\ [Next]_vars => [Last]_(L!vars)
  <2> SUFFICES ASSUME LruInv, lru_update_index >= 0, L!Eval
               PROVE  /\ \A valid \in SUBSET L!Subjects :
                           lru_update_index \in L!Pick(bits', valid) => valid = {lru_update_index}
                      /\ lru_update_index \notin L!Swap(bits')
    OBVIOUS
  <2> DEFINE u == lru_update_index
             c == bits'
  <2>1. u \in L!Subjects /\ bits \in [L!Nodes -> BOOLEAN] /\ c = L!BitsNext(bits, {u})
    BY LruEdge DEF LruInv
  <2>2. c \in [L!Nodes -> BOOLEAN] /\ L!Ordered(c)[L!P_COUNT - 1] = u
    BY <2>1, UsedComesLast
  <2>3. /\ \A j, k \in L!Subjects : L!Ordered(c)[j] = L!Ordered(c)[k] => j = k
        /\ \A j \in L!Subjects : \E k \in L!Subjects : L!Ordered(c)[k] = j
    BY <2>2, OrderPermutes
  <2>4. /\ L!P_COUNT - 1 \in L!Subjects /\ 0 \in L!Subjects /\ L!P_COUNT - 1 # 0
        /\ \A k \in L!Subjects : k # L!P_COUNT - 1 => k < L!P_COUNT - 1
    BY Sizes DEF L!Subjects
  <2> HIDE DEF u, c
  <2>5. ASSUME NEW valid \in SUBSET L!Subjects, u \in L!Pick(c, valid) PROVE valid = {u}
    <3>1. PICK k \in L!Subjects : /\ L!Ordered(c)[k] \in valid
                                  /\ \A j \in L!Subjects : j < k => L!Ordered(c)[j] \notin valid
                                  /\ L!Pick(c, valid) = {L!Ordered(c)[k]}
      BY <2>2, <2>5, PickIsFirst
    <3>2. k = L!P_COUNT - 1
      BY <2>2, <2>3, <2>4, <2>5, <3>1
    <3>3. u \in valid
      BY <2>2, <3>1, <3>2
    <3>4. ASSUME NEW v \in valid PROVE v = u
      <4>1. PICK j \in L!Subjects : L!Ordered(c)[j] = v
        BY <2>3
      <4>2. j = L!P_COUNT - 1
        BY <2>4, <3>1, <3>2, <4>1
      <4> QED
        BY <2>2, <4>1, <4>2
    <3> QED
      BY <3>3, <3>4
  <2>6. u \notin L!Swap(c)
    <3>1. L!Swap(c) = {L!Ordered(c)[0]}
      BY <2>2, SwapIsFirst
    <3>2. L!Ordered(c)[0] # u
      BY <2>2, <2>3, <2>4
    <3> QED
      BY <3>1, <3>2
  <2> QED
    BY <2>5, <2>6 DEF u, c
<1> QED
  BY <1>1, LruInductive, PTL DEF Spec, L!LastUsedIsLastPicked
=============================================================================
