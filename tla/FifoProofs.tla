----------------------------- MODULE FifoProofs -----------------------------
(***************************************************************************)
(* Proofs about GlobalCheckpointTable and GlobalCheckpointWALK, for rings  *)
(* of every size: types, the slots pushes go to, and that the table is a   *)
(* bounded clocked queue and WALK holds what is to be walked through.      *)
(***************************************************************************)
EXTENDS GlobalCheckpointTable, WellFoundedInduction, TLAPS

(* The table of a cycle: the ring holds at most Size entries, pops are     *)
(* counted within them and pushes within the room they leave; nobody sets  *)
(* the pointers of the table.                                              *)
RingOK ==
  /\ FifoTypeOK
  /\ GetCount \in 0 .. Size
  /\ deltaRptr \in 0 .. GetCount
  /\ deltaWptr \in 0 .. GetRemainingSize
  /\ setRptr = Unset /\ setRptrb = Unset /\ setWptr = Unset /\ setWptrb = Unset

(* The writes of a cycle: those of RestoreFGR, which clear the V bit of    *)
(* the entry that is there, and after them the pushes, which go to the     *)
(* slots behind the entries, in the order of the calls.                    *)
Old == Len(modification) - deltaWptr

WritesOK ==
  /\ Old \in Nat
  /\ \A k \in 1 .. Old :
       /\ ~ modification[k][2].V
       /\ modification[k][1] \in Slots =>
            modification[k][2] = [memory[modification[k][1]] EXCEPT !.V = FALSE]
  /\ \A k \in 1 .. deltaWptr :
       /\ modification[Old + k][1] = SlotAt(GetCount + k - 1)
       /\ modification[Old + k][2].V

(* A number stands in one valid entry at most, those pushed included.      *)
NumbersOK ==
  /\ \A i, j \in Slots :
       memory[i].V /\ memory[j].V /\ memory[i].FGR = memory[j].FGR => i = j
  /\ \A i \in Slots, k \in 1 .. deltaWptr :
       memory[i].V => memory[i].FGR # modification[Old + k][2].FGR
  /\ \A k, l \in 1 .. deltaWptr :
       modification[Old + k][2].FGR = modification[Old + l][2].FGR => k = l

(* WALK: nothing is set, or what RestoreFGR sets for the group that is the *)
(* last one in the table to be walked through.                             *)
WalkSet(last) ==
  LET restore == SlotAt(last - 1)
  IN  /\ memory[restore].V /\ memory[restore].FGR = restoring
      /\ wModification = [k \in 1 .. Size |-> <<k - 1, memory[k - 1].FGR>>]
      /\ wSetRptr = rptr /\ wSetRptrb = rptrb
      /\ wSetWptr = restore + 1 /\ wSetWptrb = WalkBit(restore + 1)

WalkOK ==
  /\ Walk!FifoTypeOK
  /\ Walk!GetCount \in 0 .. Size
  /\ wDeltaRptr \in 0 .. Walk!GetCount /\ wDeltaWptr = 0
  /\ \/ /\ restoring = None /\ wModification = <<>>
        /\ wSetRptr = Unset /\ wSetRptrb = Unset /\ wSetWptr = Unset /\ wSetWptrb = Unset
     \/ restoring \in FGRs /\ \E last \in 1 .. GetCount : WalkSet(last)

IInv == RingOK /\ WritesOK /\ NumbersOK /\ WalkOK

-----------------------------------------------------------------------------
(* The places of a concatenation.                                          *)
LEMMA Concatenation ==
  ASSUME NEW T, NEW q \in Seq(T), NEW r \in Seq(T)
  PROVE  /\ q \o r \in Seq(T) /\ Len(q \o r) = Len(q) + Len(r)
         /\ \A j \in 1 .. Len(q) + Len(r) :
              (q \o r)[j] = IF j <= Len(q) THEN q[j] ELSE r[j - Len(q)]
OBVIOUS

-----------------------------------------------------------------------------
(* Positions in the ring.                                                  *)

(* The remainder that PushPayload takes is the wrap of Eval.               *)
LEMMA RemainderWraps ==
  ASSUME NEW a \in 0 .. 2 * Size - 1
  PROVE  a % Size = Wrapped(a)
BY FifoAssumption DEF Wrapped

(* The slots of the ring by their distance from the oldest entry.          *)
LEMMA SlotFacts ==
  ASSUME RingOK
  PROVE  /\ \A i \in 0 .. Size : SlotAt(i) \in Slots
         /\ \A i, j \in 0 .. Size - 1 : SlotAt(i) = SlotAt(j) => i = j
         /\ SlotAt(GetCount) = wptr
         /\ \A s \in Slots : \E i \in 0 .. Size - 1 : s = SlotAt(i)
<1> USE FifoAssumption DEF RingOK, FifoTypeOK, Slots, SlotAt, Wrapped
<1>1. \A i \in 0 .. Size : SlotAt(i) \in Slots
  OBVIOUS
<1>2. \A i, j \in 0 .. Size - 1 : SlotAt(i) = SlotAt(j) => i = j
  OBVIOUS
<1>3. SlotAt(GetCount) = wptr
  BY DEF GetCount
<1>4. ASSUME NEW s \in Slots
      PROVE  \E i \in 0 .. Size - 1 : s = SlotAt(i)
  <2>1. CASE s >= rptr
    <3>1. s - rptr \in 0 .. Size - 1 /\ s = SlotAt(s - rptr)
      BY <2>1
    <3> QED
      BY <3>1, Zenon
  <2>2. CASE s < rptr
    <3>1. s - rptr + Size \in 0 .. Size - 1 /\ s = SlotAt(s - rptr + Size)
      BY <2>2
    <3> QED
      BY <3>1, Zenon
  <2> QED
    BY <2>1, <2>2
<1> QED
  BY <1>1, <1>2, <1>3, <1>4, Zenon

(* Where PushPayload records the next push of the cycle.                   *)
LEMMA PushSlot ==
  ASSUME RingOK, deltaWptr < GetRemainingSize
  PROVE  (wptr + deltaWptr) % Size = SlotAt(GetCount + deltaWptr)
<1> USE FifoAssumption DEF RingOK, FifoTypeOK, Slots
<1>1. wptr + deltaWptr \in 0 .. 2 * Size - 1
  BY DEF GetRemainingSize
<1>2. (wptr + deltaWptr) % Size = Wrapped(wptr + deltaWptr)
  BY <1>1, RemainderWraps
<1> QED
  BY <1>2 DEF GetRemainingSize, GetCount, SlotAt, Wrapped

(* What Eval makes of a pointer and its wrap bit.                          *)
LEMMA MovedCount ==
  ASSUME RingOK, Eval
  PROVE  /\ rptr' = SlotAt(deltaRptr) /\ rptr' \in Slots /\ wptr' \in Slots
         /\ rptrb' \in {0, 1} /\ wptrb' \in {0, 1}
         /\ GetCount' = GetCount - deltaRptr + deltaWptr
<1> USE FifoAssumption DEF RingOK, FifoTypeOK, Slots
<1>1. /\ rptr' = Wrapped(rptr + deltaRptr)
      /\ rptrb' = IF rptr + deltaRptr >= Size THEN 1 - rptrb ELSE rptrb
      /\ wptr' = Wrapped(wptr + deltaWptr)
      /\ wptrb' = IF wptr + deltaWptr >= Size THEN 1 - wptrb ELSE wptrb
  BY DEF Eval, Moved, WrapBit
<1>2. rptr' = SlotAt(deltaRptr)
  BY <1>1 DEF SlotAt
<1>3. rptr' \in Slots /\ wptr' \in Slots /\ rptrb' \in {0, 1} /\ wptrb' \in {0, 1}
  BY <1>1 DEF GetCount, GetRemainingSize, Wrapped
<1>4. GetCount' = GetCount - deltaRptr + deltaWptr
  BY <1>1 DEF GetCount, GetRemainingSize, Wrapped
<1> QED
  BY <1>2, <1>3, <1>4

-----------------------------------------------------------------------------
(* The writes of a cycle.                                                  *)

(* A set of numbers has a least one.                                       *)
LEMMA LeastExists ==
  ASSUME NEW S \in SUBSET Nat, S # {}
  PROVE  \E x \in S : \A y \in S : x <= y
<1> DEFINE LT == {ss \in Nat \X Nat : ss[1] < ss[2]}
<1>1. IsWellFoundedOn(LT, Nat)
  BY NatLessThanWellFounded DEF OpToRel
<1> HIDE DEF LT
<1>2. \E x \in S : \A y \in S : ~(<<y, x>> \in LT)
  BY <1>1, WFMin
<1>3. PICK x \in S : \A y \in S : ~(y < x)
  BY <1>2 DEF LT
<1> QED
  BY <1>3

(* A bounded one has a greatest one.                                       *)
LEMMA GreatestExists ==
  ASSUME NEW n \in Nat, NEW S \in SUBSET (1 .. n), S # {}
  PROVE  \E x \in S : \A y \in S : y <= x
<1> DEFINE R == {n - x : x \in S}
<1>1. R \in SUBSET Nat /\ R # {}
  <2>1. \A x \in S : n - x \in Nat
    OBVIOUS
  <2> QED
    BY <2>1, Zenon
<1>2. PICK r \in R : \A q \in R : r <= q
  BY <1>1, LeastExists
<1>3. PICK x \in S : r = n - x
  BY <1>2
<1>4. ASSUME NEW y \in S PROVE y <= x
  <2>1. n - y \in R
    OBVIOUS
  <2>2. n - x <= n - y
    BY <1>2, <1>3, <2>1
  <2> QED
    BY <2>2
<1> QED
  BY <1>4

(* The last write to a slot in a cycle is the one that stays.              *)
LEMMA LastWriteStays ==
  ASSUME FifoTypeOK, NEW s \in Slots
  PROVE  \/ /\ \A k \in 1 .. Len(modification) : modification[k][1] # s
            /\ MemoryNext[s] = memory[s]
         \/ \E k \in 1 .. Len(modification) :
              /\ modification[k][1] = s
              /\ \A l \in 1 .. Len(modification) : modification[l][1] = s => l <= k
              /\ MemoryNext[s] = modification[k][2]
<1> DEFINE writes == {k \in DOMAIN modification : modification[k][1] = s}
           last   == CHOOSE k \in writes : \A l \in writes : l <= k
<1>1. DOMAIN modification = 1 .. Len(modification) /\ Len(modification) \in Nat
  BY DEF FifoTypeOK
<1>2. MemoryNext[s] = IF writes = {} THEN memory[s] ELSE modification[last][2]
  BY DEF MemoryNext
<1>3. CASE writes = {}
  BY <1>1, <1>2, <1>3
<1>4. CASE writes # {}
  <2>1. last \in writes /\ \A l \in writes : l <= last
    <3>1. writes \in SUBSET (1 .. Len(modification))
      BY <1>1
    <3>2. \E k \in writes : \A l \in writes : l <= k
      BY <1>1, <1>4, <3>1, GreatestExists
    <3> QED
      BY <3>2
  <2> HIDE DEF last
  <2> QED
    BY <1>1, <1>2, <1>4, <2>1
<1> QED
  BY <1>3, <1>4

(* What Eval leaves in the slots: the pushes behind the entries, and in    *)
(* every other slot what was there, at most without its V bit.             *)
LEMMA MemoryOfEval ==
  ASSUME RingOK, WritesOK
  PROVE  /\ MemoryNext \in [Slots -> Payload]
         /\ \A k \in 1 .. deltaWptr :
              MemoryNext[SlotAt(GetCount + k - 1)] = modification[Old + k][2]
         /\ \A s \in Slots :
              (\A k \in 1 .. deltaWptr : s # SlotAt(GetCount + k - 1)) =>
                /\ MemoryNext[s].FGR = memory[s].FGR
                /\ MemoryNext[s].GCA = memory[s].GCA
                /\ MemoryNext[s].V => memory[s].V
<1>0. /\ FifoTypeOK /\ Len(modification) \in Nat /\ deltaWptr \in Nat /\ Old \in Nat
      /\ Len(modification) = Old + deltaWptr
  BY FifoAssumption DEF RingOK, FifoTypeOK, WritesOK, Old
<1>1. ASSUME NEW k \in 1 .. Len(modification)
      PROVE  modification[k] \in (0 .. Size) \X Payload
  BY <1>0 DEF FifoTypeOK
<1>2. ASSUME NEW s \in Slots
      PROVE  MemoryNext[s] \in Payload
  <2>1. memory[s] \in Payload
    BY <1>0 DEF FifoTypeOK
  <2> QED
    BY <1>0, <1>1, <2>1, LastWriteStays
<1>3. MemoryNext \in [Slots -> Payload]
  BY <1>2 DEF MemoryNext
<1>4. ASSUME NEW k \in 1 .. deltaWptr
      PROVE  MemoryNext[SlotAt(GetCount + k - 1)] = modification[Old + k][2]
  <2> DEFINE s == SlotAt(GetCount + k - 1)
  <2>1. /\ GetCount \in Nat
        /\ GetCount + k - 1 \in 0 .. Size - 1 /\ GetCount + k - 1 \in 0 .. Size
    BY FifoAssumption DEF RingOK, GetRemainingSize
  <2>2. s \in Slots
    BY <2>1, SlotFacts, Zenon
  <2>3. Old + k \in 1 .. Len(modification) /\ modification[Old + k][1] = s
    BY <1>0 DEF WritesOK
  <2>4. ASSUME NEW l \in 1 .. Len(modification), modification[l][1] = s, Old + k <= l
        PROVE  l = Old + k
    <3> DEFINE m == l - Old
    <3>1. m \in 1 .. deltaWptr /\ l = Old + m
      BY <1>0, <2>4
    <3> HIDE DEF m
    <3>2. modification[l][1] = SlotAt(GetCount + m - 1)
      BY <3>1 DEF WritesOK
    <3>3. GetCount + m - 1 \in 0 .. Size - 1
      BY <2>1, <3>1, FifoAssumption DEF RingOK, GetRemainingSize
    <3>4. GetCount + m - 1 = GetCount + k - 1
      BY <2>1, <2>4, <3>2, <3>3, SlotFacts
    <3> QED
      BY <2>1, <3>1, <3>4
  <2> HIDE DEF s
  <2>5. PICK l \in 1 .. Len(modification) :
              /\ modification[l][1] = s
              /\ \A j \in 1 .. Len(modification) : modification[j][1] = s => j <= l
              /\ MemoryNext[s] = modification[l][2]
    BY <1>0, <2>2, <2>3, LastWriteStays
  <2>6. l = Old + k
    BY <2>3, <2>4, <2>5
  <2> QED
    BY <2>5, <2>6 DEF s
<1>5. ASSUME NEW s \in Slots, \A k \in 1 .. deltaWptr : s # SlotAt(GetCount + k - 1)
      PROVE  /\ MemoryNext[s].FGR = memory[s].FGR
             /\ MemoryNext[s].GCA = memory[s].GCA
             /\ MemoryNext[s].V => memory[s].V
  <2>1. memory[s] \in Entries
    BY <1>0, GCTAssumption DEF FifoTypeOK
  <2>2. CASE MemoryNext[s] = memory[s]
    BY <2>2
  <2>3. ASSUME NEW l \in 1 .. Len(modification), modification[l][1] = s,
               MemoryNext[s] = modification[l][2]
        PROVE  MemoryNext[s] = [memory[s] EXCEPT !.V = FALSE]
    <3>1. CASE l <= Old
      BY <1>0, <2>3, <3>1 DEF WritesOK
    <3>2. CASE l > Old
      <4> DEFINE m == l - Old
      <4>1. m \in 1 .. deltaWptr /\ l = Old + m
        BY <1>0, <3>2
      <4> HIDE DEF m
      <4> QED
        BY <1>5, <2>3, <4>1 DEF WritesOK
    <3> QED
      BY <1>0, <3>1, <3>2
  <2> QED
    BY <1>0, <2>1, <2>2, <2>3, LastWriteStays DEF Entries
<1> QED
  BY <1>3, <1>4, <1>5

-----------------------------------------------------------------------------
(* The recovery.                                                           *)

(* The minimum of the community modules, where there is one.               *)
LEMMA MinIsLeast ==
  ASSUME NEW S \in SUBSET Nat, S # {}
  PROVE  Min(S) \in S /\ \A y \in S : Min(S) <= y
BY LeastExists DEF Min

(* The writes of RestoreFGR: slots, one past the last one included, with   *)
(* the entry that is there without its V bit.                              *)
LEMMA ClearedWrites ==
  ASSUME RingOK, NEW start \in Nat, NEW beyond \in Entries
  PROVE  LET w == Cleared(start, beyond)
         IN  /\ w \in Seq((0 .. Size) \X Payload)
             /\ \A k \in 1 .. Len(w) :
                  /\ ~ w[k][2].V
                  /\ w[k][1] \in Slots => w[k][2] = [memory[w[k][1]] EXCEPT !.V = FALSE]
<1> DEFINE j(k)     == (start - k) % (Size + 1)
           entry(k) == IF j(k) = Size THEN beyond ELSE memory[j(k)]
           stops    == {k \in 0 .. Size : ~ entry(k).V}
           count    == IF stops = {} THEN Size + 1 ELSE Min(stops)
           e(k)     == <<j(k - 1), [entry(k - 1) EXCEPT !.V = FALSE]>>
           w        == [k \in 1 .. count |-> e(k)]
<1>1. Cleared(start, beyond) = w
  BY DEF Cleared
<1>2. count \in Nat
  <2>1. CASE stops # {}
    <3>1. stops \in SUBSET Nat
      OBVIOUS
    <3> HIDE DEF stops
    <3> QED
      BY <2>1, <3>1, MinIsLeast
  <2> QED
    BY <2>1, FifoAssumption
<1> HIDE DEF count
<1>3. ASSUME NEW k \in 1 .. count
      PROVE  /\ w[k] = e(k) /\ e(k) \in (0 .. Size) \X Payload /\ ~ e(k)[2].V
             /\ e(k)[1] \in Slots => e(k)[2] = [memory[e(k)[1]] EXCEPT !.V = FALSE]
  <2>1. j(k - 1) \in 0 .. Size
    BY <1>2, FifoAssumption
  <2>2. j(k - 1) # Size => j(k - 1) \in Slots
    BY <2>1, FifoAssumption DEF Slots
  <2> HIDE DEF j
  <2>3. Payload = Entries /\ \A s \in Slots : memory[s] \in Entries
    BY GCTAssumption DEF RingOK, FifoTypeOK
  <2>4. entry(k - 1) \in Entries
    BY <2>2, <2>3
  <2>5. j(k - 1) \in Slots => entry(k - 1) = memory[j(k - 1)]
    BY FifoAssumption DEF Slots
  <2> HIDE DEF entry
  <2>6. [entry(k - 1) EXCEPT !.V = FALSE] \in Entries /\ ~ [entry(k - 1) EXCEPT !.V = FALSE].V
    BY <2>4 DEF Entries
  <2> QED
    BY <1>2, <2>1, <2>3, <2>5, <2>6
<1> HIDE DEF e
<1>4. w \in Seq((0 .. Size) \X Payload) /\ Len(w) = count
  <2> DEFINE T == (0 .. Size) \X Payload
  <2>1. \A k \in 1 .. count : e(k) \in T
    BY <1>3, Zenon
  <2> HIDE DEF T
  <2>2. w \in Seq(T) /\ Len(w) = count
    BY <1>2, <2>1
  <2> QED
    BY <2>2 DEF T
<1> HIDE DEF w
<1>5. \A k \in 1 .. Len(w) :
        /\ ~ w[k][2].V
        /\ w[k][1] \in Slots => w[k][2] = [memory[w[k][1]] EXCEPT !.V = FALSE]
  <2> SUFFICES ASSUME NEW k \in 1 .. count
               PROVE  /\ ~ w[k][2].V
                      /\ w[k][1] \in Slots =>
                           w[k][2] = [memory[w[k][1]] EXCEPT !.V = FALSE]
    BY <1>4
  <2> QED
    BY <1>3, Zenon
<1> QED
  BY <1>1, <1>4, <1>5, Zenon

(* A group in the queue is found in its slot, and in no other one.         *)
LEMMA QueryFinds ==
  ASSUME RingOK, NumbersOK, NEW FGR \in FGRs,
         NEW i \in DOMAIN Contents, Contents[i].V, Contents[i].FGR = FGR
  PROVE  i \in 1 .. GetCount /\ Query(FGR) = SlotAt(i - 1) /\ SlotAt(i - 1) \in Slots
         /\ memory[SlotAt(i - 1)].V /\ memory[SlotAt(i - 1)].FGR = FGR
<1> DEFINE hits == {s \in Slots : memory[s].V /\ memory[s].FGR = FGR}
<1>1. i \in 1 .. GetCount /\ Contents[i] = memory[SlotAt(i - 1)]
  BY DEF Contents
<1>2. SlotAt(i - 1) \in Slots
  <2>1. i - 1 \in 0 .. Size
    BY <1>1, FifoAssumption DEF RingOK
  <2> QED
    BY <2>1, SlotFacts, Zenon
<1>3. hits = {SlotAt(i - 1)}
  BY <1>1, <1>2 DEF NumbersOK
<1>4. Min(hits) \in hits
  <2>1. hits \in SUBSET Nat
    BY FifoAssumption DEF Slots
  <2> HIDE DEF hits
  <2> QED
    BY <1>3, <2>1, MinIsLeast
<1>5. Query(FGR) = Min(hits)
  BY <1>3 DEF Query
<1> QED
  BY <1>1, <1>2, <1>3, <1>4, <1>5

(* All that a call of RestoreFGR does.                                     *)
LEMMA RestoreCall ==
  ASSUME IInv, CallRestoreFGR
  PROVE  /\ \E w \in Seq((0 .. Size) \X Payload) :
              /\ modification' = w
              /\ \A k \in 1 .. Len(w) :
                   /\ ~ w[k][2].V
                   /\ w[k][1] \in Slots => w[k][2] = [memory[w[k][1]] EXCEPT !.V = FALSE]
         /\ modification = <<>> /\ restoring' \in FGRs
         /\ UNCHANGED <<fifoState, deltaRptr, deltaWptr, fifoSet, walkState, wDeltaRptr, wDeltaWptr>>
         /\ \E last \in 1 .. GetCount : WalkSet(last)'
         /\ wModification' \in Seq((0 .. Size) \X FGRs)
         /\ wSetRptr' \in Slots /\ wSetRptrb' \in {0, 1}
         /\ wSetWptr' \in 0 .. Size /\ wSetWptrb' \in {0, 1}
<1>0. RingOK /\ NumbersOK
  BY DEF IInv
<1>1. PICK FGR \in FGRs, V \in BOOLEAN :
        /\ InQueue(FGR) /\ modification = <<>> /\ restoring = None
        /\ RestoreFGR(FGR, [NoGroup EXCEPT !.V = V])
        /\ restoring' = FGR
  BY DEF CallRestoreFGR
<1> DEFINE beyond == [NoGroup EXCEPT !.V = V]
<1>2. beyond \in Entries
  BY GCTAssumption DEF NoGroup, Entries
<1> HIDE DEF beyond
<1>3. PICK last \in DOMAIN Contents : Contents[last].V /\ Contents[last].FGR = FGR
  BY <1>1 DEF InQueue
<1>a. PICK restore \in Slots : restore = Query(FGR) /\ restore = SlotAt(last - 1)
  BY <1>0, <1>3, QueryFinds
<1>4. last \in 1 .. GetCount /\ memory[restore].V /\ memory[restore].FGR = FGR
  BY <1>0, <1>3, <1>a, QueryFinds
<1>5. restore + 1 \in Nat
  BY FifoAssumption DEF Slots
<1>6. /\ SetPayloads(Cleared(restore + 1, beyond))
      /\ Walk!SetPayloads([k \in 1 .. Size |-> <<k - 1, memory[k - 1].FGR>>])
      /\ Walk!SetReadPointers(rptr, rptrb)
      /\ Walk!SetWritePointers(restore + 1, WalkBit(restore + 1))
      /\ UNCHANGED fifoSet
  BY <1>1, <1>a DEF RestoreFGR, beyond
<1>7. UNCHANGED <<fifoState, deltaRptr, deltaWptr, walkState, wDeltaRptr, wDeltaWptr, fifoSet>>
  BY <1>6 DEF SetPayloads, Walk!SetPayloads, walkState, Walk!fifoState, fifoState
<1>8. modification' = Cleared(restore + 1, beyond)
  <2>1. modification' = <<>> \o Cleared(restore + 1, beyond)
    BY <1>1, <1>6 DEF SetPayloads
  <2> QED
    BY <1>0, <1>2, <1>5, <2>1, ClearedWrites
<1>9. \E w \in Seq((0 .. Size) \X Payload) :
        /\ modification' = w
        /\ \A k \in 1 .. Len(w) :
             /\ ~ w[k][2].V
             /\ w[k][1] \in Slots => w[k][2] = [memory[w[k][1]] EXCEPT !.V = FALSE]
  <2> DEFINE w == Cleared(restore + 1, beyond)
  <2>1. /\ w \in Seq((0 .. Size) \X Payload)
        /\ \A k \in 1 .. Len(w) :
             /\ ~ w[k][2].V
             /\ w[k][1] \in Slots => w[k][2] = [memory[w[k][1]] EXCEPT !.V = FALSE]
    BY <1>0, <1>2, <1>5, ClearedWrites
  <2> HIDE DEF w
  <2> QED
    BY <1>8, <2>1 DEF w
<1> DEFINE list == [k \in 1 .. Size |-> <<k - 1, memory[k - 1].FGR>>]
<1>10. list \in Seq((0 .. Size) \X FGRs)
  <2>1. ASSUME NEW k \in 1 .. Size
        PROVE  <<k - 1, memory[k - 1].FGR>> \in (0 .. Size) \X FGRs
    <3>1. k - 1 \in Slots /\ k - 1 \in 0 .. Size
      BY FifoAssumption DEF Slots
    <3>2. memory[k - 1] \in Entries
      BY <1>0, <3>1, GCTAssumption DEF RingOK, FifoTypeOK
    <3> QED
      BY <3>1, <3>2 DEF Entries
  <2> QED
    BY <2>1, FifoAssumption
<1>11. wModification' = list
  <2>1. wModification = <<>>
    BY <1>1, GCTAssumption DEF IInv, WalkOK
  <2>2. wModification' = wModification \o list
    BY <1>6 DEF Walk!SetPayloads
  <2> HIDE DEF list
  <2> QED
    BY <1>10, <2>1, <2>2
<1>12. /\ wSetRptr' = rptr /\ wSetRptrb' = rptrb
       /\ wSetWptr' = restore + 1 /\ wSetWptrb' = WalkBit(restore + 1)
  BY <1>6 DEF Walk!SetReadPointers, Walk!SetWritePointers
<1>13. memory' = memory /\ rptr' = rptr /\ rptrb' = rptrb /\ wptr' = wptr /\ wptrb' = wptrb
  BY <1>7 DEF fifoState
<1>14. WalkSet(last)'
  <2>1. SlotAt(last - 1)' = restore /\ WalkBit(restore + 1)' = WalkBit(restore + 1)
    BY <1>13, <1>a DEF SlotAt, WalkBit, Wrapped
  <2>2. list' = list
    BY <1>13
  <2> QED
    BY <1>1, <1>4, <1>11, <1>12, <1>13, <2>1, <2>2 DEF WalkSet
<1>15. /\ wSetRptr' \in Slots /\ wSetRptrb' \in {0, 1}
       /\ wSetWptr' \in 0 .. Size /\ wSetWptrb' \in {0, 1}
  <2> QED
    BY <1>0, <1>4, <1>12, FifoAssumption DEF RingOK, FifoTypeOK, WalkBit, Slots
<1> HIDE DEF list
<1> QED
  BY <1>1, <1>4, <1>7, <1>9, <1>10, <1>11, <1>14, <1>15

-----------------------------------------------------------------------------
(* The invariant is inductive: one lemma for every kind of step.           *)

LEMMA InvInit == Init => IInv
<1> SUFFICES ASSUME Init PROVE IInv
  OBVIOUS
<1> USE FifoAssumption, GCTAssumption DEF Init
<1>1. RingOK
  <2>1. memory \in [Slots -> Payload]
    BY DEF NoGroup, Entries
  <2> QED
    BY <2>1 DEF RingOK, FifoTypeOK, FifoInit, NoInput, GetCount, GetRemainingSize, Slots, Unset
<1>2. WritesOK
  BY DEF WritesOK, Old, FifoInit, NoInput
<1>3. NumbersOK
  BY DEF NumbersOK, NoGroup, FifoInit, NoInput
<1>4. WalkOK
  BY DEF WalkOK, Walk!FifoInit, Walk!NoInput, Walk!FifoTypeOK, Walk!GetCount, Walk!Slots,
         Walk!Unset, Unset
<1> QED
  BY <1>1, <1>2, <1>3, <1>4 DEF IInv

(* What a step that leaves the inputs of a queue alone, or drops them,     *)
(* makes of the parts that only look at that queue.                        *)
LEMMA WalkStays ==
  ASSUME WalkOK, UNCHANGED <<fifoState, walkVars, restoring>>
  PROVE  WalkOK'
<1>1. UNCHANGED <<memory, rptr, rptrb, wptr, wptrb>>
  BY DEF fifoState
<1>2. /\ UNCHANGED <<wMemory, wRptr, wRptrb, wWptr, wWptrb, restoring>>
      /\ UNCHANGED <<wModification, wDeltaRptr, wDeltaWptr, wSetRptr, wSetRptrb, wSetWptr, wSetWptrb>>
  BY DEF walkVars, walkState, walkInput
<1>3. Walk!FifoTypeOK' = Walk!FifoTypeOK /\ Walk!GetCount' = Walk!GetCount
  BY <1>2 DEF Walk!FifoTypeOK, Walk!GetCount
<1>4. GetCount' = GetCount
  BY <1>1 DEF GetCount
<1>5. ASSUME NEW last \in 1 .. GetCount
      PROVE  WalkSet(last)' = WalkSet(last)
  BY <1>1, <1>2 DEF WalkSet, SlotAt, Wrapped, WalkBit
<1> QED
  BY <1>2, <1>3, <1>4, <1>5 DEF WalkOK

LEMMA TableStays ==
  ASSUME RingOK, WritesOK, NumbersOK, UNCHANGED fifoVars
  PROVE  RingOK' /\ WritesOK' /\ NumbersOK'
<1>1. UNCHANGED <<memory, rptr, rptrb, wptr, wptrb, modification, deltaRptr, deltaWptr,
                  setRptr, setRptrb, setWptr, setWptrb>>
  BY DEF fifoVars, fifoState, fifoInput, fifoSet
<1>2. RingOK' = RingOK
  BY <1>1 DEF RingOK, FifoTypeOK, GetCount, GetRemainingSize
<1>3. WritesOK' = WritesOK
  BY <1>1 DEF WritesOK, Old, SlotAt, Wrapped, GetCount
<1>4. NumbersOK' = NumbersOK
  BY <1>1 DEF NumbersOK, Old
<1> QED
  BY <1>2, <1>3, <1>4

(* A push: one more write, behind the others, with a number of its own.    *)
LEMMA PushStep ==
  ASSUME IInv, CallPushFGR
  PROVE  IInv'
<1> DEFINE slot == (wptr + deltaWptr) % Size
<1>1. PICK FGR \in FGRs, GCA \in GCAs : ~ Findable(FGR) /\ PushFGR(FGR, GCA)
  BY DEF CallPushFGR
<1> DEFINE entry == [FGR |-> FGR, V |-> TRUE, GCA |-> GCA]
<1>2. /\ deltaWptr < GetRemainingSize
      /\ modification' = Append(modification, <<slot, entry>>)
      /\ deltaWptr' = deltaWptr + 1
      /\ UNCHANGED <<memory, rptr, rptrb, wptr, wptrb, deltaRptr, setRptr, setRptrb, setWptr, setWptrb>>
      /\ UNCHANGED <<fifoState, walkVars, restoring>>
  BY <1>1 DEF PushFGR, PushPayload, fifoState, fifoSet
<1>3. RingOK /\ WritesOK /\ NumbersOK /\ WalkOK /\ FifoTypeOK
  BY DEF IInv, RingOK
<1>4. slot = SlotAt(GetCount + deltaWptr) /\ slot \in Slots /\ slot \in 0 .. Size
  <2>1. slot = SlotAt(GetCount + deltaWptr)
    BY <1>2, <1>3, PushSlot
  <2>2. GetCount + deltaWptr \in 0 .. Size
    BY <1>2, <1>3, FifoAssumption DEF RingOK, GetRemainingSize
  <2>3. slot \in Slots
    BY <1>3, <2>1, <2>2, SlotFacts, Zenon
  <2> QED
    BY <2>1, <2>3, FifoAssumption DEF Slots
<1>5. entry \in Payload /\ entry.V /\ entry.FGR = FGR
  BY GCTAssumption DEF Entries
<1> HIDE DEF entry
<1>6. /\ modification \in Seq((0 .. Size) \X Payload) /\ Len(modification) \in Nat
      /\ deltaWptr \in Nat /\ Old \in Nat /\ Len(modification) = Old + deltaWptr
  BY <1>3, FifoAssumption DEF FifoTypeOK, WritesOK, Old
<1> HIDE DEF slot
<1>7. /\ modification' \in Seq((0 .. Size) \X Payload)
      /\ Len(modification') = Len(modification) + 1
      /\ \A k \in 1 .. Len(modification) : modification'[k] = modification[k]
      /\ modification'[Len(modification) + 1] = <<slot, entry>>
  BY <1>2, <1>4, <1>5, <1>6
<1>8. Old' = Old
  BY <1>2, <1>6, <1>7 DEF Old
<1>9. GetCount' = GetCount /\ \A i : SlotAt(i)' = SlotAt(i)
  BY <1>2 DEF GetCount, SlotAt, Wrapped
<1>10. \A k \in 1 .. Old : modification'[k] = modification[k]
  BY <1>6, <1>7
<1>11. \A k \in 1 .. deltaWptr : modification'[Old + k] = modification[Old + k]
  BY <1>6, <1>7
<1>12. modification'[Old + deltaWptr'] = <<slot, entry>>
  BY <1>2, <1>6, <1>7
<1>13. RingOK'
  BY <1>2, <1>3, <1>7, <1>9, FifoAssumption DEF RingOK, FifoTypeOK, GetRemainingSize
<1>14. WritesOK'
  <2>1. ASSUME NEW k \in 1 .. Old
        PROVE  /\ ~ modification'[k][2].V
               /\ modification'[k][1] \in Slots =>
                    modification'[k][2] = [memory[modification'[k][1]] EXCEPT !.V = FALSE]
    BY <1>3, <1>10 DEF WritesOK
  <2>2. ASSUME NEW k \in 1 .. deltaWptr'
        PROVE  /\ modification'[Old + k][1] = SlotAt(GetCount + k - 1)
               /\ modification'[Old + k][2].V
    <3>1. CASE k = deltaWptr'
      <4>1. GetCount + k - 1 = GetCount + deltaWptr
        BY <1>2, <1>3, <1>6, <3>1, FifoAssumption DEF RingOK
      <4> QED
        BY <1>4, <1>5, <1>12, <3>1, <4>1
    <3>2. CASE k # deltaWptr'
      <4>1. k \in 1 .. deltaWptr
        BY <1>2, <1>6, <3>2
      <4> QED
        BY <1>3, <1>11, <4>1 DEF WritesOK
    <3> QED
      BY <3>1, <3>2
  <2> QED
    BY <1>2, <1>6, <1>8, <1>9, <2>1, <2>2 DEF WritesOK
<1>15. NumbersOK'
  <2>1. ASSUME NEW k \in 1 .. deltaWptr'
        PROVE  \/ k = deltaWptr'
               \/ k \in 1 .. deltaWptr /\ modification'[Old + k] = modification[Old + k]
    BY <1>2, <1>6, <1>11
  <2>2. \A i \in Slots : memory[i].V => memory[i].FGR # FGR
    BY <1>1 DEF Findable
  <2>3. ASSUME NEW k \in 1 .. deltaWptr
        PROVE  modification[Old + k][2].FGR # FGR
    <3>1. Old + k \in DOMAIN modification
      BY <1>6
    <3> QED
      BY <1>1, <1>3, <3>1 DEF Findable, WritesOK
  <2> DEFINE number(k) == modification'[Old + k][2].FGR
  <2>4. ASSUME NEW k \in 1 .. deltaWptr'
        PROVE  \/ k = deltaWptr' /\ number(k) = FGR
               \/ k \in 1 .. deltaWptr /\ number(k) = modification[Old + k][2].FGR
    BY <1>5, <1>12, <2>1
  <2> HIDE DEF number
  <2>5. ASSUME NEW i \in Slots, NEW k \in 1 .. deltaWptr', memory[i].V
        PROVE  memory[i].FGR # number(k)
    BY <1>3, <2>2, <2>4, <2>5 DEF NumbersOK
  <2>6. ASSUME NEW k \in 1 .. deltaWptr', NEW l \in 1 .. deltaWptr', number(k) = number(l)
        PROVE  k = l
    BY <1>3, <2>3, <2>4, <2>6 DEF NumbersOK
  <2>7. \A i, j \in Slots :
          memory[i].V /\ memory[j].V /\ memory[i].FGR = memory[j].FGR => i = j
    BY <1>3 DEF NumbersOK
  <2> QED
    BY <1>2, <1>8, <2>5, <2>6, <2>7 DEF NumbersOK, number
<1> QED
  BY <1>2, <1>3, <1>13, <1>14, <1>15, WalkStays DEF IInv

(* A pop is only counted.                                                  *)
LEMMA PopStep ==
  ASSUME IInv, PopFGR
  PROVE  IInv'
<1>1. /\ deltaRptr < GetCount /\ deltaRptr' = deltaRptr + 1
      /\ UNCHANGED <<memory, rptr, rptrb, wptr, wptrb, modification, deltaWptr,
                     setRptr, setRptrb, setWptr, setWptrb>>
      /\ UNCHANGED <<fifoState, walkVars, restoring>>
  BY DEF PopFGR, PopPayload, fifoState, fifoSet
<1>2. RingOK'
  BY <1>1, FifoAssumption DEF IInv, RingOK, FifoTypeOK, GetCount, GetRemainingSize
<1>3. WritesOK' = WritesOK /\ NumbersOK' = NumbersOK
  BY <1>1 DEF WritesOK, NumbersOK, Old, SlotAt, Wrapped, GetCount
<1> QED
  BY <1>1, <1>2, <1>3, WalkStays DEF IInv

(* A recovery.                                                             *)
LEMMA RestoreStep ==
  ASSUME IInv, CallRestoreFGR
  PROVE  IInv'
<1>0. RingOK /\ WritesOK /\ NumbersOK /\ WalkOK
  BY DEF IInv
<1>1. /\ UNCHANGED <<memory, rptr, rptrb, wptr, wptrb, deltaRptr, deltaWptr,
                     setRptr, setRptrb, setWptr, setWptrb>>
      /\ UNCHANGED <<wMemory, wRptr, wRptrb, wWptr, wWptrb, wDeltaRptr, wDeltaWptr>>
      /\ modification = <<>> /\ restoring' \in FGRs
  BY RestoreCall DEF fifoState, fifoSet, walkState
<1>2. PICK w \in Seq((0 .. Size) \X Payload) :
        /\ modification' = w
        /\ \A k \in 1 .. Len(w) :
             /\ ~ w[k][2].V
             /\ w[k][1] \in Slots => w[k][2] = [memory[w[k][1]] EXCEPT !.V = FALSE]
  BY RestoreCall
<1>3. deltaWptr = 0 /\ Len(w) \in Nat
  BY <1>0, <1>1 DEF WritesOK, Old, RingOK, FifoTypeOK
<1>4. Old' = Len(w)
  BY <1>1, <1>2, <1>3 DEF Old
<1>5. RingOK'
  BY <1>0, <1>1, <1>2 DEF RingOK, FifoTypeOK, GetCount, GetRemainingSize
<1>6. WritesOK'
  BY <1>1, <1>2, <1>3, <1>4 DEF WritesOK
<1>7. NumbersOK'
  BY <1>0, <1>1, <1>3 DEF NumbersOK
<1>8. WalkOK'
  <2>1. Walk!FifoTypeOK'
    <3>1. /\ wModification' \in Seq((0 .. Size) \X FGRs)
          /\ wSetRptr' \in Slots /\ wSetRptrb' \in {0, 1}
          /\ wSetWptr' \in 0 .. Size /\ wSetWptrb' \in {0, 1}
      BY RestoreCall
    <3> QED
      BY <1>0, <1>1, <3>1 DEF WalkOK, Walk!FifoTypeOK, Walk!Slots, Slots
  <2>2. Walk!GetCount' = Walk!GetCount /\ GetCount' = GetCount
    BY <1>1 DEF Walk!GetCount, GetCount
  <2>3. \E last \in 1 .. GetCount : WalkSet(last)'
    BY RestoreCall
  <2> QED
    BY <1>0, <1>1, <2>1, <2>2, <2>3 DEF WalkOK
<1> QED
  BY <1>5, <1>6, <1>7, <1>8 DEF IInv

(* The slots after an edge, by their distance from the entry that is then  *)
(* the oldest one.                                                         *)
LEMMA EdgeSlots ==
  ASSUME RingOK, Eval, NEW i \in 0 .. Size - deltaRptr
  PROVE  SlotAt(i)' = SlotAt(deltaRptr + i)
<1>1. rptr' = SlotAt(deltaRptr)
  BY MovedCount
<1> QED
  BY <1>1, FifoAssumption DEF RingOK, FifoTypeOK, Slots, SlotAt, Wrapped

(* The edge of the table.                                                  *)
LEMMA EdgeStep ==
  ASSUME RingOK, WritesOK, NumbersOK, Eval
  PROVE  RingOK' /\ WritesOK' /\ NumbersOK'
<1>1. /\ modification' = <<>> /\ deltaRptr' = 0 /\ deltaWptr' = 0
      /\ setRptr' = Unset /\ setRptrb' = Unset /\ setWptr' = Unset /\ setWptrb' = Unset
      /\ memory' = MemoryNext
  BY DEF Eval, DropInput
<1>2. memory' \in [Slots -> Payload]
  BY <1>1, MemoryOfEval
<1>3. /\ rptr' \in Slots /\ wptr' \in Slots /\ rptrb' \in {0, 1} /\ wptrb' \in {0, 1}
      /\ GetCount' \in 0 .. Size
  BY MovedCount, FifoAssumption DEF RingOK, GetRemainingSize
<1>4. RingOK'
  <2>1. GetRemainingSize' \in 0 .. Size
    BY <1>3, FifoAssumption DEF GetRemainingSize, GetCount
  <2>2. FifoTypeOK'
    BY <1>1, <1>2, <1>3, FifoAssumption DEF FifoTypeOK
  <2> QED
    BY <1>1, <1>3, <2>1, <2>2, FifoAssumption DEF RingOK
<1>5. WritesOK'
  BY <1>1 DEF WritesOK, Old
<1>6. NumbersOK'
  <2> DEFINE pushed(s, k) == s = SlotAt(GetCount + k - 1)
  <2>1. ASSUME NEW s \in Slots, MemoryNext[s].V
        PROVE  \/ /\ memory[s].V /\ MemoryNext[s].FGR = memory[s].FGR
               \/ \E k \in 1 .. deltaWptr :
                    /\ pushed(s, k)
                    /\ MemoryNext[s].FGR = modification[Old + k][2].FGR
    <3>1. CASE \E k \in 1 .. deltaWptr : pushed(s, k)
      BY <3>1, MemoryOfEval
    <3>2. CASE \A k \in 1 .. deltaWptr : ~ pushed(s, k)
      BY <2>1, <3>2, MemoryOfEval
    <3> QED
      BY <3>1, <3>2
  <2> HIDE DEF pushed
  <2>2. ASSUME NEW s \in Slots, NEW t \in Slots, NEW k \in 1 .. deltaWptr,
               pushed(s, k), pushed(t, k)
        PROVE  s = t
    BY <2>2 DEF pushed
  <2>3. ASSUME NEW s \in Slots, NEW t \in Slots, MemoryNext[s].V, MemoryNext[t].V,
               MemoryNext[s].FGR = MemoryNext[t].FGR
        PROVE  s = t
    BY <2>1, <2>2, <2>3 DEF NumbersOK
  <2> QED
    BY <1>1, <2>3 DEF NumbersOK
<1> QED
  BY <1>4, <1>5, <1>6

(* The writes of RestoreFGR to WALK fill all its slots.                    *)
LEMMA WalkFilled ==
  ASSUME RingOK, wModification = [k \in 1 .. Size |-> <<k - 1, memory[k - 1].FGR>>]
  PROVE  Walk!MemoryNext = [s \in Slots |-> memory[s].FGR]
<1>0. Walk!MemoryNext = [s \in Slots |-> Walk!MemoryNext[s]]
  BY DEF Walk!MemoryNext, Walk!Slots, Slots
<1> SUFFICES ASSUME NEW s \in Slots
             PROVE  Walk!MemoryNext[s] = memory[s].FGR
  BY <1>0, Zenon
<1> DEFINE writes == {k \in DOMAIN wModification : wModification[k][1] = s}
           last   == CHOOSE k \in writes : \A l \in writes : l <= k
<1>1. s + 1 \in 1 .. Size /\ (s + 1) - 1 = s
  BY FifoAssumption DEF Slots
<1>2. ASSUME NEW k \in 1 .. Size
      PROVE  wModification[k][1] = k - 1 /\ wModification[k][2] = memory[k - 1].FGR
  OBVIOUS
<1>3. writes = {s + 1}
  <2>1. DOMAIN wModification = 1 .. Size
    OBVIOUS
  <2>2. ASSUME NEW k \in 1 .. Size
        PROVE  k - 1 = s <=> k = s + 1
    BY FifoAssumption DEF Slots
  <2> QED
    BY <1>1, <1>2, <2>1, <2>2, Zenon
<1>4. Walk!MemoryNext[s] = IF writes = {} THEN wMemory[s] ELSE wModification[last][2]
  BY DEF Walk!MemoryNext, Walk!Slots, Slots
<1> HIDE DEF writes
<1>5. last = s + 1
  <2>1. \A k \in writes : k = s + 1
    BY <1>3
  <2>2. s + 1 \in writes /\ \A l \in writes : l <= s + 1
    BY <1>1, <1>3
  <2>3. last \in writes
    BY <2>2
  <2> QED
    BY <2>1, <2>3
<1> HIDE DEF last
<1> QED
  BY <1>1, <1>2, <1>3, <1>4, <1>5

(* WALK after an edge: what was set, or less what was popped.              *)
LEMMA WalkEdge ==
  ASSUME IInv, Eval, Walk!Eval
  PROVE  /\ wMemory' \in [Slots -> FGRs]
         /\ wRptr' \in Slots /\ wWptr' \in Slots /\ wRptrb' \in {0, 1} /\ wWptrb' \in {0, 1}
         /\ restoring = None =>
              /\ wMemory' = wMemory
              /\ wRptr' = Wrapped(wRptr + wDeltaRptr)
              /\ Walk!GetCount' = Walk!GetCount - wDeltaRptr
         /\ \A last \in 1 .. GetCount : restoring # None /\ WalkSet(last) =>
              /\ wMemory' = [s \in Slots |-> memory[s].FGR]
              /\ wRptr' = rptr
              /\ Walk!GetCount' = last
<1> USE FifoAssumption
<1>0. /\ RingOK /\ WalkOK /\ FifoTypeOK /\ wDeltaWptr = 0
      /\ wMemory \in [Slots -> FGRs]
      /\ wRptr \in Slots /\ wWptr \in Slots /\ wRptrb \in {0, 1} /\ wWptrb \in {0, 1}
      /\ Walk!GetCount \in 0 .. Size /\ wDeltaRptr \in 0 .. Walk!GetCount
  BY DEF IInv, RingOK, WalkOK, Walk!FifoTypeOK, Walk!Slots, Slots
<1>1. /\ wMemory' = Walk!MemoryNext
      /\ wRptr' = Walk!Wrapped(Walk!Moved(wRptr, wDeltaRptr, wSetRptr))
      /\ wRptrb' = Walk!WrapBit(Walk!Moved(wRptr, wDeltaRptr, wSetRptr), wRptrb, wSetRptrb)
      /\ wWptr' = Walk!Wrapped(Walk!Moved(wWptr, wDeltaWptr, wSetWptr))
      /\ wWptrb' = Walk!WrapBit(Walk!Moved(wWptr, wDeltaWptr, wSetWptr), wWptrb, wSetWptrb)
  BY DEF Walk!Eval
<1>2. CASE restoring = None
  <2>1. /\ wModification = <<>>
        /\ wSetRptr = Unset /\ wSetRptrb = Unset /\ wSetWptr = Unset /\ wSetWptrb = Unset
    BY <1>0, <1>2, GCTAssumption DEF WalkOK
  <2>2. wMemory' = wMemory
    BY <1>0, <1>1, <2>1 DEF Walk!MemoryNext, Walk!Slots, Slots
  <2>3. /\ wRptr' = Wrapped(wRptr + wDeltaRptr)
        /\ wRptrb' = IF wRptr + wDeltaRptr >= Size THEN 1 - wRptrb ELSE wRptrb
        /\ wWptr' = wWptr /\ wWptrb' = wWptrb
    BY <1>0, <1>1, <2>1 DEF Walk!Moved, Walk!Wrapped, Walk!WrapBit, Walk!Unset, Unset, Wrapped, Slots
  <2>4. Walk!GetCount' = Walk!GetCount - wDeltaRptr
    BY <1>0, <2>3 DEF Walk!GetCount, Wrapped, Slots
  <2>5. wRptr' \in Slots /\ wRptrb' \in {0, 1}
    BY <1>0, <2>3 DEF Walk!GetCount, Wrapped, Slots
  <2> QED
    BY <1>0, <1>2, <2>2, <2>3, <2>4, <2>5
<1>3. CASE restoring # None
  <2>1. PICK last \in 1 .. GetCount : WalkSet(last)
    BY <1>0, <1>3 DEF WalkOK
  <2>2. ASSUME NEW n \in 1 .. GetCount, WalkSet(n)
        PROVE  /\ wMemory' = [s \in Slots |-> memory[s].FGR]
               /\ wRptr' = rptr /\ wRptrb' = rptrb
               /\ wWptr' \in Slots /\ wWptrb' \in {0, 1}
               /\ Walk!GetCount' = n
    <3> DEFINE restore == SlotAt(n - 1)
    <3>1. /\ wModification = [k \in 1 .. Size |-> <<k - 1, memory[k - 1].FGR>>]
          /\ wSetRptr = rptr /\ wSetRptrb = rptrb
          /\ wSetWptr = restore + 1 /\ wSetWptrb = WalkBit(restore + 1)
      BY <2>2 DEF WalkSet
    <3>2. n - 1 \in 0 .. Size /\ n \in 1 .. Size /\ n \in Int
      BY <1>0 DEF RingOK
    <3>3. restore \in Slots
      BY <1>0, <3>2, SlotFacts, Zenon
    <3>4. restore = Wrapped(rptr + (n - 1))
      BY DEF SlotAt
    <3> HIDE DEF restore
    <3>5. wMemory' = [s \in Slots |-> memory[s].FGR]
      BY <1>0, <1>1, <3>1, WalkFilled
    <3>6. rptr \in Slots /\ wptr \in Slots /\ rptrb \in {0, 1} /\ wptrb \in {0, 1}
      BY <1>0 DEF FifoTypeOK
    <3>7. wRptr' = rptr /\ wRptrb' = rptrb
      BY <1>1, <3>1, <3>6 DEF Walk!Moved, Walk!Wrapped, Walk!WrapBit, Walk!Unset, Unset, Slots
    <3>8. /\ wWptr' = Wrapped(restore + 1)
          /\ wWptrb' = IF restore + 1 >= Size THEN 1 - WalkBit(restore + 1) ELSE WalkBit(restore + 1)
      <4>1. wSetWptr # Walk!Unset /\ wSetWptrb # Walk!Unset
        BY <3>1, <3>3, <3>6 DEF Walk!Unset, WalkBit, Slots
      <4> QED
        BY <1>1, <3>1, <4>1 DEF Walk!Moved, Walk!Wrapped, Walk!WrapBit, Wrapped
    <3>9. wWptr' \in Slots /\ wWptrb' \in {0, 1}
      BY <3>3, <3>6, <3>8 DEF WalkBit, Wrapped, Slots
    <3>10. Walk!GetCount' = n
      <4>1. /\ n <= GetCount /\ GetCount <= Size
            /\ GetCount = wptr - rptr + (IF wptrb = rptrb THEN 0 ELSE Size)
        BY <1>0 DEF GetCount, RingOK
      <4>2. Walk!GetCount' = wWptr' - wRptr' + (IF wWptrb' = wRptrb' THEN 0 ELSE Size)
        BY DEF Walk!GetCount
      <4>3. CASE rptr + (n - 1) < Size
        <5>1. restore = rptr + (n - 1)
          BY <3>2, <3>4, <3>6, <4>3 DEF Wrapped, Slots
        <5>2. wWptrb' = IF restore + 1 >= Size THEN 1 - rptrb ELSE rptrb
          BY <3>2, <3>6, <3>8, <4>1, <5>1 DEF WalkBit, Slots
        <5> QED
          BY <3>2, <3>6, <3>7, <3>8, <4>2, <5>1, <5>2 DEF Wrapped, Slots
      <4>4. CASE rptr + (n - 1) >= Size
        <5>1. restore = rptr + (n - 1) - Size
          BY <3>2, <3>4, <3>6, <4>4 DEF Wrapped, Slots
        <5>2. wptrb # rptrb /\ restore + 1 <= wptr
          BY <3>2, <3>6, <4>1, <4>4, <5>1 DEF Slots
        <5>3. wWptr' = restore + 1 /\ wWptrb' = wptrb
          BY <3>2, <3>3, <3>6, <3>8, <5>2 DEF WalkBit, Wrapped, Slots
        <5> QED
          BY <3>2, <3>6, <3>7, <4>2, <5>1, <5>2, <5>3 DEF Slots
      <4> QED
        BY <3>2, <3>6, <4>3, <4>4 DEF Slots
    <3> QED
      BY <3>5, <3>6, <3>7, <3>9, <3>10
  <2>3. wMemory' \in [Slots -> FGRs]
    <3>1. \A s \in Slots : memory[s].FGR \in FGRs
      BY <1>0, GCTAssumption DEF FifoTypeOK, Entries
    <3>2. wMemory' = [s \in Slots |-> memory[s].FGR]
      BY <2>1, <2>2
    <3> QED
      BY <3>1, <3>2
  <2> QED
    BY <1>0, <1>3, <2>1, <2>2, <2>3 DEF FifoTypeOK
<1> QED
  BY <1>2, <1>3

(* No step breaks the invariant.                                           *)
LEMMA InvStep ==
  ASSUME IInv, [Next]_gctVars
  PROVE  IInv'
<1> USE FifoAssumption
<1>0. /\ RingOK /\ WritesOK /\ NumbersOK /\ WalkOK /\ FifoTypeOK
      /\ Walk!FifoTypeOK /\ Walk!GetCount \in 0 .. Size
      /\ wDeltaRptr \in 0 .. Walk!GetCount /\ wDeltaWptr = 0
  BY DEF IInv, RingOK, WalkOK
<1>1. CASE CallPushFGR
  BY <1>1, PushStep
<1>2. CASE PopFGR
  BY <1>2, PopStep
<1>3. CASE CallRestoreFGR
  BY <1>3, RestoreStep
<1>4. CASE PopWALK
  <2>1. /\ wDeltaRptr < Walk!GetCount /\ wDeltaRptr' = wDeltaRptr + 1
        /\ UNCHANGED <<wMemory, wRptr, wRptrb, wWptr, wWptrb, wModification, wDeltaWptr,
                       wSetRptr, wSetRptrb, wSetWptr, wSetWptrb>>
        /\ UNCHANGED <<fifoVars, restoring>>
    BY <1>4 DEF PopWALK, Walk!PopPayload, Walk!fifoState, Walk!fifoSet
  <2>2. UNCHANGED <<memory, rptr, rptrb, wptr, wptrb>>
    BY <2>1 DEF fifoVars, fifoState
  <2>3. Walk!GetCount' = Walk!GetCount /\ GetCount' = GetCount
    BY <2>1, <2>2 DEF Walk!GetCount, GetCount
  <2>4. Walk!FifoTypeOK' /\ wDeltaRptr' \in 0 .. Walk!GetCount /\ wDeltaWptr' = 0
    BY <1>0, <2>1 DEF Walk!FifoTypeOK
  <2>5. ASSUME NEW last \in 1 .. GetCount
        PROVE  WalkSet(last)' = WalkSet(last)
    BY <2>1, <2>2 DEF WalkSet, SlotAt, Wrapped, WalkBit
  <2>6. WalkOK'
    BY <1>0, <2>1, <2>3, <2>4, <2>5 DEF WalkOK
  <2> QED
    BY <1>0, <2>1, <2>6, TableStays DEF IInv
<1>5. CASE ResetInputs
  <2>1. /\ modification' = <<>> /\ deltaRptr' = 0 /\ deltaWptr' = 0
        /\ setRptr' = Unset /\ setRptrb' = Unset /\ setWptr' = Unset /\ setWptrb' = Unset
        /\ UNCHANGED <<memory, rptr, rptrb, wptr, wptrb>>
        /\ wModification' = <<>> /\ wDeltaRptr' = 0 /\ wDeltaWptr' = 0
        /\ wSetRptr' = Unset /\ wSetRptrb' = Unset /\ wSetWptr' = Unset /\ wSetWptrb' = Unset
        /\ UNCHANGED <<wMemory, wRptr, wRptrb, wWptr, wWptrb>>
        /\ restoring' = None
    BY <1>5 DEF ResetInputs, ResetInput, DropInput, fifoState, Walk!ResetInput, Walk!DropInput,
                Walk!fifoState, Walk!Unset, Unset
  <2>2. Walk!GetCount' = Walk!GetCount /\ GetCount' = GetCount
    BY <2>1 DEF Walk!GetCount, GetCount
  <2>3. RingOK'
    <3>1. GetRemainingSize' = GetRemainingSize /\ GetRemainingSize \in 0 .. Size
      BY <1>0, <2>2 DEF GetRemainingSize, RingOK
    <3> QED
      BY <1>0, <2>1, <2>2, <3>1 DEF RingOK, FifoTypeOK
  <2>4. WritesOK'
    BY <2>1 DEF WritesOK, Old
  <2>5. NumbersOK'
    BY <1>0, <2>1 DEF NumbersOK
  <2>6. WalkOK'
    BY <1>0, <2>1, <2>2 DEF WalkOK, Walk!FifoTypeOK, Walk!Unset, Unset
  <2> QED
    BY <2>3, <2>4, <2>5, <2>6 DEF IInv
<1>6. CASE ClearTable
  <2>1. /\ rptr' = 0 /\ rptrb' = 0 /\ wptr' = 0 /\ wptrb' = 0
        /\ modification = <<>> /\ deltaRptr = 0 /\ deltaWptr = 0
        /\ UNCHANGED <<memory, modification, deltaRptr, deltaWptr, setRptr, setRptrb, setWptr, setWptrb>>
        /\ restoring = None /\ UNCHANGED <<walkVars, restoring>>
    BY <1>6 DEF ClearTable, Clear, NoInput, fifoInput, fifoSet
  <2>2. GetCount' = 0 /\ GetRemainingSize' = Size
    BY <2>1 DEF GetCount, GetRemainingSize
  <2>3. RingOK'
    BY <1>0, <2>1, <2>2 DEF RingOK, FifoTypeOK, Slots
  <2>4. WritesOK'
    BY <2>1 DEF WritesOK, Old
  <2>5. NumbersOK'
    BY <1>0, <2>1 DEF NumbersOK
  <2>6. WalkOK'
    <3>1. /\ UNCHANGED <<wMemory, wRptr, wRptrb, wWptr, wWptrb, restoring>>
          /\ UNCHANGED <<wModification, wDeltaRptr, wDeltaWptr, wSetRptr, wSetRptrb, wSetWptr, wSetWptrb>>
      BY <2>1 DEF walkVars, walkState, walkInput
    <3>2. Walk!FifoTypeOK' = Walk!FifoTypeOK /\ Walk!GetCount' = Walk!GetCount
      BY <3>1 DEF Walk!FifoTypeOK, Walk!GetCount
    <3> QED
      BY <1>0, <2>1, <3>1, <3>2, GCTAssumption DEF WalkOK
  <2> QED
    BY <2>3, <2>4, <2>5, <2>6 DEF IInv
<1>7. CASE ClearWALK
  <2>1. /\ wRptr' = 0 /\ wRptrb' = 0 /\ wWptr' = 0 /\ wWptrb' = 0
        /\ wModification = <<>> /\ wDeltaRptr = 0
        /\ UNCHANGED <<wMemory, wModification, wDeltaRptr, wDeltaWptr,
                       wSetRptr, wSetRptrb, wSetWptr, wSetWptrb>>
        /\ UNCHANGED <<fifoVars, restoring>>
    BY <1>7 DEF ClearWALK, Walk!Clear, Walk!NoInput, Walk!fifoInput, Walk!fifoSet
  <2>2. Walk!GetCount' = 0
    BY <2>1 DEF Walk!GetCount
  <2>3. restoring = None
    <3>1. wModification # [k \in 1 .. Size |-> <<k - 1, memory[k - 1].FGR>>]
      <4>1. wModification \in Seq((0 .. Size) \X FGRs) /\ Len(wModification) = 0
        BY <1>0, <2>1 DEF Walk!FifoTypeOK
      <4>2. 1 \in 1 .. Size /\ 1 \notin DOMAIN wModification
        BY <2>1
      <4> QED
        BY <4>2
    <3> QED
      BY <1>0, <3>1 DEF WalkOK, WalkSet
  <2>4. WalkOK'
    BY <1>0, <2>1, <2>2, <2>3, GCTAssumption DEF WalkOK, Walk!FifoTypeOK, Walk!Slots
  <2> QED
    BY <1>0, <2>1, <2>4, TableStays DEF IInv
<1>8. CASE Edge
  <2>1. Eval /\ Walk!Eval /\ restoring' = None
    BY <1>8 DEF Edge
  <2>2. RingOK' /\ WritesOK' /\ NumbersOK'
    BY <1>0, <2>1, EdgeStep
  <2>3. /\ wModification' = <<>> /\ wDeltaRptr' = 0 /\ wDeltaWptr' = 0
        /\ wSetRptr' = Unset /\ wSetRptrb' = Unset /\ wSetWptr' = Unset /\ wSetWptrb' = Unset
    BY <2>1 DEF Walk!Eval, Walk!DropInput, Walk!Unset, Unset
  <2>4. /\ wMemory' \in [Slots -> FGRs]
        /\ wRptr' \in Slots /\ wWptr' \in Slots /\ wRptrb' \in {0, 1} /\ wWptrb' \in {0, 1}
    BY <2>1, WalkEdge
  <2>5. Walk!GetCount' \in 0 .. Size
    <3>1. CASE restoring = None
      BY <1>0, <2>1, <3>1, WalkEdge
    <3>2. CASE restoring # None
      <4>1. PICK last \in 1 .. GetCount : WalkSet(last)
        BY <1>0, <3>2 DEF WalkOK
      <4>2. Walk!GetCount' = last
        BY <2>1, <3>2, <4>1, WalkEdge
      <4> QED
        BY <1>0, <4>2 DEF RingOK
    <3> QED
      BY <3>1, <3>2
  <2>6. Walk!FifoTypeOK'
    BY <2>3, <2>4 DEF Walk!FifoTypeOK, Walk!Slots, Walk!Unset, Slots, Unset
  <2>7. WalkOK'
    BY <2>1, <2>3, <2>5, <2>6 DEF WalkOK
  <2> QED
    BY <2>2, <2>7 DEF IInv
<1>9. CASE UNCHANGED gctVars
  BY <1>0, <1>9, TableStays, WalkStays DEF gctVars, IInv, fifoVars
<1> QED
  BY <1>1, <1>2, <1>3, <1>4, <1>5, <1>6, <1>7, <1>8, <1>9 DEF Next

(* The inductive invariant holds for rings of every size.                  *)
THEOREM TableInductive == Spec => []IInv
BY InvInit, InvStep, PTL DEF Spec

(* The pointers of both rings stay within the slots, what is recorded for  *)
(* the edge stays in its range, and no more is popped or pushed in a cycle *)
(* than the ring holds or has room for.                                    *)
THEOREM TableTypeCorrect == Spec => []TableTypeOK
<1>1. IInv => TableTypeOK
  BY DEF IInv, RingOK, WalkOK, TableTypeOK
<1> QED
  BY <1>1, TableInductive, PTL

LEMMA PushesFree == IInv => PushesHitFreeSlots
<1> SUFFICES ASSUME IInv PROVE PushesHitFreeSlots
  OBVIOUS
<1> USE FifoAssumption
<1>1. RingOK /\ WritesOK /\ FifoTypeOK /\ GetCount \in Nat
      /\ deltaWptr \in Nat /\ GetCount + deltaWptr <= Size
  BY DEF IInv, RingOK, GetRemainingSize
<1>2. /\ DOMAIN Pushes = 1 .. deltaWptr
      /\ \A k \in 1 .. deltaWptr : Pushes[k] = modification[Old + k]
  <2>1. modification \in Seq((0 .. Size) \X Payload) /\ Len(modification) \in Nat
    BY <1>1 DEF FifoTypeOK
  <2>2. Old \in Nat /\ Len(modification) = Old + deltaWptr
    BY <1>1, <2>1 DEF WritesOK, Old
  <2>3. Pushes = SubSeq(modification, Old + 1, Len(modification))
    BY DEF Pushes, Old
  <2> QED
    BY <1>1, <2>1, <2>2, <2>3
<1>3. ASSUME NEW k \in 1 .. deltaWptr
      PROVE  /\ Pushes[k][1] = SlotAt(GetCount + k - 1)
             /\ GetCount + k - 1 \in 0 .. Size - 1
  <2>1. Pushes[k] = modification[Old + k]
    BY <1>2
  <2>2. modification[Old + k][1] = SlotAt(GetCount + k - 1)
    BY <1>1 DEF WritesOK
  <2>3. GetCount + k - 1 \in 0 .. Size - 1
    BY <1>1
  <2> QED
    BY <2>1, <2>2, <2>3
<1>4. ASSUME NEW k \in 1 .. deltaWptr, NEW i \in 0 .. GetCount - 1
      PROVE  Pushes[k][1] # SlotAt(i)
  <2>1. i \in 0 .. Size - 1 /\ i # GetCount + k - 1
    BY <1>1
  <2> QED
    BY <1>1, <1>3, <2>1, SlotFacts
<1>5. ASSUME NEW k \in 1 .. deltaWptr, NEW l \in 1 .. deltaWptr, k # l
      PROVE  Pushes[k][1] # Pushes[l][1]
  <2>1. GetCount + k - 1 # GetCount + l - 1
    BY <1>1, <1>5
  <2> QED
    BY <1>1, <1>3, <2>1, SlotFacts
<1> QED
  BY <1>2, <1>4, <1>5 DEF PushesHitFreeSlots

(* A push never hits a slot whose group is still in the queue, and no two  *)
(* pushes of a cycle hit the same slot.                                    *)
THEOREM PushesNeverCollide == Spec => []PushesHitFreeSlots
BY PushesFree, TableInductive, PTL

-----------------------------------------------------------------------------
(* WALK follows the table.                                                 *)

(* After the edge of a recovery WALK holds the groups through the one      *)
(* recovered from.                                                         *)
LEMMA WalkRecovers ==
  ASSUME IInv, Edge, restoring # None
  PROVE  Walk!Contents' = GroupsThrough(restoring)
<1> USE FifoAssumption
<1>1. Eval /\ Walk!Eval /\ RingOK /\ NumbersOK /\ FifoTypeOK
  BY DEF Edge, IInv, RingOK
<1>2. PICK last \in 1 .. GetCount : WalkSet(last)
  BY DEF IInv, WalkOK
<1>3. /\ wMemory' = [s \in Slots |-> memory[s].FGR] /\ wRptr' = rptr
      /\ Walk!GetCount' = last
  BY <1>1, <1>2, WalkEdge
<1>4. last \in 1 .. Size /\ GetCount \in 0 .. Size
  BY <1>1 DEF RingOK
<1>5. ASSUME NEW i \in 1 .. last
      PROVE  wMemory'[Walk!SlotAt(i - 1)'] = Contents[i].FGR
  <2>1. Walk!SlotAt(i - 1)' = SlotAt(i - 1)
    BY <1>3 DEF Walk!SlotAt, Walk!Wrapped, SlotAt, Wrapped
  <2>2. i - 1 \in 0 .. Size /\ i \in 1 .. GetCount
    BY <1>4
  <2>3. SlotAt(i - 1) \in Slots
    BY <1>1, <2>2, SlotFacts, Zenon
  <2>4. Contents[i] = memory[SlotAt(i - 1)]
    BY <2>2 DEF Contents
  <2> QED
    BY <1>3, <2>1, <2>3, <2>4
<1>6. Walk!Contents' = [i \in 1 .. last |-> Contents[i].FGR]
  <2>1. Walk!Contents' = [i \in 1 .. Walk!GetCount' |-> wMemory'[Walk!SlotAt(i - 1)']]
    BY DEF Walk!Contents
  <2> QED
    BY <1>3, <1>5, <2>1, Zenon
<1>7. ASSUME NEW i \in DOMAIN Contents, Contents[i].V, Contents[i].FGR = restoring
      PROVE  i = last
  <2>1. restoring \in FGRs
    BY <1>1, <1>2 DEF IInv, WalkOK
  <2>2. /\ i \in 1 .. GetCount /\ SlotAt(i - 1) \in Slots
        /\ memory[SlotAt(i - 1)].V /\ memory[SlotAt(i - 1)].FGR = restoring
    BY <1>1, <1>7, <2>1, QueryFinds
  <2>3. /\ last - 1 \in 0 .. Size /\ last - 1 \in 0 .. Size - 1
        /\ i - 1 \in 0 .. Size - 1 /\ i \in Int /\ last \in Int
    BY <1>4, <2>2
  <2>4. SlotAt(last - 1) \in Slots
    BY <1>1, <2>3, SlotFacts, Zenon
  <2>5. memory[SlotAt(last - 1)].V /\ memory[SlotAt(last - 1)].FGR = restoring
    BY <1>2 DEF WalkSet
  <2>6. SlotAt(i - 1) = SlotAt(last - 1)
    BY <1>1, <2>2, <2>4, <2>5 DEF NumbersOK
  <2>7. i - 1 = last - 1
    BY <1>1, <2>3, <2>6, SlotFacts, Zenon
  <2> QED
    BY <2>3, <2>7
<1>8. last \in DOMAIN Contents /\ Contents[last].V /\ Contents[last].FGR = restoring
  BY <1>2 DEF Contents, WalkSet
<1>9. (CHOOSE i \in DOMAIN Contents : Contents[i].V /\ Contents[i].FGR = restoring) = last
  BY <1>7, <1>8
<1> QED
  BY <1>6, <1>9 DEF GroupsThrough

(* After any other edge it has lost what was popped.                       *)
LEMMA WalkPops ==
  ASSUME IInv, Edge, restoring = None
  PROVE  Walk!Contents' = SubSeq(Walk!Contents, wDeltaRptr + 1, Len(Walk!Contents))
<1> USE FifoAssumption
<1> DEFINE count == Walk!GetCount
           older == Walk!Contents
<1>1. Eval /\ Walk!Eval
  BY DEF Edge
<1>2. /\ wMemory' = wMemory
      /\ wRptr' = Wrapped(wRptr + wDeltaRptr)
      /\ Walk!GetCount' = count - wDeltaRptr
  BY <1>1, WalkEdge
<1>3. /\ wMemory \in [Slots -> FGRs] /\ wRptr \in Slots
      /\ count \in 0 .. Size /\ wDeltaRptr \in 0 .. count
  BY DEF IInv, WalkOK, Walk!FifoTypeOK, Walk!Slots, Slots
<1> HIDE DEF count
<1>4. older = [i \in 1 .. count |-> wMemory[Walk!SlotAt(i - 1)]]
  BY DEF Walk!Contents, count
<1>5. ASSUME NEW i \in 1 .. count
      PROVE  Walk!SlotAt(i - 1) = Wrapped(wRptr + (i - 1)) /\ Walk!SlotAt(i - 1) \in Slots
  BY <1>3 DEF Walk!SlotAt, Walk!Wrapped, Wrapped, Slots
<1>6. older \in Seq(FGRs) /\ Len(older) = count
  <2>1. \A i \in 1 .. count : wMemory[Walk!SlotAt(i - 1)] \in FGRs
    BY <1>3, <1>5
  <2> HIDE DEF older
  <2> QED
    BY <1>3, <1>4, <2>1
<1>7. Walk!Contents' = [i \in 1 .. count - wDeltaRptr |-> wMemory[Walk!SlotAt(i - 1)']]
  <2>1. Walk!Contents' = [i \in 1 .. Walk!GetCount' |-> wMemory'[Walk!SlotAt(i - 1)']]
    BY DEF Walk!Contents
  <2> QED
    BY <1>2, <2>1
<1>8. ASSUME NEW i \in 1 .. count - wDeltaRptr
      PROVE  wMemory[Walk!SlotAt(i - 1)'] = older[wDeltaRptr + i]
  <2>1. Walk!SlotAt(i - 1)' = Wrapped(Wrapped(wRptr + wDeltaRptr) + (i - 1))
    BY <1>2 DEF Walk!SlotAt, Walk!Wrapped, Wrapped
  <2> DEFINE k == wDeltaRptr + i
  <2>0. k \in 1 .. count
    BY <1>3
  <2> HIDE DEF older
  <2> HIDE DEF k
  <2>2. Walk!SlotAt(k - 1) = Wrapped(wRptr + (k - 1))
    BY <1>5, <2>0, Zenon
  <2>3. Wrapped(Wrapped(wRptr + wDeltaRptr) + (i - 1)) = Wrapped(wRptr + (k - 1))
    BY <1>3 DEF Wrapped, Slots, k
  <2>4. older[k] = wMemory[Walk!SlotAt(k - 1)]
    BY <1>4, <2>0, Zenon
  <2>5. wMemory[Walk!SlotAt(i - 1)'] = older[k]
    BY <2>1, <2>2, <2>3, <2>4
  <2> QED
    BY <2>5 DEF k
<1> HIDE DEF older
<1>9. SubSeq(older, wDeltaRptr + 1, Len(older)) =
        [i \in 1 .. count - wDeltaRptr |-> older[wDeltaRptr + i]]
  <2>1. /\ SubSeq(older, wDeltaRptr + 1, count) \in Seq(FGRs)
        /\ Len(SubSeq(older, wDeltaRptr + 1, count)) = count - wDeltaRptr
        /\ \A i \in 1 .. count - wDeltaRptr :
             SubSeq(older, wDeltaRptr + 1, count)[i] = older[wDeltaRptr + i]
    BY <1>3, <1>6
  <2> QED
    BY <1>3, <1>6, <2>1
<1>10. Walk!Contents' = SubSeq(older, wDeltaRptr + 1, Len(older))
  BY <1>7, <1>8, <1>9
<1> QED
  BY <1>10 DEF older

(* WALK holds just what is to be walked through, whatever is called in a   *)
(* cycle with a recovery.                                                  *)
THEOREM WalkAlwaysFollows == Spec => WalkFollows
<1>1. ASSUME IInv, [Next]_gctVars
      PROVE  [Edge => Walk!Contents' =
                IF restoring # None THEN GroupsThrough(restoring)
                ELSE SubSeq(Walk!Contents, wDeltaRptr + 1, Len(Walk!Contents))]_gctVars
  BY <1>1, WalkRecovers, WalkPops
<1> QED
  BY <1>1, TableInductive, PTL DEF Spec, WalkFollows

-----------------------------------------------------------------------------
(* The table implements the queue.                                         *)

(* The queue of groups and the pushes of the cycle, position by position.  *)
Mapped ==
  /\ GroupQueue \in Seq(FGRs \X GCAs) /\ Len(GroupQueue) = GetCount
  /\ \A i \in 1 .. GetCount : GroupQueue[i] = Group(memory[SlotAt(i - 1)])
  /\ GroupsPushed \in Seq(FGRs \X GCAs) /\ Len(GroupsPushed) = deltaWptr
  /\ \A k \in 1 .. deltaWptr : GroupsPushed[k] = Group(modification[Old + k][2])

LEMMA MappedState == IInv => Mapped
<1> SUFFICES ASSUME IInv PROVE Mapped
  OBVIOUS
<1> USE FifoAssumption
<1>1. /\ RingOK /\ WritesOK /\ FifoTypeOK /\ GetCount \in 0 .. Size /\ deltaWptr \in Nat
      /\ memory \in [Slots -> Entries] /\ modification \in Seq((0 .. Size) \X Entries)
  BY GCTAssumption DEF IInv, RingOK, FifoTypeOK
<1>2. \A e \in Entries : Group(e) \in FGRs \X GCAs
  BY DEF Entries, Group
<1>3. GroupQueue = [i \in 1 .. GetCount |-> Group(memory[SlotAt(i - 1)])]
  BY DEF GroupQueue, Contents
<1>4. ASSUME NEW i \in 1 .. GetCount
      PROVE  Group(memory[SlotAt(i - 1)]) \in FGRs \X GCAs
  <2>1. i - 1 \in 0 .. Size
    BY <1>1
  <2>2. SlotAt(i - 1) \in Slots
    BY <1>1, <2>1, SlotFacts, Zenon
  <2> QED
    BY <1>1, <1>2, <2>2
<1>5. /\ DOMAIN Pushes = 1 .. deltaWptr
      /\ \A k \in 1 .. deltaWptr : Pushes[k] = modification[Old + k] /\ Old + k \in 1 .. Len(modification)
  <2>1. Old \in Nat /\ Len(modification) \in Nat /\ Len(modification) = Old + deltaWptr
    BY <1>1 DEF WritesOK, Old
  <2>2. Pushes = SubSeq(modification, Old + 1, Len(modification))
    BY DEF Pushes, Old
  <2> QED
    BY <1>1, <2>1, <2>2
<1>6. GroupsPushed = [k \in 1 .. deltaWptr |-> Group(modification[Old + k][2])]
  BY <1>5 DEF GroupsPushed
<1>7. ASSUME NEW k \in 1 .. deltaWptr
      PROVE  Group(modification[Old + k][2]) \in FGRs \X GCAs
  BY <1>1, <1>2, <1>5
<1> DEFINE T    == FGRs \X GCAs
           g(i) == Group(memory[SlotAt(i - 1)])
           p(k) == Group(modification[Old + k][2])
<1>8. (\A i \in 1 .. GetCount : g(i) \in T) /\ (\A k \in 1 .. deltaWptr : p(k) \in T)
  BY <1>4, <1>7, Zenon
<1>9. GroupQueue = [i \in 1 .. GetCount |-> g(i)] /\ GroupsPushed = [k \in 1 .. deltaWptr |-> p(k)]
  BY <1>3, <1>6
<1> HIDE DEF T, g, p
<1>10. /\ GroupQueue \in Seq(T) /\ Len(GroupQueue) = GetCount
       /\ \A i \in 1 .. GetCount : GroupQueue[i] = g(i)
  BY <1>1, <1>8, <1>9
<1>11. /\ GroupsPushed \in Seq(T) /\ Len(GroupsPushed) = deltaWptr
       /\ \A k \in 1 .. deltaWptr : GroupsPushed[k] = p(k)
  BY <1>1, <1>8, <1>9
<1> QED
  BY <1>10, <1>11, Zenon DEF Mapped, T, g, p

(* A push of the table is one of the queue.                                *)
LEMMA PushImplements ==
  ASSUME IInv, Mapped, Mapped', NEW FGR \in FGRs, NEW GCA \in GCAs, PushFGR(FGR, GCA)
  PROVE  Groups!Push(<<FGR, GCA>>)
<1> USE FifoAssumption
<1> DEFINE entry == [FGR |-> FGR, V |-> TRUE, GCA |-> GCA]
           slot  == (wptr + deltaWptr) % Size
<1>1. /\ RingOK /\ WritesOK /\ FifoTypeOK /\ GetCount \in 0 .. Size /\ deltaWptr \in Nat
      /\ modification \in Seq((0 .. Size) \X Entries)
  BY GCTAssumption DEF IInv, RingOK, FifoTypeOK
<1>2. /\ deltaWptr < GetRemainingSize /\ deltaWptr' = deltaWptr + 1
      /\ modification' = Append(modification, <<slot, entry>>)
      /\ UNCHANGED <<memory, rptr, rptrb, wptr, wptrb, deltaRptr>>
  BY DEF PushFGR, PushPayload, fifoState
<1>3. GroupQueue' = GroupQueue
  BY <1>2 DEF GroupQueue, Contents, GetCount, SlotAt, Wrapped
<1>4. Group(entry) = <<FGR, GCA>>
  BY DEF Group
<1>5. slot \in 0 .. Size /\ entry \in Entries
  BY <1>1 DEF Entries, FifoTypeOK, Slots
<1> HIDE DEF entry, slot
<1>6. /\ Old \in Nat /\ Len(modification) = Old + deltaWptr /\ Old' = Old
      /\ Len(modification) \in Nat
      /\ \A k \in 1 .. Len(modification) : modification'[k] = modification[k]
      /\ modification'[Len(modification) + 1] = <<slot, entry>>
  BY <1>1, <1>2, <1>5 DEF WritesOK, Old
<1>7. ASSUME NEW k \in 1 .. deltaWptr
      PROVE  GroupsPushed'[k] = GroupsPushed[k]
  <2>1. k \in 1 .. deltaWptr' /\ Old + k \in 1 .. Len(modification)
    BY <1>1, <1>2, <1>6
  <2>2. GroupsPushed'[k] = Group(modification'[Old' + k][2])
    BY <2>1, Zenon DEF Mapped, Group
  <2>3. GroupsPushed[k] = Group(modification[Old + k][2])
    BY Zenon DEF Mapped
  <2> QED
    BY <1>6, <2>1, <2>2, <2>3
<1>8. GroupsPushed'[deltaWptr + 1] = <<FGR, GCA>>
  <2>1. deltaWptr + 1 \in 1 .. deltaWptr'
    BY <1>1, <1>2
  <2>2. GroupsPushed'[deltaWptr + 1] = Group(modification'[Old' + (deltaWptr + 1)][2])
    BY <2>1, Zenon DEF Mapped, Group
  <2>3. Old' + (deltaWptr + 1) = Len(modification) + 1
    BY <1>1, <1>6
  <2> QED
    BY <1>4, <1>6, <2>2, <2>3
<1>9. /\ GroupsPushed \in Seq(FGRs \X GCAs) /\ Len(GroupsPushed) = deltaWptr
      /\ GroupsPushed' \in Seq(FGRs \X GCAs) /\ Len(GroupsPushed') = deltaWptr + 1
      /\ Len(GroupQueue) = GetCount
  BY <1>2 DEF Mapped
<1> DEFINE item == <<FGR, GCA>>
<1>10. item \in FGRs \X GCAs
  OBVIOUS
<1> HIDE DEF item
<1>11. GroupsPushed' = Append(GroupsPushed, item)
  <2>1. GroupsPushed'[deltaWptr + 1] = item
    BY <1>8 DEF item
  <2> DEFINE new == GroupsPushed' old == GroupsPushed T == FGRs \X GCAs
  <2>2. /\ new \in Seq(T) /\ old \in Seq(T) /\ Len(old) = deltaWptr /\ Len(new) = deltaWptr + 1
        /\ \A k \in 1 .. deltaWptr : new[k] = old[k]
        /\ new[deltaWptr + 1] = item /\ item \in T
    BY <1>7, <1>9, <1>10, <2>1
  <2> HIDE DEF new, old, T
  <2>3. new = Append(old, item)
    BY <1>1, <2>2
  <2> QED
    BY <2>3 DEF new, old
<1>12. Len(GroupQueue) + Len(GroupsPushed) < Size
  BY <1>1, <1>2, <1>9 DEF GetRemainingSize
<1> QED
  BY <1>2, <1>3, <1>11, <1>12 DEF Groups!Push, item

(* The edge of the table is one of the queue.                              *)
LEMMA EdgeImplements ==
  ASSUME IInv, Mapped, Mapped', Edge
  PROVE  Groups!Edge
<1> USE FifoAssumption
<1>1. /\ RingOK /\ WritesOK /\ FifoTypeOK /\ Eval
      /\ GetCount \in 0 .. Size /\ deltaRptr \in 0 .. GetCount
      /\ deltaWptr \in Nat /\ GetCount + deltaWptr <= Size
  BY DEF IInv, RingOK, GetRemainingSize, Edge
<1>2. /\ deltaRptr' = 0 /\ deltaWptr' = 0 /\ memory' = MemoryNext
      /\ GetCount' = GetCount - deltaRptr + deltaWptr
  BY <1>1, MovedCount DEF Eval, DropInput
<1>3. GroupsPushed' = <<>>
  BY <1>2 DEF Mapped
<1> DEFINE kept == GetCount - deltaRptr
<1>4. ASSUME NEW i \in 1 .. kept + deltaWptr
      PROVE  GroupQueue'[i] = Group(MemoryNext[SlotAt(deltaRptr + (i - 1))])
  <2>1. i \in 1 .. GetCount' /\ i - 1 \in 0 .. Size - deltaRptr
    BY <1>1, <1>2
  <2>2. GroupQueue'[i] = Group(memory'[SlotAt(i - 1)'])
    BY <2>1, Zenon DEF Mapped, Group
  <2>3. SlotAt(i - 1)' = SlotAt(deltaRptr + (i - 1))
    BY <1>1, <2>1, EdgeSlots
  <2> QED
    BY <1>2, <2>2, <2>3
<1>5. ASSUME NEW i \in 1 .. kept
      PROVE  GroupQueue'[i] = GroupQueue[deltaRptr + i]
  <2> DEFINE n == deltaRptr + (i - 1)
             m == deltaRptr + i
             s == SlotAt(n)
  <2>1. /\ n \in 0 .. Size /\ n \in 0 .. Size - 1 /\ n < GetCount
        /\ m \in 1 .. GetCount /\ m - 1 = n
        /\ i \in 1 .. kept + deltaWptr
    BY <1>1
  <2> HIDE DEF n
  <2>2. s \in Slots
    BY <1>1, <2>1, SlotFacts, Zenon
  <2>3. ASSUME NEW k \in 1 .. deltaWptr
        PROVE  s # SlotAt(GetCount + k - 1)
    <3>1. GetCount + k - 1 \in 0 .. Size - 1 /\ GetCount + k - 1 # n
      BY <1>1, <2>1
    <3> QED
      BY <1>1, <2>1, <3>1, SlotFacts
  <2>4. MemoryNext[s].FGR = memory[s].FGR /\ MemoryNext[s].GCA = memory[s].GCA
    BY <1>1, <2>2, <2>3, MemoryOfEval
  <2> HIDE DEF m
  <2>5. GroupQueue[m] = Group(memory[SlotAt(m - 1)])
    BY <2>1, Zenon DEF Mapped
  <2>6. GroupQueue'[i] = Group(MemoryNext[s])
    BY <1>4, <2>1 DEF n
  <2> QED
    BY <2>1, <2>4, <2>5, <2>6 DEF Group, m
<1>6. ASSUME NEW k \in 1 .. deltaWptr
      PROVE  GroupQueue'[kept + k] = GroupsPushed[k]
  <2> DEFINE i == kept + k
  <2>1. i \in 1 .. kept + deltaWptr /\ deltaRptr + (i - 1) = GetCount + k - 1
    BY <1>1
  <2> HIDE DEF i
  <2>2. GroupQueue'[i] = Group(MemoryNext[SlotAt(deltaRptr + (i - 1))])
    BY <1>4, <2>1, Zenon
  <2>3. MemoryNext[SlotAt(GetCount + k - 1)] = modification[Old + k][2]
    BY <1>1, MemoryOfEval
  <2>4. GroupsPushed[k] = Group(modification[Old + k][2])
    BY Zenon DEF Mapped
  <2> QED
    BY <2>1, <2>2, <2>3, <2>4 DEF i
<1>7. GroupQueue' = SubSeq(GroupQueue, deltaRptr + 1, Len(GroupQueue)) \o GroupsPushed
  <2> DEFINE new == GroupQueue' old == GroupQueue pushed == GroupsPushed T == FGRs \X GCAs
             rest == SubSeq(old, deltaRptr + 1, Len(old))
  <2>1. /\ new \in Seq(T) /\ old \in Seq(T) /\ pushed \in Seq(T)
        /\ Len(old) = GetCount /\ Len(pushed) = deltaWptr
        /\ Len(new) = kept + deltaWptr /\ kept \in Nat /\ GetCount = deltaRptr + kept
    BY <1>1, <1>2 DEF Mapped
  <2>2. /\ \A i \in 1 .. kept : new[i] = old[deltaRptr + i]
        /\ \A k \in 1 .. deltaWptr : new[kept + k] = pushed[k]
    BY <1>5, <1>6
  <2> HIDE DEF new, old, pushed, T, kept
  <2>3. /\ rest \in Seq(T) /\ Len(rest) = kept
        /\ \A i \in 1 .. kept : rest[i] = old[deltaRptr + i]
    BY <1>1, <2>1
  <2> HIDE DEF rest
  <2>4. ASSUME NEW j \in 1 .. kept + deltaWptr, j > kept
        PROVE  new[j] = pushed[j - kept]
    <3> DEFINE k == j - kept
    <3>1. k \in 1 .. deltaWptr /\ kept + k = j
      BY <1>1, <2>1, <2>4
    <3> HIDE DEF k
    <3>2. new[kept + k] = pushed[k]
      BY <2>2, <3>1, Zenon
    <3> QED
      BY <3>1, <3>2 DEF k
  <2>5. /\ rest \o pushed \in Seq(T) /\ Len(rest \o pushed) = kept + deltaWptr
        /\ \A j \in 1 .. kept + deltaWptr :
             (rest \o pushed)[j] = IF j <= kept THEN rest[j] ELSE pushed[j - kept]
    BY <2>1, <2>3, Concatenation
  <2>6. ASSUME NEW j \in 1 .. kept + deltaWptr
        PROVE  new[j] = (rest \o pushed)[j]
    <3>1. CASE j <= kept
      <4>1. j \in 1 .. kept
        BY <2>1, <3>1
      <4> QED
        BY <2>2, <2>3, <2>5, <3>1, <4>1
    <3>2. CASE j > kept
      <4>1. ~ j <= kept
        BY <2>1, <3>2
      <4> QED
        BY <2>4, <2>5, <3>2, <4>1
    <3>3. j <= kept \/ j > kept
      BY <1>1, <2>1
    <3> QED
      BY <3>1, <3>2, <3>3, Zenon
  <2>7. new = rest \o pushed
    <3> DEFINE both == rest \o pushed
    <3>1. both \in Seq(T) /\ Len(both) = Len(new) /\ \A j \in 1 .. Len(new) : new[j] = both[j]
      BY <2>1, <2>5, <2>6
    <3> HIDE DEF both
    <3>2. new = both
      BY <2>1, <3>1
    <3> QED
      BY <3>2 DEF both
  <2> QED
    BY <2>7 DEF new, rest, old, pushed
<1> QED
  BY <1>2, <1>3, <1>7 DEF Groups!Edge

(* Every step of the table is one of the queue, or changes nothing of it.  *)
LEMMA StepImplements ==
  ASSUME IInv, Mapped, Mapped', [Next]_gctVars
  PROVE  [Groups!Next]_Groups!queueVars
<1> USE FifoAssumption
<1>1. RingOK /\ WritesOK /\ FifoTypeOK /\ Len(GroupQueue) = GetCount
  BY DEF IInv, RingOK, Mapped
<1>2. ASSUME UNCHANGED <<memory, rptr, rptrb, wptr, wptrb>>
      PROVE  GroupQueue' = GroupQueue
  BY <1>2 DEF GroupQueue, Contents, GetCount, SlotAt, Wrapped
<1>3. ASSUME UNCHANGED <<modification, deltaWptr>>
      PROVE  GroupsPushed' = GroupsPushed
  BY <1>3 DEF GroupsPushed, Pushes
<1>4. CASE CallPushFGR
  <2>1. PICK FGR \in FGRs, GCA \in GCAs : PushFGR(FGR, GCA)
    BY <1>4 DEF CallPushFGR
  <2>2. Groups!Push(<<FGR, GCA>>)
    BY <2>1, PushImplements
  <2> QED
    BY <2>2 DEF Groups!Next
<1>5. CASE PopFGR
  <2>1. /\ deltaRptr < GetCount /\ deltaRptr' = deltaRptr + 1
        /\ UNCHANGED <<memory, rptr, rptrb, wptr, wptrb, modification, deltaWptr>>
    BY <1>5 DEF PopFGR, PopPayload, fifoState
  <2> QED
    BY <1>1, <1>2, <1>3, <2>1 DEF Groups!Next, Groups!Pop
<1>6. CASE CallRestoreFGR
  <2>1. /\ modification = <<>>
        /\ UNCHANGED <<memory, rptr, rptrb, wptr, wptrb, deltaRptr, deltaWptr>>
    BY <1>6 DEF CallRestoreFGR, RestoreFGR, SetPayloads, fifoState
  <2>2. deltaWptr = 0 /\ deltaWptr' = 0
    BY <1>1, <2>1 DEF WritesOK, Old, FifoTypeOK
  <2>3. GroupsPushed' = <<>> /\ GroupsPushed = <<>>
    BY <2>2 DEF Mapped
  <2> QED
    BY <1>2, <2>1, <2>3 DEF Groups!queueVars
<1>7. CASE PopWALK \/ ClearWALK \/ UNCHANGED gctVars
  <2>1. UNCHANGED <<memory, rptr, rptrb, wptr, wptrb, modification, deltaRptr, deltaWptr>>
    BY <1>7 DEF PopWALK, ClearWALK, gctVars, fifoVars, fifoState, fifoInput
  <2> QED
    BY <1>2, <1>3, <2>1 DEF Groups!queueVars
<1>8. CASE ResetInputs
  <2>1. /\ UNCHANGED <<memory, rptr, rptrb, wptr, wptrb>> /\ deltaRptr' = 0 /\ deltaWptr' = 0
    BY <1>8 DEF ResetInputs, ResetInput, DropInput, fifoState
  <2>2. GroupsPushed' = <<>>
    BY <2>1 DEF Mapped
  <2> QED
    BY <1>2, <2>1, <2>2 DEF Groups!Next, Groups!Withdraw
<1>9. CASE ClearTable
  <2>1. /\ rptr' = 0 /\ rptrb' = 0 /\ wptr' = 0 /\ wptrb' = 0
        /\ deltaRptr' = 0 /\ deltaWptr' = 0
    BY <1>9 DEF ClearTable, NoInput, Clear, fifoInput
  <2>2. GetCount' = 0
    BY <2>1 DEF GetCount
  <2>3. GroupQueue' = <<>> /\ GroupsPushed' = <<>>
    BY <2>1, <2>2 DEF Mapped
  <2> QED
    BY <2>1, <2>3 DEF Groups!Next, Groups!Empty
<1>10. CASE Edge
  BY <1>10, EdgeImplements DEF Groups!Next
<1> QED
  BY <1>4, <1>5, <1>6, <1>7, <1>8, <1>9, <1>10 DEF Next

(* But for the V bits the table is a bounded clocked queue of groups, and  *)
(* PushFGR is its push, whatever is recovered from, popped and pushed in   *)
(* one cycle, and in whatever order.                                       *)
THEOREM TableImplementation == Spec => TableImplementsQueue
<1>1. Init => Groups!Init
  <2> SUFFICES ASSUME Init PROVE Groups!Init
    OBVIOUS
  <2>1. GetCount = 0 /\ deltaWptr = 0 /\ deltaRptr = 0
    BY DEF Init, FifoInit, NoInput, GetCount
  <2>2. Mapped
    BY InvInit, MappedState
  <2> QED
    BY <2>1, <2>2 DEF Mapped, Groups!Init
<1>2. ASSUME IInv, Mapped, Mapped', [Next]_gctVars
      PROVE  [\A FGR \in FGRs, GCA \in GCAs :
                PushFGR(FGR, GCA) => Groups!Push(<<FGR, GCA>>)]_gctVars
  BY <1>2, PushImplements
<1>3. ASSUME IInv, Mapped, Mapped', [Next]_gctVars
      PROVE  [Groups!Next]_Groups!queueVars
  BY <1>3, StepImplements
<1> QED
  BY <1>1, <1>2, <1>3, MappedState, TableInductive, PTL DEF Spec, TableImplementsQueue, Groups!Spec
=============================================================================
