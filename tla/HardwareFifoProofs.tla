------------------------- MODULE HardwareFifoProofs -------------------------
(***************************************************************************)
(* Proofs about both hardware queues, for every depth, word and reset      *)
(* state: each implements the abstract queue, and no sequence of reads and *)
(* writes tells them apart.                                                *)
(***************************************************************************)
EXTENDS HardwareFifos, TLAPS

(* The words between the pointers of the RAM, and the n-th cell from the   *)
(* read pointer on.                                                        *)
RamCount == (wptr - rptr) % (2 * Depth)
Cell(n)  == (rptr + n) % Depth

RamOK ==
  /\ ram \in [Address -> Word]
  /\ wptr \in Pointers /\ rptr \in Pointers
  /\ RamCount \in 0 .. Depth

ShiftOK ==
  /\ content \in [Address -> Word]
  /\ \E i \in 0 .. Depth : p = {i}

(* The two queues hold the same words.                                     *)
IInv == RamOK /\ ShiftOK /\ RamContents = Shift!Contents

(* A sequence put together from two.                                       *)
LEMMA JoinedUp ==
  ASSUME NEW T, NEW rest \in Seq(T), NEW last \in Seq(T), NEW new \in Seq(T),
         Len(new) = Len(rest) + Len(last),
         \A k \in 1 .. Len(rest) : new[k] = rest[k],
         \A k \in 1 .. Len(last) : new[Len(rest) + k] = last[k]
  PROVE  new = rest \o last
<1> DEFINE n    == Len(rest)
           m    == Len(last)
           both == rest \o last
<1>1. n \in Nat /\ m \in Nat
  OBVIOUS
<1>2. /\ both \in Seq(T) /\ Len(both) = n + m
      /\ \A k \in 1 .. n + m : both[k] = IF k <= n THEN rest[k] ELSE last[k - n]
  OBVIOUS
<1>3. Len(new) = n + m
  OBVIOUS
<1>4. ASSUME NEW k \in 1 .. n + m
      PROVE  new[k] = both[k]
  <2>1. CASE k <= n
    <3>1. k \in 1 .. n
      BY <1>1, <2>1
    <3> QED
      BY <1>2, <2>1, <3>1
  <2>2. CASE ~ k <= n
    <3> DEFINE j == k - n
    <3>1. j \in 1 .. m /\ n + j = k
      BY <1>1, <2>2
    <3>2. both[k] = last[j]
      BY <1>2, <2>2
    <3> HIDE DEF j
    <3>3. new[n + j] = last[j]
      BY <3>1
    <3> QED
      BY <3>1, <3>2, <3>3
  <2> QED
    BY <2>1, <2>2
<1> HIDE DEF both, n, m
<1>5. new = both
  BY <1>1, <1>2, <1>3, <1>4
<1> QED
  BY <1>5 DEF both

(* One step of the queue, position by position.                            *)
LEMMA FlowStep ==
  ASSUME NEW T, NEW queue \in Seq(T), NEW new \in Seq(T), NEW item \in T,
         NEW left \in {0, 1}, NEW joined \in {0, 1}, left <= Len(queue),
         Len(new) = Len(queue) - left + joined,
         \A k \in 1 .. Len(queue) - left : new[k] = queue[k + left],
         joined = 1 => new[Len(queue) - left + 1] = item
  PROVE  new = (IF left = 1 THEN Tail(queue) ELSE queue)
               \o (IF joined = 1 THEN <<item>> ELSE <<>>)
<1> DEFINE rest == IF left = 1 THEN Tail(queue) ELSE queue
           last == IF joined = 1 THEN <<item>> ELSE <<>>
<1>1. /\ rest \in Seq(T) /\ Len(rest) = Len(queue) - left
      /\ \A k \in 1 .. Len(queue) - left : rest[k] = queue[k + left]
  BY DEF rest
<1>2. /\ last \in Seq(T) /\ Len(last) = joined
      /\ joined = 1 => last[1] = item
  BY DEF last
<1> HIDE DEF rest, last
<1>3. Len(new) = Len(rest) + Len(last)
  BY <1>1, <1>2
<1>4. \A k \in 1 .. Len(rest) : new[k] = rest[k]
  BY <1>1
<1>5. ASSUME NEW k \in 1 .. Len(last)
      PROVE  new[Len(rest) + k] = last[k]
  <2>1. joined = 1 /\ k = 1 /\ Len(rest) + k = Len(queue) - left + 1
    BY <1>1, <1>2
  <2> QED
    BY <1>2, <2>1
<1>6. new = rest \o last
  BY <1>1, <1>2, <1>3, <1>4, <1>5, JoinedUp
<1> QED
  BY <1>6 DEF rest, last

-----------------------------------------------------------------------------
(* The pointers of the RAM.                                                *)

LEMMA Remainders ==
  /\ \A a \in 0 .. 3 * Depth - 1 :
       a % Depth = IF a < Depth THEN a ELSE IF a < 2 * Depth THEN a - Depth ELSE a - 2 * Depth
  /\ \A a \in Pointers : a \div Depth = IF a < Depth THEN 0 ELSE 1
  /\ \A a \in Pointers : Advance(a) = IF a + 1 = 2 * Depth THEN 0 ELSE a + 1
  /\ \A a, b \in Pointers : (a - b) % (2 * Depth) = IF a >= b THEN a - b ELSE a - b + 2 * Depth
<1> DEFINE D == Depth
<1>1. D \in Nat \ {0}
  BY RamAssumption
<1> HIDE DEF D
<1>2. \A a \in 0 .. 3 * D - 1 :
        a % D = IF a < D THEN a ELSE IF a < 2 * D THEN a - D ELSE a - 2 * D
  BY <1>1
<1>3. \A a \in 0 .. 2 * D - 1 : a \div D = IF a < D THEN 0 ELSE 1
  BY <1>1
<1>4. \A a \in 0 .. 2 * D - 1 : (a + 1) % (2 * D) = IF a + 1 = 2 * D THEN 0 ELSE a + 1
  BY <1>1
<1>5. \A a, b \in 0 .. 2 * D - 1 :
        (a - b) % (2 * D) = IF a >= b THEN a - b ELSE a - b + 2 * D
  BY <1>1
<1> QED
  BY <1>2, <1>3, <1>4, <1>5 DEF D, Pointers, Advance

(* The cells of the words, and the one behind them that is written next.   *)
LEMMA Cells ==
  ASSUME RamOK
  PROVE  /\ \A n \in 0 .. Depth : Cell(n) \in Address
         /\ \A m, n \in 0 .. Depth : Cell(m) = Cell(n) => m = n \/ {m, n} = {0, Depth}
         /\ wptr % Depth = Cell(RamCount)
         /\ rptr % Depth = Cell(0)
         /\ \A n \in 0 .. Depth - 1 : (Advance(rptr) + n) % Depth = Cell(n + 1)
<1> DEFINE D == Depth
<1>1. D \in Nat \ {0}
  BY RamAssumption
<1>2. /\ wptr \in 0 .. 2 * D - 1 /\ rptr \in 0 .. 2 * D - 1
      /\ RamCount \in 0 .. D
      /\ RamCount = IF wptr >= rptr THEN wptr - rptr ELSE wptr - rptr + 2 * D
  BY Remainders DEF RamOK, Pointers, RamCount
<1>3. \A a \in 0 .. 3 * D - 1 :
        a % D = IF a < D THEN a ELSE IF a < 2 * D THEN a - D ELSE a - 2 * D
  BY Remainders
<1>4. Advance(rptr) = IF rptr + 1 = 2 * D THEN 0 ELSE rptr + 1
  BY Remainders DEF RamOK
<1> HIDE DEF D
<1>5. ASSUME NEW n \in 0 .. D
      PROVE  Cell(n) = IF rptr + n < D THEN rptr + n
                       ELSE IF rptr + n < 2 * D THEN rptr + n - D ELSE rptr + n - 2 * D
  <2> DEFINE a == rptr + n
  <2>1. a \in 0 .. 3 * D - 1
    BY <1>1, <1>2
  <2>2. Cell(n) = a % D
    BY DEF Cell, D
  <2> HIDE DEF a
  <2>3. Cell(n) = IF a < D THEN a ELSE IF a < 2 * D THEN a - D ELSE a - 2 * D
    BY <1>3, <2>1, <2>2
  <2> QED
    BY <1>1, <1>2, <2>3 DEF a
<1>6. ASSUME NEW n \in 0 .. D
      PROVE  Cell(n) \in 0 .. D - 1
  BY <1>1, <1>2, <1>5
<1>7. ASSUME NEW m \in 0 .. D, NEW n \in 0 .. D, Cell(m) = Cell(n)
      PROVE  m = n \/ {m, n} = {0, D}
  <2>1. m = n \/ (m = 0 /\ n = D) \/ (m = D /\ n = 0)
    BY <1>1, <1>2, <1>5, <1>7
  <2> QED
    BY <2>1
<1>8. wptr % D = Cell(RamCount) /\ rptr % D = Cell(0)
  <2>1. wptr \in 0 .. 3 * D - 1 /\ rptr \in 0 .. 3 * D - 1 /\ 0 \in 0 .. D
    BY <1>1, <1>2
  <2>2. /\ wptr % D = IF wptr < D THEN wptr ELSE IF wptr < 2 * D THEN wptr - D ELSE wptr - 2 * D
        /\ rptr % D = IF rptr < D THEN rptr ELSE IF rptr < 2 * D THEN rptr - D ELSE rptr - 2 * D
    BY <1>3, <2>1
  <2> QED
    BY <1>1, <1>2, <1>5, <2>1, <2>2
<1>9. ASSUME NEW n \in 0 .. D - 1
      PROVE  (Advance(rptr) + n) % D = Cell(n + 1)
  <2> DEFINE a == Advance(rptr) + n
             m == n + 1
  <2>1. a \in 0 .. 3 * D - 1 /\ m \in 0 .. D
    BY <1>1, <1>2, <1>4
  <2>2. a % D = IF a < D THEN a ELSE IF a < 2 * D THEN a - D ELSE a - 2 * D
    BY <1>3, <2>1
  <2>3. Cell(m) = IF rptr + m < D THEN rptr + m
                  ELSE IF rptr + m < 2 * D THEN rptr + m - D ELSE rptr + m - 2 * D
    BY <1>5, <2>1
  <2> QED
    BY <1>1, <1>2, <1>4, <2>2, <2>3
<1> QED
  BY <1>6, <1>7, <1>8, <1>9 DEF D, Address

(* The ports of the RAM queue, and its words.                              *)
LEMMA RamPorts ==
  ASSUME RamOK
  PROVE  /\ RamContents \in Seq(Word) /\ Len(RamContents) = RamCount
         /\ \A k \in 1 .. RamCount : RamContents[k] = ram[Cell(k - 1)]
         /\ RamEmpty <=> RamCount = 0
         /\ RamFull <=> RamCount = Depth
         /\ RamDout = ram[Cell(0)]
<1>1. Depth \in Nat \ {0} /\ RamCount \in 0 .. Depth /\ ram \in [Address -> Word]
  BY RamAssumption DEF RamOK
<1>2. ASSUME NEW k \in 1 .. RamCount
      PROVE  (rptr + k - 1) % Depth = Cell(k - 1) /\ ram[Cell(k - 1)] \in Word
  <2>1. k - 1 \in 0 .. Depth /\ rptr + k - 1 = rptr + (k - 1)
    BY <1>1 DEF RamOK, Pointers
  <2>2. Cell(k - 1) \in Address
    BY <2>1, Cells, Zenon
  <2> QED
    BY <1>1, <2>1, <2>2 DEF Cell
<1>3. RamContents = [k \in 1 .. RamCount |-> ram[Cell(k - 1)]]
  BY <1>2 DEF RamContents, RamCount
<1>4. /\ RamContents \in Seq(Word) /\ Len(RamContents) = RamCount
      /\ \A k \in 1 .. RamCount : RamContents[k] = ram[Cell(k - 1)]
  <2> DEFINE e(k) == ram[Cell(k - 1)]
  <2>1. \A k \in 1 .. RamCount : e(k) \in Word
    BY <1>2, Zenon
  <2>2. RamContents = [k \in 1 .. RamCount |-> e(k)]
    BY <1>3
  <2> HIDE DEF e
  <2>3. /\ RamContents \in Seq(Word) /\ Len(RamContents) = RamCount
        /\ \A k \in 1 .. RamCount : RamContents[k] = e(k)
    BY <1>1, <2>1, <2>2
  <2> QED
    BY <2>3 DEF e
<1>5. (RamEmpty <=> RamCount = 0) /\ (RamFull <=> RamCount = Depth)
  <2> DEFINE D == Depth
  <2>1. D \in Nat \ {0}
    BY <1>1
  <2>2. /\ wptr \in 0 .. 2 * D - 1 /\ rptr \in 0 .. 2 * D - 1
        /\ RamCount = IF wptr >= rptr THEN wptr - rptr ELSE wptr - rptr + 2 * D
        /\ wptr \div D = (IF wptr < D THEN 0 ELSE 1)
        /\ rptr \div D = (IF rptr < D THEN 0 ELSE 1)
    BY Remainders DEF RamOK, RamCount, Pointers
  <2>3. \A a \in 0 .. 3 * D - 1 :
          a % D = IF a < D THEN a ELSE IF a < 2 * D THEN a - D ELSE a - 2 * D
    BY Remainders
  <2>4. RamEmpty = (wptr % D = rptr % D /\ wptr \div D = rptr \div D)
    BY DEF RamEmpty, RamOverlap
  <2>5. RamFull = (wptr % D = rptr % D /\ wptr \div D # rptr \div D)
    BY DEF RamFull, RamOverlap
  <2> HIDE DEF D
  <2>6. wptr \in 0 .. 3 * D - 1 /\ rptr \in 0 .. 3 * D - 1
    BY <2>1, <2>2
  <2>7. /\ wptr % D = (IF wptr < D THEN wptr ELSE IF wptr < 2 * D THEN wptr - D ELSE wptr - 2 * D)
        /\ rptr % D = (IF rptr < D THEN rptr ELSE IF rptr < 2 * D THEN rptr - D ELSE rptr - 2 * D)
    BY <2>3, <2>6
  <2> DEFINE wd == wptr \div D
             rd == rptr \div D
             wm == wptr % D
             rm == rptr % D
  <2>11. wd = (IF wptr < D THEN 0 ELSE 1) /\ rd = (IF rptr < D THEN 0 ELSE 1)
    BY <2>2
  <2>12. wm = (IF wptr < D THEN wptr ELSE wptr - D)
    BY <2>1, <2>2, <2>7
  <2>13. rm = (IF rptr < D THEN rptr ELSE rptr - D)
    BY <2>1, <2>2, <2>7
  <2>8. (RamEmpty <=> wm = rm /\ wd = rd) /\ (RamFull <=> wm = rm /\ wd # rd)
    BY <2>4, <2>5
  <2> HIDE DEF wd, rd, wm, rm
  <2>9. (wm = rm /\ wd = rd <=> RamCount = 0) /\ (wm = rm /\ wd # rd <=> RamCount = D)
    BY <2>1, <2>2, <2>11, <2>12, <2>13
  <2>10. (RamEmpty <=> RamCount = 0) /\ (RamFull <=> RamCount = D)
    BY <2>8, <2>9
  <2> QED
    BY <2>10 DEF D
<1>6. RamDout = ram[Cell(0)]
  BY Cells DEF RamDout
<1> QED
  BY <1>4, <1>5, <1>6

(* An edge of the RAM queue is a step of the queue.                        *)
LEMMA RamStep ==
  ASSUME RamOK, NEW din \in Word, NEW wen \in BOOLEAN, NEW ren \in BOOLEAN,
         RamEdge(din, wen, ren)
  PROVE  RamOK' /\ RamQueue!Edge(din, wen, ren)
<1> DEFINE D      == Depth
           C      == RamCount
           leaves == RamPop(ren)
           joins  == RamWrites(wen, ren)
           d      == IF leaves THEN 1 ELSE 0
           e      == IF joins THEN 1 ELSE 0
<1>1. /\ D \in Nat \ {0} /\ C \in 0 .. D /\ ram \in [Address -> Word]
      /\ wptr \in 0 .. 2 * D - 1 /\ rptr \in 0 .. 2 * D - 1 /\ Address = 0 .. D - 1
      /\ Pointers = 0 .. 2 * D - 1
  BY RamAssumption DEF RamOK, Pointers, Address
<1>2. /\ Advance(rptr) = (IF rptr + 1 = 2 * D THEN 0 ELSE rptr + 1)
      /\ Advance(wptr) = (IF wptr + 1 = 2 * D THEN 0 ELSE wptr + 1)
      /\ C = (IF wptr >= rptr THEN wptr - rptr ELSE wptr - rptr + 2 * D)
  BY Remainders DEF RamOK, RamCount
<1>3. /\ rptr' = IF leaves THEN Advance(rptr) ELSE rptr
      /\ wptr' = IF joins THEN Advance(wptr) ELSE wptr
      /\ ram' = IF joins THEN [ram EXCEPT ![Cell(C)] = din] ELSE ram
  BY Cells DEF RamEdge
<1>4. /\ leaves <=> ren /\ C # 0
      /\ joins <=> wen /\ (leaves \/ C # D)
  BY RamPorts DEF RamPop, RamWrites
<1>5. /\ RamContents \in Seq(Word) /\ Len(RamContents) = C
      /\ \A k \in 1 .. C : RamContents[k] = ram[Cell(k - 1)]
  BY RamPorts
<1>6. /\ \A n \in 0 .. D : Cell(n) \in Address
      /\ \A m, n \in 0 .. D : Cell(m) = Cell(n) => m = n \/ {m, n} = {0, D}
      /\ rptr % D = Cell(0)
      /\ \A n \in 0 .. D - 1 : (Advance(rptr) + n) % D = Cell(n + 1)
  BY Cells
<1>7. \A a, b \in Pointers : (a - b) % (2 * D) = IF a >= b THEN a - b ELSE a - b + 2 * D
  BY Remainders
<1>8. RamCount' = (wptr' - rptr') % (2 * D)
  BY DEF RamCount
<1>9. (leaves => ren /\ C # 0) /\ (joins => C # D \/ leaves)
  BY <1>4
<1> HIDE DEF D, C, leaves, joins
<1>10. wptr' \in Pointers /\ rptr' \in Pointers
  BY <1>1, <1>2, <1>3
<1>11. RamCount' = C - d + e /\ RamCount' \in 0 .. D
  <2>1. RamCount' = IF wptr' >= rptr' THEN wptr' - rptr' ELSE wptr' - rptr' + 2 * D
    BY <1>7, <1>8, <1>10
  <2>2. RamCount' = C - d + e
    BY <1>1, <1>2, <1>3, <1>9, <2>1
  <2> QED
    BY <1>1, <1>9, <2>2
<1>12. ram' \in [Address -> Word]
  BY <1>1, <1>3
<1>13. RamOK'
  BY <1>10, <1>11, <1>12 DEF RamOK, D
<1>14. /\ RamContents' \in Seq(Word) /\ Len(RamContents') = C - d + e
       /\ \A k \in 1 .. C - d + e : RamContents'[k] = ram'[Cell(k - 1)']
  <2>1. (RamOK => /\ RamContents \in Seq(Word) /\ Len(RamContents) = RamCount
                  /\ \A k \in 1 .. RamCount : RamContents[k] = ram[Cell(k - 1)])'
    BY RamPorts, PTL
  <2> QED
    BY <1>11, <1>13, <2>1
<1>15. ASSUME NEW n \in 0 .. D - 1
       PROVE  Cell(n)' = Cell(n + d)
  <2>1. Cell(n)' = (rptr' + n) % D
    BY DEF Cell, D
  <2>2. CASE leaves
    BY <1>3, <1>6, <2>1, <2>2
  <2>3. CASE ~ leaves
    BY <1>1, <1>3, <2>1, <2>3 DEF Cell, D
  <2> QED
    BY <2>2, <2>3
<1>16. ASSUME NEW k \in 1 .. C - d
       PROVE  RamContents'[k] = RamContents[k + d]
  <2> DEFINE n == k - 1
             m == k + d
  <2>1. /\ k \in 1 .. C - d + e /\ n \in 0 .. D - 1 /\ n = k - 1
        /\ m \in 1 .. C /\ n + d = m - 1
        /\ n + d \in 0 .. D /\ n + d # C /\ ~ (n + d = 0 /\ C = D /\ leaves)
    BY <1>1
  <2>2. RamContents'[k] = ram'[Cell(n + d)]
    BY <1>14, <1>15, <2>1
  <2> HIDE DEF m, n
  <2>3. joins => Cell(n + d) # Cell(C)
    <3>1. joins => ~ {n + d, C} = {0, D}
      BY <1>1, <1>9, <2>1
    <3> QED
      BY <1>1, <1>6, <2>1, <3>1
  <2>4. ram'[Cell(n + d)] = ram[Cell(n + d)]
    BY <1>1, <1>3, <1>6, <2>1, <2>3
  <2>5. RamContents[m] = ram[Cell(m - 1)]
    BY <1>5, <2>1
  <2> QED
    BY <2>1, <2>2, <2>4, <2>5 DEF m
<1>17. ASSUME joins
       PROVE  RamContents'[C - d + 1] = din
  <2> DEFINE k == C - d + 1
             n == k - 1
  <2>1. k \in 1 .. C - d + e /\ n \in 0 .. D - 1 /\ n + d = C
    BY <1>1, <1>9, <1>17
  <2> HIDE DEF k
  <2>2. RamContents'[k] = ram'[Cell(C)]
    BY <1>14, <1>15, <2>1
  <2>3. ram'[Cell(C)] = din
    BY <1>1, <1>3, <1>6, <1>17
  <2> QED
    BY <2>2, <2>3 DEF k
<1>18. RamContents' = (IF leaves THEN Tail(RamContents) ELSE RamContents)
                      \o (IF joins THEN <<din>> ELSE <<>>)
  <2> DEFINE new == RamContents'
             queue == RamContents
  <2>1. /\ queue \in Seq(Word) /\ new \in Seq(Word) /\ d \in {0, 1} /\ e \in {0, 1}
        /\ d <= Len(queue) /\ Len(new) = Len(queue) - d + e
        /\ \A k \in 1 .. Len(queue) - d : new[k] = queue[k + d]
        /\ e = 1 => new[Len(queue) - d + 1] = din
    BY <1>1, <1>5, <1>9, <1>14, <1>16, <1>17
  <2>2. (d = 1 <=> leaves) /\ (e = 1 <=> joins)
    OBVIOUS
  <2> HIDE DEF new, queue, d, e
  <2>3. new = (IF d = 1 THEN Tail(queue) ELSE queue) \o (IF e = 1 THEN <<din>> ELSE <<>>)
    BY <2>1, FlowStep, Zenon
  <2>4. new = (IF leaves THEN Tail(queue) ELSE queue) \o (IF joins THEN <<din>> ELSE <<>>)
    BY <2>2, <2>3
  <2> QED
    BY <2>4 DEF new, queue
<1>19. leaves <=> ren /\ RamContents # <<>>
  BY <1>1, <1>4, <1>5
<1>20. joins <=> wen /\ (leaves \/ Len(RamContents) < Depth)
  BY <1>1, <1>4, <1>5 DEF D
<1> QED
  BY <1>13, <1>18, <1>19, <1>20 DEF RamQueue!Edge

-----------------------------------------------------------------------------
(* The shift register.                                                     *)

(* The ports of the shift register, and its words.                         *)
LEMMA ShiftPorts ==
  ASSUME ShiftOK, NEW i \in 0 .. Depth, p = {i}
  PROVE  /\ Shift!Contents \in Seq(Word) /\ Len(Shift!Contents) = Depth - i
         /\ \A k \in 1 .. Depth - i : Shift!Contents[k] = content[Depth - k]
         /\ Shift!Empty <=> i = Depth
         /\ Shift!Full <=> i = 0
<1> DEFINE D == Depth
<1>1. D \in Nat \ {0} /\ content \in [0 .. D - 1 -> Word] /\ i \in 0 .. D
  BY RamAssumption DEF ShiftOK, Address
<1>2. (CHOOSE j \in p : \A l \in p : j <= l) = i
  BY <1>1
<1>3. Shift!Contents = [k \in 1 .. D - i |-> content[D - k]]
  BY <1>2 DEF Shift!Contents
<1>4. (Shift!Empty <=> i = D) /\ (Shift!Full <=> i = 0)
  BY DEF Shift!Empty, Shift!Full
<1> HIDE DEF D
<1>5. ASSUME NEW k \in 1 .. D - i
      PROVE  content[D - k] \in Word
  BY <1>1
<1>6. /\ Shift!Contents \in Seq(Word) /\ Len(Shift!Contents) = D - i
      /\ \A k \in 1 .. D - i : Shift!Contents[k] = content[D - k]
  <2> DEFINE e(k) == content[D - k]
  <2>1. \A k \in 1 .. D - i : e(k) \in Word
    BY <1>5, Zenon
  <2>2. Shift!Contents = [k \in 1 .. D - i |-> e(k)]
    BY <1>3
  <2>3. D - i \in Nat
    BY <1>1
  <2> HIDE DEF e
  <2>4. /\ Shift!Contents \in Seq(Word) /\ Len(Shift!Contents) = D - i
        /\ \A k \in 1 .. D - i : Shift!Contents[k] = e(k)
    BY <2>1, <2>2, <2>3
  <2> QED
    BY <2>4 DEF e
<1> QED
  BY <1>4, <1>6 DEF D

LEMMA ShiftWords ==
  \A n \in 0 .. Depth : ShiftOK /\ p = {n} =>
    /\ Shift!Contents \in Seq(Word) /\ Len(Shift!Contents) = Depth - n
    /\ \A k \in 1 .. Depth - n : Shift!Contents[k] = content[Depth - k]
BY ShiftPorts

(* An edge of the shift register is a step of the queue.                   *)
LEMMA ShiftStep ==
  ASSUME ShiftOK, NEW din \in Word, NEW wen \in BOOLEAN, NEW ren \in BOOLEAN,
         Shift!Edge(din, wen, ren)
  PROVE  ShiftOK' /\ ShiftQueue!Edge(din, wen, ren)
<1> DEFINE D      == Depth
           leaves == Shift!Popped(ren)
           hold   == Shift!Hold(wen, ren)
           push   == Shift!Push(wen, ren)
           joins  == hold \/ push
           d      == IF leaves THEN 1 ELSE 0
           e      == IF joins THEN 1 ELSE 0
<1>0. PICK i \in 0 .. D : p = {i}
  BY DEF ShiftOK
<1>1. /\ D \in Nat \ {0} /\ i \in 0 .. D /\ content \in [0 .. D - 1 -> Word]
      /\ Address = 0 .. D - 1
  BY RamAssumption DEF ShiftOK, Address
<1> DEFINE len   == D - i
           queue == Shift!Contents
<1>2. /\ queue \in Seq(Word) /\ Len(queue) = len
      /\ \A k \in 1 .. len : queue[k] = content[D - k]
      /\ Shift!Empty <=> i = D
      /\ Shift!Full <=> i = 0
  BY <1>0, ShiftPorts
<1>3. /\ leaves <=> ren /\ i # D
      /\ hold <=> leaves /\ wen
      /\ push <=> ~ hold /\ wen /\ i # 0
      /\ Shift!Pop(wen, ren) <=> leaves /\ ~ wen
  BY <1>2 DEF Shift!Popped, Shift!Hold, Shift!Push, Shift!Pop
<1>4. p' = {i + d - e}
  <2>1. p' = IF leaves /\ ~ wen THEN {j + 1 : j \in p \ {D}}
             ELSE IF push THEN {j - 1 : j \in p \ {0}} ELSE p
    BY <1>3 DEF Shift!Edge, Shift!Mark
  <2> HIDE DEF D, leaves, hold, push
  <2>2. CASE leaves /\ ~ wen
    <3>1. p \ {D} = {i} /\ d = 1 /\ e = 0 /\ i + 1 = i + d - e
      BY <1>0, <1>1, <1>3, <2>2
    <3> HIDE DEF d, e
    <3> QED
      BY <2>1, <2>2, <3>1
  <2>3. CASE push
    <3>1. p \ {0} = {i} /\ d = 0 /\ e = 1 /\ i - 1 = i + d - e
      BY <1>0, <1>1, <1>3, <2>3
    <3> HIDE DEF d, e
    <3> QED
      BY <1>3, <2>1, <2>3, <3>1
  <2>4. CASE ~ (leaves /\ ~ wen) /\ ~ push
    <3>1. d = e /\ i = i + d - e
      BY <1>1, <1>3, <2>4
    <3> HIDE DEF d, e
    <3> QED
      BY <1>0, <2>1, <2>4, <3>1
  <2> QED
    BY <2>2, <2>3, <2>4
<1>5. content' = [x \in 0 .. D - 1 |->
                    IF (hold /\ x = i) \/ (push /\ x + 1 = i) THEN din
                    ELSE IF leaves THEN (IF x = 0 THEN Zero ELSE content[x - 1]) ELSE content[x]]
  BY <1>0 DEF Shift!Edge, Shift!Direct, Shift!Shifted, Shift!Place
<1> HIDE DEF D, leaves, hold, push, queue
<1>6. /\ d \in {0, 1} /\ e \in {0, 1} /\ len \in 0 .. D
      /\ i + d - e \in 0 .. D /\ len - d + e \in 0 .. D /\ len - d + e = D - (i + d - e)
      /\ d <= len
  BY <1>1, <1>3
<1>7. content' \in [Address -> Word]
  <2>1. ASSUME NEW x \in 0 .. D - 1
        PROVE  content'[x] \in Word
    BY <1>1, <1>5, ZeroAssumption
  <2> QED
    BY <1>1, <1>5, <2>1
<1>8. ShiftOK'
  BY <1>4, <1>6, <1>7 DEF ShiftOK, D
<1> DEFINE new == Shift!Contents'
<1>9. /\ new \in Seq(Word) /\ Len(new) = len - d + e
      /\ \A k \in 1 .. len - d + e : new[k] = content'[D - k]
  <2> DEFINE j == i + d - e
  <2>1. (\A n \in 0 .. Depth : ShiftOK /\ p = {n} =>
           /\ Shift!Contents \in Seq(Word) /\ Len(Shift!Contents) = Depth - n
           /\ \A k \in 1 .. Depth - n : Shift!Contents[k] = content[Depth - k])'
    BY ShiftWords, PTL
  <2>2. j \in 0 .. D /\ p' = {j} /\ len - d + e = D - j
    BY <1>4, <1>6
  <2> HIDE DEF j, len, d, e
  <2>3. /\ new \in Seq(Word) /\ Len(new) = D - j
        /\ \A k \in 1 .. D - j : new[k] = content'[D - k]
    BY <1>8, <2>1, <2>2 DEF D
  <2> QED
    BY <2>2, <2>3
<1> HIDE DEF new
<1>10. ASSUME NEW k \in 1 .. len - d
       PROVE  new[k] = queue[k + d]
  <2> DEFINE x == D - k
             m == k + d
  <2>1. /\ k \in 1 .. len - d + e /\ m \in 1 .. len /\ x \in 0 .. D - 1
        /\ ~ (hold /\ x = i) /\ ~ (push /\ x + 1 = i)
        /\ leaves => x # 0 /\ x - 1 = D - m
        /\ ~ leaves => x = D - m
    BY <1>1, <1>3, <1>6
  <2>2. new[k] = content'[x]
    BY <1>9, <2>1
  <2> HIDE DEF x, m
  <2>3. content'[x] = content[D - m]
    BY <1>5, <2>1
  <2>4. queue[m] = content[D - m]
    BY <1>2, <2>1
  <2> QED
    BY <2>2, <2>3, <2>4 DEF m
<1>11. ASSUME e = 1
       PROVE  new[len - d + 1] = din
  <2> DEFINE k == len - d + 1
             x == D - k
  <2>1. /\ k \in 1 .. len - d + e /\ x \in 0 .. D - 1
        /\ (hold /\ x = i) \/ (push /\ x + 1 = i)
    BY <1>1, <1>3, <1>6, <1>11
  <2> HIDE DEF k
  <2>2. new[k] = content'[x]
    BY <1>9, <2>1
  <2> HIDE DEF x
  <2>3. content'[x] = din
    BY <1>5, <2>1
  <2> QED
    BY <2>2, <2>3 DEF k
<1>12. (d = 1 <=> leaves) /\ (e = 1 <=> joins)
  OBVIOUS
<1>13. leaves <=> ren /\ queue # <<>>
  BY <1>1, <1>2, <1>3
<1>14. joins <=> wen /\ (leaves \/ Len(queue) < D)
  BY <1>1, <1>2, <1>3
<1>15. /\ queue \in Seq(Word) /\ new \in Seq(Word) /\ d \in {0, 1} /\ e \in {0, 1}
       /\ d <= Len(queue) /\ Len(new) = Len(queue) - d + e
       /\ \A k \in 1 .. Len(queue) - d : new[k] = queue[k + d]
       /\ e = 1 => new[Len(queue) - d + 1] = din
  BY <1>2, <1>6, <1>9, <1>10, <1>11
<1> HIDE DEF d, e, len, joins
<1>16. new = (IF d = 1 THEN Tail(queue) ELSE queue) \o (IF e = 1 THEN <<din>> ELSE <<>>)
  BY <1>15, FlowStep, Zenon
<1>17. new = (IF leaves THEN Tail(queue) ELSE queue) \o (IF joins THEN <<din>> ELSE <<>>)
  BY <1>12, <1>16
<1> QED
  BY <1>8, <1>13, <1>14, <1>17 DEF ShiftQueue!Edge, new, queue, D

-----------------------------------------------------------------------------
(* Reset, and both together.                                               *)

(* After a reset both hold the reset words.                                *)
LEMMA ResetHolds ==
  ASSUME ram = ResetValue, wptr = ResetState, rptr = 0,
         content = Shift!Initial, p = {Depth - ResetState}
  PROVE  IInv /\ RamContents = ResetWords /\ Shift!Contents = ResetWords
<1> DEFINE D == Depth
           R == ResetState
<1>1. /\ D \in Nat \ {0} /\ R \in 0 .. D /\ Address = 0 .. D - 1
      /\ Pointers = 0 .. 2 * D - 1 /\ ResetValue \in [0 .. D - 1 -> Word]
  BY RamAssumption DEF Address, Pointers
<1>2. wptr \in Pointers /\ rptr \in Pointers
  BY <1>1
<1>3. RamCount = R
  <2>1. RamCount = IF wptr >= rptr THEN wptr - rptr ELSE wptr - rptr + 2 * D
    BY <1>2, Remainders DEF RamCount
  <2> QED
    BY <1>1, <2>1
<1>4. RamOK
  BY <1>1, <1>2, <1>3 DEF RamOK
<1>5. content = [x \in 0 .. D - 1 |-> ResetValue[D - 1 - x]]
  BY DEF Shift!Initial, Shift!Place
<1> HIDE DEF D
<1>6. content \in [0 .. D - 1 -> Word]
  <2>1. \A x \in 0 .. D - 1 : D - 1 - x \in 0 .. D - 1
    BY <1>1
  <2> QED
    BY <1>1, <1>5, <2>1
<1>7. D - R \in 0 .. D /\ D - (D - R) = R
  BY <1>1
<1>8. ShiftOK
  BY <1>1, <1>6, <1>7 DEF ShiftOK, D
<1>9. ASSUME NEW k \in 1 .. R
      PROVE  RamContents[k] = ResetValue[k - 1]
  <2>1. k - 1 \in 0 .. 3 * D - 1 /\ k - 1 < D
    BY <1>1
  <2>2. (k - 1) % D = k - 1
    BY <2>1, Remainders DEF D
  <2>3. Cell(k - 1) = k - 1
    <3>1. Cell(k - 1) = (0 + (k - 1)) % D
      BY DEF Cell, D
    <3>2. 0 + (k - 1) = k - 1
      BY <1>1
    <3> QED
      BY <2>2, <3>1, <3>2
  <2>4. RamContents[k] = ram[Cell(k - 1)]
    BY <1>3, <1>4, RamPorts
  <2> QED
    BY <2>3, <2>4
<1>10. ASSUME NEW k \in 1 .. R
       PROVE  Shift!Contents[k] = ResetValue[k - 1]
  <2> DEFINE x == D - k
  <2>1. x \in 0 .. D - 1 /\ D - 1 - x = k - 1 /\ k \in 1 .. D - (D - R)
    BY <1>1
  <2>2. Shift!Contents[k] = content[x]
    BY <1>7, <1>8, <2>1, ShiftWords DEF D
  <2> HIDE DEF x
  <2> QED
    BY <1>5, <2>1, <2>2
<1>11. /\ RamContents \in Seq(Word) /\ Len(RamContents) = R
       /\ Shift!Contents \in Seq(Word) /\ Len(Shift!Contents) = R
  BY <1>3, <1>4, <1>7, <1>8, RamPorts, ShiftWords DEF D
<1>12. ResetWords = [k \in 1 .. R |-> ResetValue[k - 1]]
  BY DEF ResetWords
<1>13. \A s \in Seq(Word) :
         Len(s) = R /\ (\A k \in 1 .. R : s[k] = ResetValue[k - 1]) => s = ResetWords
  BY <1>1, <1>12
<1> HIDE DEF R
<1>14. RamContents = ResetWords /\ Shift!Contents = ResetWords
  BY <1>9, <1>10, <1>11, <1>13
<1> QED
  BY <1>4, <1>8, <1>14 DEF IInv

(* What holds of every reset, said of the state it leads to.               *)
LEMMA ResetLeads ==
  (ram = ResetValue /\ wptr = ResetState /\ rptr = 0
   /\ content = Shift!Initial /\ p = {Depth - ResetState})
    => IInv /\ RamContents = ResetWords /\ Shift!Contents = ResetWords
BY ResetHolds

LEMMA InvInit ==
  Init => IInv /\ RamContents = ResetWords /\ Shift!Contents = ResetWords
BY ResetLeads DEF Init, RamInit, Shift!Init

LEMMA InvReset ==
  ASSUME Reset
  PROVE  IInv' /\ RamContents' = ResetWords /\ Shift!Contents' = ResetWords
<1>1. /\ ram' = ResetValue /\ wptr' = ResetState /\ rptr' = 0
      /\ content' = Shift!Initial /\ p' = {Depth - ResetState}
  BY DEF Reset, RamReset, Shift!Reset
<1>2. ((ram = ResetValue /\ wptr = ResetState /\ rptr = 0
        /\ content = Shift!Initial /\ p = {Depth - ResetState})
         => IInv /\ RamContents = ResetWords /\ Shift!Contents = ResetWords)'
  BY ResetLeads, PTL
<1>3. (ResetWords = ResetWords)' /\ ResetWords' = ResetWords
  BY DEF ResetWords
<1>4. Shift!Initial' = Shift!Initial /\ Depth' = Depth
  BY DEF Shift!Initial, Depth, Shift!Place
<1> QED
  BY <1>1, <1>2, <1>3, <1>4

(* The two queues take the same steps.                                     *)
LEMMA InvStep ==
  ASSUME IInv, [Next]_vars
  PROVE  IInv'
<1>1. CASE Clock
  <2>1. PICK din \in Word, wen \in BOOLEAN, ren \in BOOLEAN :
               RamEdge(din, wen, ren) /\ Shift!Edge(din, wen, ren)
    BY <1>1 DEF Clock
  <2>2. RamOK' /\ RamQueue!Edge(din, wen, ren)
    BY <2>1, RamStep DEF IInv
  <2>3. ShiftOK' /\ ShiftQueue!Edge(din, wen, ren)
    BY <2>1, ShiftStep DEF IInv
  <2>4. RamContents' = Shift!Contents'
    BY <2>2, <2>3 DEF IInv, RamQueue!Edge, ShiftQueue!Edge
  <2> QED
    BY <2>2, <2>3, <2>4 DEF IInv
<1>2. CASE Reset
  BY <1>2, InvReset
<1>3. CASE UNCHANGED vars
  BY <1>3 DEF vars, ramVars, IInv, RamOK, RamCount, ShiftOK, RamContents, Shift!Contents
<1> QED
  BY <1>1, <1>2, <1>3 DEF Next

(* The inductive invariant holds for every depth, word and reset state.    *)
THEOREM QueuesInductive == Spec => []IInv
BY InvInit, InvStep, PTL DEF Spec

(* The registers of both queues keep within their widths, and the mark of  *)
(* the shift register is one-hot, for every depth.                         *)
THEOREM QueuesTypeCorrect == Spec => []TypeOK
<1>1. IInv => TypeOK
  BY DEF IInv, RamOK, ShiftOK, TypeOK
<1> QED
  BY <1>1, QueuesInductive, PTL

LEMMA SamePorts == IInv => PortsAgree
<1> SUFFICES ASSUME IInv PROVE PortsAgree
  OBVIOUS
<1> DEFINE D == Depth
<1>1. D \in Nat \ {0} /\ RamCount \in 0 .. D
  BY RamAssumption DEF IInv, RamOK
<1>2. PICK i \in 0 .. D : p = {i}
  BY DEF IInv, ShiftOK
<1>3. /\ Len(Shift!Contents) = D - i
      /\ \A k \in 1 .. D - i : Shift!Contents[k] = content[D - k]
      /\ Shift!Empty <=> i = D
      /\ Shift!Full <=> i = 0
  BY <1>2, ShiftPorts DEF IInv
<1>4. /\ Len(RamContents) = RamCount
      /\ \A k \in 1 .. RamCount : RamContents[k] = ram[Cell(k - 1)]
      /\ RamEmpty <=> RamCount = 0
      /\ RamFull <=> RamCount = D
      /\ RamDout = ram[Cell(0)]
  BY RamPorts DEF IInv
<1>5. Shift!Dout = content[D - 1]
  BY DEF Shift!Dout
<1> HIDE DEF D
<1>6. RamCount = D - i /\ RamContents = Shift!Contents
  BY <1>3, <1>4 DEF IInv
<1>7. (RamEmpty <=> Shift!Empty) /\ (RamFull <=> Shift!Full)
  BY <1>1, <1>3, <1>4, <1>6
<1>8. ASSUME ~ RamEmpty
      PROVE  RamDout = Shift!Dout
  <2>1. 1 \in 1 .. RamCount
    BY <1>1, <1>4, <1>8
  <2>2. RamContents[1] = ram[Cell(1 - 1)] /\ Shift!Contents[1] = content[D - 1]
    BY <1>3, <1>4, <1>6, <2>1
  <2>3. 1 - 1 = 0
    OBVIOUS
  <2> QED
    BY <1>4, <1>5, <1>6, <2>2, <2>3
<1> QED
  BY <1>7, <1>8 DEF PortsAgree, RamEmpty, RamFull, RamOverlap, Shift!Empty, Shift!Full

(* The outputs of the two queues never differ, but for the word that an    *)
(* empty queue shows.                                                      *)
THEOREM PortsNeverDiffer == Spec => []PortsAgree
BY SamePorts, QueuesInductive, PTL

(* The RAM queue is the abstract queue, and the step of the queue is the   *)
(* one for the inputs of the edge: nothing is lost, doubled or out of      *)
(* order, at full and at empty either.                                     *)
THEOREM RamImplementation == Spec => RamImplementsQueue
<1>1. Init => RamQueue!Init
  BY InvInit DEF RamQueue!Init
<1>2. ASSUME IInv, [Next]_vars
      PROVE  [RamQueue!Next]_RamContents
  <2>1. CASE Clock
    <3>1. PICK din \in Word, wen \in BOOLEAN, ren \in BOOLEAN : RamEdge(din, wen, ren)
      BY <2>1 DEF Clock
    <3>2. RamQueue!Edge(din, wen, ren)
      BY <1>2, <3>1, RamStep DEF IInv
    <3> QED
      BY <3>2 DEF RamQueue!Next
  <2>2. CASE Reset
    BY <2>2, InvReset DEF RamQueue!Next
  <2>3. CASE UNCHANGED vars
    BY <2>3 DEF vars, ramVars, RamContents
  <2> QED
    BY <1>2, <2>1, <2>2, <2>3 DEF Next
<1>3. ASSUME IInv, [Next]_vars
      PROVE  [\A din \in Word, wen, ren \in BOOLEAN :
                RamEdge(din, wen, ren) => RamQueue!Edge(din, wen, ren)]_vars
  BY <1>3, RamStep DEF IInv
<1> QED
  BY <1>1, <1>2, <1>3, QueuesInductive, PTL DEF Spec, RamImplementsQueue, RamQueue!Spec

(* So is the shift register.                                               *)
THEOREM ShiftImplementation == Spec => ShiftImplementsQueue
<1>1. Init => ShiftQueue!Init
  BY InvInit DEF ShiftQueue!Init
<1>2. ASSUME IInv, [Next]_vars
      PROVE  [ShiftQueue!Next]_(Shift!Contents)
  <2>1. CASE Clock
    <3>1. PICK din \in Word, wen \in BOOLEAN, ren \in BOOLEAN : Shift!Edge(din, wen, ren)
      BY <2>1 DEF Clock
    <3>2. ShiftQueue!Edge(din, wen, ren)
      BY <1>2, <3>1, ShiftStep DEF IInv
    <3> QED
      BY <3>2 DEF ShiftQueue!Next
  <2>2. CASE Reset
    BY <2>2, InvReset DEF ShiftQueue!Next
  <2>3. CASE UNCHANGED vars
    BY <2>3 DEF vars, Shift!Contents
  <2> QED
    BY <1>2, <2>1, <2>2, <2>3 DEF Next
<1>3. ASSUME IInv, [Next]_vars
      PROVE  [\A din \in Word, wen, ren \in BOOLEAN :
                Shift!Edge(din, wen, ren) => ShiftQueue!Edge(din, wen, ren)]_vars
  BY <1>3, ShiftStep DEF IInv
<1> QED
  BY <1>1, <1>2, <1>3, QueuesInductive, PTL DEF Spec, ShiftImplementsQueue, ShiftQueue!Spec
=============================================================================
