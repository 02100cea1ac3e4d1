------------------------- MODULE CrossBufferProofs -------------------------
(***************************************************************************)
(* Proofs about the four cross buffers: when the next stage is ready one   *)
(* waiting port is emptied, and every port's words come out in order.      *)
(***************************************************************************)
EXTENDS CrossBuffers, FiniteSetTheorems, TLAPS

Arbiters ==
  /\ device \in Devices /\ rrsel_q \in BOOLEAN
  /\ r1_q \in BOOLEAN /\ r2_q \in [0 .. 1 -> BOOLEAN]

(* A port keeps the word expected next and the stage before is one ahead,  *)
(* or it is empty and both are at the same word.                           *)
KeepsExpected ==
  /\ buffer_q \in [Ports -> Data] /\ valid_q \in [Ports -> BOOLEAN]
  /\ sent \in [Ports -> 0 .. 1] /\ received \in [Ports -> 0 .. 1]
  /\ \A i \in Ports :
       IF valid_q[i] THEN buffer_q[i] = <<i, received[i]>> /\ sent[i] = 1 - received[i]
       ELSE sent[i] = received[i]

CrossInv == Arbiters /\ KeepsExpected

-----------------------------------------------------------------------------
(* Every arbiter picks one of the ports that have data, whatever its       *)
(* registers hold.                                                         *)
LEMMA RoundRobinPicksOne ==
  ASSUME rrsel_q \in BOOLEAN, NEW W \in SUBSET (0 .. 1), W # {}
  PROVE  \E i \in W : RoundRobin(W) = {i}
<1>1. W = {0} \/ W = {1} \/ W = {0, 1}
  <2>1. \A i \in W : i = 0 \/ i = 1
    OBVIOUS
  <2> QED
    BY <2>1
<1>2. CASE W = {0} \/ W = {1}
  BY <1>2 DEF RoundRobin, Compete
<1>3. CASE W = {0, 1}
  <2>1. RoundRobin(W) = {IF rrsel_q THEN 1 ELSE 0}
    BY <1>3 DEF RoundRobin, Compete
  <2> QED
    BY <1>3, <2>1
<1> QED
  BY <1>1, <1>2, <1>3

LEMMA PseudoLRUPicksOne ==
  ASSUME r1_q \in BOOLEAN, r2_q \in [0 .. 1 -> BOOLEAN], NEW W \in SUBSET (0 .. 3), W # {}
  PROVE  \E i \in W : PseudoLRU(W) = {i}
<1> DEFINE P(i) == GExclusive(W) \/ r1_q = (Pair(i) = 1)
           Q(i) == PExclusive(W, i) \/ r2_q[0] = (i % 2 = 1)
<1>1. /\ Pair(0) = 0 /\ Pair(1) = 0 /\ Pair(2) = 1 /\ Pair(3) = 1
      /\ 0 % 2 = 0 /\ 1 % 2 = 1 /\ 2 % 2 = 0 /\ 3 % 2 = 1
  BY DEF Pair
<1>2. \A i \in W : i = 0 \/ i = 1 \/ i = 2 \/ i = 3
  OBVIOUS
<1>3. PseudoLRU(W) = {i \in W : P(i) /\ Q(i)}
  BY DEF PseudoLRU
(* The pair chosen, and then the port of it.                               *)
<1>4. ASSUME NEW x \in 0 .. 3, NEW y \in 0 .. 3, NEW u \in 0 .. 1, x % 2 = 0, y % 2 = 1,
             Pair(x) = u, Pair(y) = u, 2 * u = x, 2 * u + 1 = y, x # y,
             x \in W \/ y \in W,
             \A i \in W : P(i) <=> i = x \/ i = y
      PROVE  \E i \in W : PseudoLRU(W) = {i}
  <2>1. PExclusive(W, x) <=> ~(x \in W /\ y \in W)
    BY <1>4 DEF PExclusive
  <2>2. PExclusive(W, y) <=> ~(x \in W /\ y \in W)
    BY <1>4 DEF PExclusive
  <2>3. Q(x) <=> ~(y \in W /\ x \in W) \/ ~r2_q[0]
    <3>1. (r2_q[0] = (x % 2 = 1)) <=> ~r2_q[0]
      BY <1>4
    <3> QED
      BY <2>1, <3>1
  <2>4. Q(y) <=> ~(y \in W /\ x \in W) \/ r2_q[0]
    <3>1. (r2_q[0] = (y % 2 = 1)) <=> r2_q[0]
      BY <1>4
    <3> QED
      BY <2>2, <3>1
  <2> HIDE DEF P, Q
  <2>5. CASE x \in W /\ (y \in W => ~r2_q[0])
    <3>1. {i \in W : P(i) /\ Q(i)} = {x}
      BY <1>4, <2>3, <2>4, <2>5
    <3> QED
      BY <1>3, <2>5, <3>1
  <2>6. CASE y \in W /\ (x \in W => r2_q[0])
    <3>1. {i \in W : P(i) /\ Q(i)} = {y}
      BY <1>4, <2>3, <2>4, <2>6
    <3> QED
      BY <1>3, <2>6, <3>1
  <2> QED
    BY <1>4, <2>5, <2>6
<1>5. GExclusive(W) <=> ~((0 \in W \/ 1 \in W) /\ (2 \in W \/ 3 \in W))
  BY <1>1, <1>2 DEF GExclusive
<1>6. CASE (0 \in W \/ 1 \in W) /\ (2 \in W \/ 3 \in W => ~r1_q)
  <2>1. \A i \in W : P(i) <=> i = 0 \/ i = 1
    BY <1>1, <1>2, <1>5, <1>6
  <2> HIDE DEF P
  <2> QED
    BY <1>1, <1>4, <1>6, <2>1
<1>7. CASE (2 \in W \/ 3 \in W) /\ (0 \in W \/ 1 \in W => r1_q)
  <2>1. \A i \in W : P(i) <=> i = 2 \/ i = 3
    BY <1>1, <1>2, <1>5, <1>7
  <2> HIDE DEF P
  <2> QED
    BY <1>1, <1>4, <1>7, <2>1
<1> QED
  BY <1>2, <1>6, <1>7

LEMMA PriorityPicksOne ==
  ASSUME NEW W \in SUBSET (0 .. 3), W # {}
  PROVE  \E i \in W : Priority(W) = {i}
<1>1. \E i \in W : \A j \in W : i <= j
  <2>1. CASE 0 \in W
    BY <2>1
  <2>2. CASE 0 \notin W /\ 1 \in W
    BY <2>2
  <2>3. CASE 0 \notin W /\ 1 \notin W /\ 2 \in W
    BY <2>3
  <2>4. CASE 0 \notin W /\ 1 \notin W /\ 2 \notin W
    <3>1. \A j \in W : j = 3
      BY <2>4
    <3>2. 3 \in W
      BY <3>1
    <3> QED
      BY <3>1, <3>2
  <2> QED
    BY <2>1, <2>2, <2>3, <2>4
<1>2. PICK i \in W : \A j \in W : i <= j
  BY <1>1
<1>3. W \subseteq Int
  OBVIOUS
<1>4. Priority(W) = {i}
  <2>1. ASSUME NEW k \in W, \A j \in W : j >= k PROVE k = i
    <3>1. i >= k /\ i <= k /\ i \in Int /\ k \in Int
      BY <1>2, <1>3, <2>1
    <3> QED
      BY <3>1
  <2>2. \A j \in W : j >= i
    BY <1>2, <1>3
  <2> QED
    BY <2>1, <2>2 DEF Priority
<1> QED
  BY <1>4

LEMMA PickedIsOne ==
  ASSUME Arbiters, NEW W \in SUBSET PortsOf(device), W # {}
  PROVE  \E i \in W : Picked(W, TRUE) = {i}
<1>1. PortsOf(device) \in SUBSET (0 .. 3)
  BY DEF PortsOf
<1>2. CASE device = "buffer2"
  <2>1. W \in SUBSET (0 .. 1)
    BY <1>2 DEF PortsOf
  <2>2. Picked(W, TRUE) = RoundRobin(W)
    BY <1>2 DEF Picked
  <2> QED
    BY <2>1, <2>2, RoundRobinPicksOne DEF Arbiters
<1>3. CASE device = "buffer4"
  <2>1. Picked(W, TRUE) = PseudoLRU(W)
    BY <1>3 DEF Picked
  <2> QED
    BY <1>1, <2>1, PseudoLRUPicksOne DEF Arbiters
<1>4. CASE device \in {"buffer2_priority", "buffer4_priority"}
  <2>1. Picked(W, TRUE) = Priority(W)
    BY <1>4 DEF Picked
  <2> QED
    BY <1>1, <2>1, PriorityPicksOne
<1> QED
  BY <1>2, <1>3, <1>4 DEF Arbiters, Devices

-----------------------------------------------------------------------------
(* A port that has data shows the word expected of it, kept or just coming *)
(* in.                                                                     *)
LEMMA ShowsExpected ==
  ASSUME CrossInv, NEW offers \in SUBSET PortsOf(device), NEW i \in Waiting(In(offers))
  PROVE  i \in Ports /\ OutData(i, In(offers)) = <<i, received[i]>>
<1>1. i \in Ports
  BY WordsAssumption DEF Waiting, PortsOf
<1>2. In(offers)[i] = IF i \in offers THEN <<i, sent[i]>> ELSE None
  BY <1>1 DEF In
<1>3. valid_q[i] \/ i \in offers
  BY <1>2 DEF Waiting, OutValid
<1> QED
  BY <1>1, <1>2, <1>3 DEF OutData, CrossInv, KeepsExpected

(* A cycle in which the next stage is ready and a port has data.           *)
LEMMA TakesExpected ==
  ASSUME CrossInv, NEW offers \in SUBSET PortsOf(device), Waiting(In(offers)) # {}
  PROVE  LET in == In(offers)
         IN  \E i \in Waiting(in) :
               /\ i \in Ports
               /\ Picked(Waiting(in), TRUE) = {i}
               /\ NextData(in, {i}) = <<i, received[i]>>
               /\ NextValid(Waiting(in), TRUE)
<1> DEFINE in == In(offers)
<1>1. Waiting(in) \in SUBSET PortsOf(device)
  BY DEF Waiting
<1>2. PICK i \in Waiting(in) : Picked(Waiting(in), TRUE) = {i}
  BY <1>1, PickedIsOne DEF CrossInv
<1>3. NextData(in, {i}) = OutData(i, in)
  <2>1. CASE device \in {"buffer2", "buffer2_priority"}
    <3>1. i \in {0, 1}
      BY <1>1, <2>1 DEF PortsOf
    <3>2. (IF 0 \in {i} THEN 0 ELSE 1) = i
      BY <3>1
    <3> QED
      BY <2>1, <3>2 DEF NextData
  <2>2. CASE device \notin {"buffer2", "buffer2_priority"}
    <3>1. (CHOOSE k \in {i} : TRUE) = i
      OBVIOUS
    <3> QED
      BY <2>2, <3>1 DEF NextData
  <2> QED
    BY <2>1, <2>2
<1>4. NextValid(Waiting(in), TRUE)
  BY <1>2 DEF NextValid
<1> QED
  BY <1>2, <1>3, <1>4, ShowsExpected

(* Every other cycle.                                                      *)
LEMMA TakesNothing ==
  ASSUME Arbiters, NEW ready \in BOOLEAN, NEW W, ~ready \/ W = {}
  PROVE  Picked(W, ready) = {} /\ ~(ready /\ NextValid(W, ready))
<1>1. Picked(W, ready) = {}
  <2>1. CASE ~ready
    BY <2>1 DEF Picked
  <2>2. CASE W = {} /\ ready
    <3>1. RoundRobin(W) = {} /\ PseudoLRU(W) = {} /\ Priority(W) = {}
      BY <2>2 DEF RoundRobin, PseudoLRU, Priority
    <3> QED
      BY <2>2, <3>1 DEF Picked, Arbiters, Devices
  <2> QED
    BY <2>1, <2>2
<1> QED
  BY <1>1 DEF NextValid

-----------------------------------------------------------------------------
LEMMA ArbitersKept ==
  ASSUME Arbiters, NEW offers, NEW ready \in BOOLEAN, Clock(offers, ready)
  PROVE  Arbiters'
<1> DEFINE in == In(offers)
           waiting == Waiting(in)
           picked == Picked(waiting, ready)
<1>1. /\ rrsel_q' = IF device = "buffer2" THEN RoundRobinNext(waiting, ready) ELSE rrsel_q
      /\ r1_q' = IF device = "buffer4" THEN PairNext(picked) ELSE r1_q
      /\ r2_q' = IF device = "buffer4" THEN PortNext(picked) ELSE r2_q
      /\ device' = device
  BY DEF Clock
<1> HIDE DEF in, waiting, picked
<1>2. RoundRobinNext(waiting, ready) \in BOOLEAN /\ PairNext(picked) \in BOOLEAN
  BY DEF RoundRobinNext, PairNext, Arbiters
<1>3. PortNext(picked) \in [0 .. 1 -> BOOLEAN]
  <2>1. ASSUME NEW k \in 0 .. 1
        PROVE  (IF picked \cap {2 * k, 2 * k + 1} # {} THEN 2 * k \in picked ELSE r2_q[k])
                 \in BOOLEAN
    <3>1. r2_q[k] \in BOOLEAN
      BY DEF Arbiters
    <3>2. (2 * k \in picked) \in BOOLEAN
      OBVIOUS
    <3> QED
      BY <3>1, <3>2, Zenon
  <2> QED
    BY <2>1 DEF PortNext
<1> QED
  BY <1>1, <1>2, <1>3 DEF Arbiters

LEMMA ExpectedKept ==
  ASSUME CrossInv, NEW offers \in SUBSET PortsOf(device), NEW ready \in BOOLEAN,
         Clock(offers, ready)
  PROVE  KeepsExpected'
<1> DEFINE in == In(offers)
           waiting == Waiting(in)
           picked == Picked(waiting, ready)
           data == NextData(in, picked)
<1>1. /\ BufferEdge(in, picked)
      /\ sent' = [i \in Ports |-> IF i \in offers /\ Ready(i) THEN 1 - sent[i] ELSE sent[i]]
      /\ received' = IF ready /\ NextValid(waiting, ready)
                     THEN [received EXCEPT ![data[1]] = 1 - data[2]] ELSE received
  BY DEF Clock
(* Just the port picked has its expected word taken.                       *)
<1>2. /\ received' = [i \in Ports |-> IF i \in picked THEN 1 - received[i] ELSE received[i]]
      /\ picked \subseteq waiting
  <2>1. CASE ready /\ waiting # {}
    <3>1. PICK i \in waiting : /\ i \in Ports /\ picked = {i}
                               /\ data = <<i, received[i]>> /\ NextValid(waiting, ready)
      BY <2>1, TakesExpected
    <3> HIDE DEF in, waiting, picked, data
    <3>2. received' = [received EXCEPT ![i] = 1 - received[i]]
      <4>1. data[1] = i /\ data[2] = received[i]
        BY <3>1
      <4> QED
        BY <1>1, <2>1, <3>1, <4>1
    <3> QED
      BY <3>1, <3>2 DEF CrossInv, KeepsExpected
  <2>2. CASE ~(ready /\ waiting # {})
    <3>1. picked = {} /\ ~(ready /\ NextValid(waiting, ready))
      BY <2>2, TakesNothing DEF CrossInv
    <3>2. received' = received
      BY <1>1, <3>1
    <3> HIDE DEF in, waiting, picked, data
    <3> QED
      BY <3>1, <3>2 DEF CrossInv, KeepsExpected
  <2> QED
    BY <2>1, <2>2
<1>3. \A i \in Ports : in[i] = IF i \in offers THEN <<i, sent[i]>> ELSE None
  BY DEF In
<1>4. \A i \in Ports : i \in offers => <<i, sent[i]>> \in Data /\ <<i, sent[i]>> # None
  BY WordsAssumption, BufferAssumption DEF Words, CrossInv, KeepsExpected
<1>5. \A i \in Ports : i \in waiting => valid_q[i] \/ i \in offers
  BY <1>3 DEF Waiting, OutValid
<1>6. \A i \in Ports : BufferEn(i, in, picked) <=> ~valid_q[i] /\ i \in offers /\ i \notin picked
  BY <1>3, <1>4 DEF BufferEn
<1>7. /\ buffer_q' = [i \in Ports |-> IF BufferEn(i, in, picked) THEN in[i] ELSE buffer_q[i]]
      /\ valid_q' = [i \in Ports |-> BufferEn(i, in, picked) \/ (valid_q[i] /\ i \notin picked)]
  BY <1>1 DEF BufferEdge
<1> HIDE DEF in, waiting, picked, data
<1>8. /\ buffer_q' \in [Ports -> Data] /\ valid_q' \in [Ports -> BOOLEAN]
      /\ sent' \in [Ports -> 0 .. 1] /\ received' \in [Ports -> 0 .. 1]
  <2>1. buffer_q' \in [Ports -> Data]
    BY <1>3, <1>4, <1>6, <1>7 DEF CrossInv, KeepsExpected
  <2>2. valid_q' \in [Ports -> BOOLEAN]
    BY <1>6, <1>7 DEF CrossInv, KeepsExpected
  <2>3. sent' \in [Ports -> 0 .. 1] /\ received' \in [Ports -> 0 .. 1]
    <3>1. \A i \in Ports : /\ sent[i] \in 0 .. 1 /\ 1 - sent[i] \in 0 .. 1
                           /\ received[i] \in 0 .. 1 /\ 1 - received[i] \in 0 .. 1
      BY DEF CrossInv, KeepsExpected
    <3>2. sent' \in [Ports -> 0 .. 1]
      BY <1>1, <3>1
    <3>3. received' \in [Ports -> 0 .. 1]
      BY <1>2, <3>1
    <3> QED
      BY <3>2, <3>3
  <2> QED
    BY <2>1, <2>2, <2>3
<1>9. ASSUME NEW i \in Ports
      PROVE  IF valid_q'[i] THEN buffer_q'[i] = <<i, received'[i]>> /\ sent'[i] = 1 - received'[i]
             ELSE sent'[i] = received'[i]
  <2>1. /\ received'[i] = IF i \in picked THEN 1 - received[i] ELSE received[i]
        /\ sent'[i] = IF i \in offers /\ ~valid_q[i] THEN 1 - sent[i] ELSE sent[i]
        /\ buffer_q'[i] = IF BufferEn(i, in, picked) THEN in[i] ELSE buffer_q[i]
        /\ valid_q'[i] = (BufferEn(i, in, picked) \/ (valid_q[i] /\ i \notin picked))
    BY <1>1, <1>2, <1>7 DEF Ready
  <2>2. received[i] \in 0 .. 1 /\ sent[i] \in 0 .. 1 /\ valid_q[i] \in BOOLEAN
    BY DEF CrossInv, KeepsExpected
  <2>3. IF valid_q[i] THEN buffer_q[i] = <<i, received[i]>> /\ sent[i] = 1 - received[i]
        ELSE sent[i] = received[i]
    BY DEF CrossInv, KeepsExpected
  <2>4. CASE i \in picked
    BY <1>2, <1>5, <1>6, <2>1, <2>2, <2>3, <2>4
  <2>5. CASE i \notin picked
    BY <1>3, <1>6, <2>1, <2>2, <2>3, <2>5
  <2> QED
    BY <2>4, <2>5
<1> QED
  BY <1>8, <1>9 DEF KeepsExpected

-----------------------------------------------------------------------------
LEMMA CrossInit ==
  ASSUME Init
  PROVE  CrossInv
<1>1. Arbiters
  BY DEF Init, Arbiters
<1>2. KeepsExpected
  BY BufferAssumption DEF Init, BufferInit, KeepsExpected
<1> QED
  BY <1>1, <1>2 DEF CrossInv

LEMMA CrossStep ==
  ASSUME CrossInv, [Next]_vars
  PROVE  CrossInv'
<1>1. CASE Next
  BY <1>1, ArbitersKept, ExpectedKept DEF Next, CrossInv
<1>2. CASE UNCHANGED vars
  BY <1>2 DEF vars, bufferVars, CrossInv, Arbiters, KeepsExpected
<1> QED
  BY <1>1, <1>2

(* Every port keeps the word expected next, if any, in all four devices.   *)
THEOREM CrossInductive == FairSpec => []CrossInv
BY CrossInit, CrossStep, PTL DEF FairSpec

(* What is shown is the word expected next of a port, in any cycle.        *)
THEOREM WordsComeInOrder == FairSpec => []InOrder
<1>1. ASSUME CrossInv
      PROVE  InOrder
  <2>1. SUFFICES ASSUME NEW offers \in SUBSET PortsOf(device), Waiting(In(offers)) # {}
                 PROVE  LET data == NextData(In(offers), Picked(Waiting(In(offers)), TRUE))
                        IN  data[2] = received[data[1]]
    BY DEF InOrder
  <2> DEFINE data == NextData(In(offers), Picked(Waiting(In(offers)), TRUE))
  <2>2. PICK i \in Ports : data = <<i, received[i]>>
    BY <1>1, <2>1, TakesExpected
  <2> HIDE DEF data
  <2>3. data[1] = i /\ data[2] = received[i]
    BY <2>2
  <2> QED
    BY <2>3 DEF data
<1> QED
  BY <1>1, CrossInductive, PTL

(* When the next stage is ready, one port that has data is emptied and its *)
(* word shown.                                                             *)
THEOREM OnePortIsTaken == FairSpec => []OneIsTaken
<1>1. ASSUME CrossInv
      PROVE  OneIsTaken
  <2>1. SUFFICES ASSUME NEW offers \in SUBSET PortsOf(device), Waiting(In(offers)) # {}
                 PROVE  LET in     == In(offers)
                            picked == Picked(Waiting(in), TRUE)
                        IN  /\ Cardinality(picked) = 1
                            /\ NextValid(Waiting(in), TRUE)
                            /\ picked = {NextData(in, picked)[1]}
    BY DEF OneIsTaken
  <2> DEFINE in     == In(offers)
             picked == Picked(Waiting(in), TRUE)
             data   == NextData(in, picked)
  <2>2. PICK i \in Ports : picked = {i} /\ data = <<i, received[i]>> /\ NextValid(Waiting(in), TRUE)
    BY <1>1, <2>1, TakesExpected
  <2> HIDE DEF in, picked, data
  <2>3. Cardinality(picked) = 1
    BY <2>2, FS_Singleton
  <2>4. picked = {data[1]}
    BY <2>2
  <2> QED
    BY <2>2, <2>3, <2>4 DEF in, picked, data
<1> QED
  BY <1>1, CrossInductive, PTL
=============================================================================
