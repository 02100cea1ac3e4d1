---------------------------- MODULE CrossBuffers ----------------------------
(***************************************************************************)
(* The four cross buffers (main/verilog/common/buffer): a bypass buffer at *)
(* every port and an arbiter that picks one of them for the one output.    *)
(* They differ in the arbiter, so a behaviour is one of one device.        *)
(*                                                                         *)
(* Their environment is that of the test benches: the stage before a port  *)
(* sends numbered words, each until it is accepted, and may pause; the     *)
(* stage behind checks that every port's words come in order.  A word is   *)
(* its port and the parity of its number, which tells a lost or repeated   *)
(* word because a port holds one at most.                                  *)
(***************************************************************************)
EXTENDS BypassBuffer

VARIABLES
  device,   \* the module instantiated
  rrsel_q,  \* common_cross_buffer2
  r1_q,     \* common_cross_buffer4
  r2_q,
  sent,     \* the parity of the number of the word next accepted
  received  \* of the word expected next

vars == <<bufferVars, device, rrsel_q, r1_q, r2_q, sent, received>>

Devices == {"buffer2", "buffer2_priority", "buffer4", "buffer4_priority"}
Words == Ports \X (0 .. 1)
FirstWord == <<0, 0>>

ASSUME WordsAssumption == Ports = 0 .. 3 /\ Data = Words /\ Zero = FirstWord

PortsOf(d) == IF d \in {"buffer2", "buffer2_priority"} THEN 0 .. 1 ELSE 0 .. 3

(* The inputs of the ports when prev_i_valid is high at those of offers.   *)
In(offers) == [i \in Ports |-> IF i \in offers THEN <<i, sent[i]>> ELSE None]

(* The ports that have data: p0, p1, ..                                    *)
Waiting(in) == {i \in PortsOf(device) : OutValid(i, in)}

-----------------------------------------------------------------------------
(* The arbiters: which of the waiting ports gets next_i_ready.             *)

(* Round robin.                                                            *)
Compete(waiting) == {0, 1} \subseteq waiting
RoundRobin(waiting) ==
  {i \in waiting : Compete(waiting) => rrsel_q = (i = 1)}

RoundRobinNext(waiting, ready) ==
  IF ready /\ Compete(waiting) THEN ~rrsel_q ELSE rrsel_q

(* "Selective pseudo LRU": r1_q for the pair, r2_q for the port of it.  It *)
(* is r2_q[0] that chooses in either pair.                                 *)
Pair(i) == i \div 2
PExclusive(waiting, i) == ~({2 * Pair(i), 2 * Pair(i) + 1} \subseteq waiting)
GExclusive(waiting) == \A i, j \in waiting : Pair(i) = Pair(j)

PseudoLRU(waiting) ==
  {i \in waiting :
    /\ GExclusive(waiting) \/ r1_q = (Pair(i) = 1)
    /\ PExclusive(waiting, i) \/ r2_q[0] = (i % 2 = 1)}

(* Mutant: port i is not looked at for port i + 2.                         *)
PrioritySkipping(waiting) ==
  {i \in waiting : \A j \in waiting : j >= i \/ i - j = 2}

Priority(waiting) == {i \in waiting : \A j \in waiting : j >= i}

Picked(waiting, ready) ==
  IF ~ready THEN {}
  ELSE CASE device = "buffer2" -> RoundRobin(waiting)
         [] device = "buffer4" -> PseudoLRU(waiting)
         [] device \in {"buffer2_priority", "buffer4_priority"} -> Priority(waiting)

(* The output: buffer4 says valid only when it picks, the others whenever  *)
(* a port has data.                                                        *)
NextValid(waiting, ready) ==
  IF device = "buffer4" THEN Picked(waiting, ready) # {} ELSE waiting # {}

(* next_o_data in a cycle in which next_i_ready is high and some port is   *)
(* picked.  In others buffer4 and buffer4_priority show 0, and the devices *)
(* with two ports what is at port 1, valid or not.                         *)
NextData(in, picked) ==
  OutData(IF device \in {"buffer2", "buffer2_priority"}
          THEN IF 0 \in picked THEN 0 ELSE 1
          ELSE CHOOSE i \in picked : TRUE, in)

-----------------------------------------------------------------------------
Init ==
  /\ BufferInit
  /\ device \in Devices
  /\ rrsel_q = FALSE /\ r1_q = FALSE /\ r2_q = [k \in 0 .. 1 |-> FALSE]
  /\ sent = [i \in Ports |-> 0] /\ received = [i \in Ports |-> 0]

(* Mutant: the pair register is set by the port, not by the pair.          *)
PairNextByPort(picked) == IF picked # {} THEN picked \cap {0, 2} # {} ELSE r1_q

PairNext(picked) == IF picked # {} THEN picked \cap {0, 1} # {} ELSE r1_q
PortNext(picked) ==
  [k \in 0 .. 1 |-> IF picked \cap {2 * k, 2 * k + 1} # {} THEN 2 * k \in picked
                    ELSE r2_q[k]]

(* The clock edge of the device, and what the stages around it do with     *)
(* what they see.                                                          *)
Clock(offers, ready) ==
  LET in      == In(offers)
      waiting == Waiting(in)
      picked  == Picked(waiting, ready)
      data    == NextData(in, picked)
  IN  /\ BufferEdge(in, picked)
      /\ rrsel_q' = IF device = "buffer2" THEN RoundRobinNext(waiting, ready) ELSE rrsel_q
      /\ r1_q' = IF device = "buffer4" THEN PairNext(picked) ELSE r1_q
      /\ r2_q' = IF device = "buffer4" THEN PortNext(picked) ELSE r2_q
      /\ sent' = [i \in Ports |-> IF i \in offers /\ Ready(i) THEN 1 - sent[i] ELSE sent[i]]
      /\ received' = IF ready /\ NextValid(waiting, ready)
                     THEN [received EXCEPT ![data[1]] = 1 - data[2]] ELSE received
      /\ UNCHANGED device

Next == \E offers \in SUBSET PortsOf(device), ready \in BOOLEAN : Clock(offers, ready)

(* The stage behind is ready again and again.                              *)
ReadyClock == \E offers \in SUBSET PortsOf(device) : Clock(offers, TRUE)

FairSpec == Init /\ [][Next]_vars /\ WF_vars(ReadyClock)

-----------------------------------------------------------------------------
(* What goes through a cross buffer comes out, once, and in the order of   *)
(* its port: the record sequences the test benches compare.  Whatever is   *)
(* offered in a cycle, the output shows the word expected next of a port.  *)
InOrder ==
  \A offers \in SUBSET PortsOf(device) :
    LET in   == In(offers)
        data == NextData(in, Picked(Waiting(in), TRUE))
    IN  Waiting(in) # {} => data[2] = received[data[1]]

(* When the next stage is ready one of the ports that have data is emptied *)
(* and the output shows its data.                                          *)
OneIsTaken ==
  \A offers \in SUBSET PortsOf(device) :
    LET in     == In(offers)
        picked == Picked(Waiting(in), TRUE)
    IN  Waiting(in) # {} =>
          /\ Cardinality(picked) = 1
          /\ NextValid(Waiting(in), TRUE)
          /\ picked = {NextData(in, picked)[1]}

(* The groups of ports that an arbiter does not let wait for ever.         *)
Groups(d) ==
  CASE d = "buffer2" -> {{0}, {1}}
    [] d = "buffer2_priority" -> {{0}, {0, 1}}
    [] d = "buffer4" -> {{0, 1}, {2, 3}}
    [] d = "buffer4_priority" -> {{0}, {0, 1}, {0, 1, 2}, {0, 1, 2, 3}}

(* Nobody starves whom the arbiter promises to serve: each port of the     *)
(* round robin, each pair of the pseudo LRU, port 0 of a priority.  If a   *)
(* word of the group waits for good, words of the group come out again and *)
(* again.                                                                  *)
Served ==
  \A g \in {{0}, {1}, {0, 1}, {2, 3}, {0, 1, 2}, {0, 1, 2, 3}} :
    \/ []<>(g \in Groups(device) => \A i \in g : ~valid_q[i])
    \/ []<><<\E i \in g : received'[i] # received[i]>>_vars

-----------------------------------------------------------------------------
Lru == INSTANCE PseudoLruTree WITH SubjectCountLog2 <- 2

(* "4-to-1 buffer with simple arbiter, selective pseudo LRU" (header of    *)
(* common_cross_buffer4): with its three registers, buffer4 picks the port *)
(* that the pseudo LRU tree of the repository picks.                       *)
PicksLeastRecent ==
  device = "buffer4" =>
    \A waiting \in SUBSET PortsOf(device) :
      Picked(waiting, TRUE) =
        Lru!Pick([n \in 0 .. 2 |-> IF n = 0 THEN r1_q ELSE r2_q[n - 1]], waiting)

=============================================================================
