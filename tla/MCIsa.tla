------------------------------- MODULE MCIsa -------------------------------
(***************************************************************************)
(* The benches of the instruction set, one at a time: the choice is made   *)
(* at the start.  "insn" decodes and executes, "csr" calls two or three    *)
(* spaces of control and status registers, "decoders" a collection.        *)
(***************************************************************************)
EXTENDS InstructionCaller, CsrSpace

CONSTANT Decoders  \* the RVDecoder objects: [name, canonical, accepts]

ASSUME DecodersAssumption == None \notin Decoders

VARIABLES bench, decoders

vars == <<bench, callerVars, csrVars, decoders>>

-----------------------------------------------------------------------------
(* The words and register values presented, put together by an assembler.  *)
At(n, lo) == {i + lo : i \in Bits(n)}
Assembled(opcode, rd, op3, rs1, rs2, top7) ==
  At(opcode, 0) \cup At(rd, 7) \cup At(op3, 12) \cup At(rs1, 15) \cup At(rs2, 20) \cup At(top7, 25)

(* Every funct3 of every opcode with operands in x1 and x2, and the funct7 *)
(* that are used, their neighbours and all ones.                           *)
Codes == {Assembled(opcode, 1, op3, 1, 2, top7) :
            opcode \in {3, 19, 27, 51, 59, 99, 103}, op3 \in 0 .. 7, top7 \in {0, 1, 32}}

(* Every bit of the immediates by itself.                                  *)
Singles ==
  {Bits(19)  \cup At(1, 7) \cup {i} : i \in 20 .. 31} \cup
  {Bits(99)  \cup At(1, 12) \cup At(1, 15) \cup {i} : i \in {7} \cup (8 .. 11) \cup (25 .. 31)} \cup
  {Bits(23)  \cup At(1, 7) \cup {i} : i \in 12 .. 31} \cup
  {Bits(111) \cup At(2, 7) \cup {i} : i \in 12 .. 31}

(* Destinations and bases that are x0, or one another.                     *)
Corners ==
  {Assembled(19, 0, 0, 0, 1, 0), Assembled(51, 0, 0, 1, 2, 32), Assembled(55, 0, 7, 0, 0, 0),
   Assembled(103, 0, 0, 0, 1, 0), Assembled(103, 2, 0, 1, 3, 127), Assembled(103, 2, 0, 2, 4, 0),
   Assembled(111, 0, 1, 0, 0, 0), Assembled(99, 0, 0, 0, 0, 127), Assembled(51, 1, 0, 0, 0, 0)}

FirstWords == Codes \cup Singles \cup Corners

(* What is decoded into a record that was used before.                     *)
LaterWords ==
  Corners \cup
  {Assembled(19, 1, 1, 1, 4, 1), Assembled(19, 2, 5, 2, 31, 33), Assembled(27, 1, 1, 2, 31, 0),
   Assembled(27, 1, 5, 1, 1, 32), Assembled(19, 1, 2, 2, 31, 127), Assembled(59, 1, 0, 1, 2, 32),
   Assembled(59, 2, 5, 1, 2, 32), Assembled(99, 2, 4, 1, 2, 0), Assembled(35, 1, 3, 1, 2, 0)}

(* -1, the least, 2^31 and a few others, in x1 and x2.                     *)
Least == {63}
Minus1 == 0 .. 63
MCStartValues == 
  {[r \in Registers |-> IF r = 0 THEN {} ELSE v[r]] :
     v \in {<<Minus1, {0}>>, <<Least, {0, 5}>>, <<{31}, {31}>>,
            <<{0, 1, 40}, Minus1>>, <<(31 .. 63), Least>>}}

MCStartCounters == {{2, 31}}

MCPresented == [n \in 0 .. MaxDecodes - 1 |-> IF n = 0 THEN FirstWords ELSE LaterWords]

-----------------------------------------------------------------------------
(* misa, medeleg and mstatush: two in one array of the last level, and one *)
(* that parts from them at the second.                                     *)
MCAddresses == {<<3, 0, 1>>, <<3, 0, 2>>, <<3, 1, 0>>}

(* One register of each address and space, and of misa one more: it can be *)
(* defined again, and the space it was lost from built once more.          *)
MCHeap ==
  {<<x, a, 0>> : x \in Spaces, a \in MCAddresses} \cup
  {<<x, <<3, 0, 1>>, 1>> : x \in Spaces}

(* Decoders that share words; the third has the canonical name of the      *)
(* first, and the name of the last is the canonical name of the second.    *)
MCDecoders ==
  {[name |-> "I", canonical |-> "RV64I", accepts |-> {"add", "fence"}],
   [name |-> "M", canonical |-> "RV64M", accepts |-> {"add", "mul"}],
   [name |-> "E", canonical |-> "RV64I", accepts |-> {"add"}],
   [name |-> "RV64M", canonical |-> "Zicsr", accepts |-> {"mul", "fence"}]}

D == INSTANCE DecoderCollection

Init ==
  /\ bench \in {"insn", "csr", "decoders"}
  /\ CallerInit /\ (bench # "insn" => registers[1] = Minus1)
  /\ CsrInit
  /\ D!DecodersInit

Next ==
  /\ UNCHANGED bench
  /\ \/ /\ bench = "insn"
        /\ CallerNext
        /\ UNCHANGED <<csrVars, decoders>>
     \/ /\ bench = "csr"
        /\ CsrNext
        /\ UNCHANGED <<callerVars, decoders>>
     \/ /\ bench = "decoders"
        /\ D!DecodersNext
        /\ UNCHANGED <<callerVars, csrVars>>

Spec == Init /\ [][Next]_vars

(* The property of the collection.                                         *)
KeepsItsDecoder == D!KeepsItsDecoder
=============================================================================
