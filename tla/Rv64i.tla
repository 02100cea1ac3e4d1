------------------------------- MODULE Rv64i -------------------------------
(***************************************************************************)
(* The RV64I instructions of main/emulated/isa: the code points that fill  *)
(* an RVInstruction from an instruction word, the executors that apply it  *)
(* to an RVArchitectural of 64 bits, and their registers.  A caller keeps  *)
(* one RVInstruction for many words, as Decode takes it by reference.      *)
(***************************************************************************)
EXTENDS Words

CONSTANT Registers  \* the general registers looked at, of 0 .. 31

ASSUME RegistersAssumption == Registers \subseteq 0 .. 31 /\ 0 \in Registers

VARIABLES
  insn,       \* the RVInstruction
  registers,  \* RVGeneralRegisters64: what the array holds
  pc          \* RVArchitectural: pc64

rvVars == <<insn, registers, pc>>

NoInsn == [raw |-> {}, imm |-> {}, rd |-> 0, rs1 |-> 0, rs2 |-> 0, name |-> "", executor |-> ""]

RVInit(values, pc0) ==
  /\ insn = NoInsn
  /\ registers = values
  /\ pc = pc0

-----------------------------------------------------------------------------
(* Immediates: the fields of the word moved to their places, and ones from *)
(* the sign up.                                                            *)
Sign(w, ones) == IF 31 \in w THEN ones ELSE {}

ImmediateI(w) == Field(w, 20, 31) \cup Sign(w, 12 .. 31)
ImmediateS(w) ==
  Field(w, 7, 11) \cup {i - 20 : i \in w \cap (25 .. 31)} \cup Sign(w, 12 .. 31)

(* Mutant: bit 7 of the word is not brought to bit 11.                     *)
ImmediateBUnmoved(w) ==
  {i - 7 : i \in w \cap (8 .. 11)} \cup {i : i \in w \cap {7}}
    \cup {i - 20 : i \in w \cap (25 .. 30)} \cup Sign(w, 12 .. 31)

ImmediateB(w) ==
  {i - 7 : i \in w \cap (8 .. 11)} \cup {i + 4 : i \in w \cap {7}}
    \cup {i - 20 : i \in w \cap (25 .. 30)} \cup Sign(w, 12 .. 31)

ImmediateU(w) == w \cap (12 .. 31)

ImmediateJ(w) ==
  {i - 20 : i \in w \cap (21 .. 30)} \cup {i - 9 : i \in w \cap {20}}
    \cup (w \cap (12 .. 19)) \cup Sign(w, 20 .. 31)

(* DecodeRV32ImmediateType* and, extended, DecodeRV64ImmediateType*.       *)
Immediate32(type, w) ==
  CASE type = "I" -> ImmediateI(w)
    [] type = "S" -> ImmediateS(w)
    [] type = "B" -> ImmediateB(w)
    [] type = "U" -> ImmediateU(w)
    [] type = "J" -> ImmediateJ(w)
    [] type = "R" -> {}

Immediate64(type, w) == SignExtend(Immediate32(type, w), 32, 64)

(* Mutant: types U and J leave rd.                                         *)
NormalFormKeepingRd(type, w) ==
  [insn EXCEPT !.rd  = IF type \in {"R", "I"} THEN Number(Field(w, 7, 11)) ELSE @,
               !.rs1 = IF type \in {"R", "I", "S", "B"} THEN Number(Field(w, 15, 19)) ELSE @,
               !.rs2 = IF type \in {"R", "S", "B"} THEN Number(Field(w, 20, 24)) ELSE @,
               !.imm = IF type = "R" THEN @ ELSE Immediate64(type, w)]

(* DecodeNormalRV64Type*: the fields a type has are set, the others stay.  *)
NormalForm(type, w) ==
  [insn EXCEPT !.rd  = IF type \in {"R", "I", "U", "J"} THEN Number(Field(w, 7, 11)) ELSE @,
               !.rs1 = IF type \in {"R", "I", "S", "B"} THEN Number(Field(w, 15, 19)) ELSE @,
               !.rs2 = IF type \in {"R", "S", "B"} THEN Number(Field(w, 20, 24)) ELSE @,
               !.imm = IF type = "R" THEN @ ELSE Immediate64(type, w)]

-----------------------------------------------------------------------------
(* The code points: a code point tells by which fields it accepts a word,  *)
(* each <<first bit, last bit, value>>.                                    *)
Point(type, name, executor, tests) ==
  [type |-> type, name |-> name, executor |-> executor, tests |-> tests]

Funct3(n) == <<12, 14, Bits(n)>>
Funct6(n) == <<26, 31, Bits(n)>>
Funct7(n) == <<25, 31, Bits(n)>>

(* Code group OP_IMM.  The code point of slti sets the executor of addi.   *)
OpImm == {
  Point("I", "addi",  "addi",  {Funct3(0)}),
  Point("I", "slti",  "addi",  {Funct3(2)}),
  Point("I", "sltiu", "sltiu", {Funct3(3)}),
  Point("I", "xori",  "xori",  {Funct3(4)}),
  Point("I", "ori",   "ori",   {Funct3(6)}),
  Point("I", "andi",  "andi",  {Funct3(7)}),
  Point("I", "slli",  "slli",  {Funct3(1), Funct6(0)}),
  Point("I", "srli",  "srli",  {Funct3(5), Funct6(0)}),
  Point("I", "srai",  "srai",  {Funct3(5), Funct6(16)})}

OpImm32 == {
  Point("I", "addiw", "addiw", {Funct3(0)}),
  Point("I", "slliw", "slliw", {Funct3(1), Funct7(0)}),
  Point("I", "srliw", "srliw", {Funct3(5), Funct7(0)}),
  Point("I", "sraiw", "sraiw", {Funct3(5), Funct7(32)})}

Op == {
  Point("R", "add",  "add",  {Funct3(0), Funct7(0)}),
  Point("R", "sub",  "sub",  {Funct3(0), Funct7(32)}),
  Point("R", "sll",  "sll",  {Funct3(1), Funct7(0)}),
  Point("R", "slt",  "slt",  {Funct3(2), Funct7(0)}),
  Point("R", "sltu", "sltu", {Funct3(3), Funct7(0)}),
  Point("R", "xor",  "xor",  {Funct3(4), Funct7(0)}),
  Point("R", "srl",  "srl",  {Funct3(5), Funct7(0)}),
  Point("R", "sra",  "sra",  {Funct3(5), Funct7(32)}),
  Point("R", "or",   "or",   {Funct3(6), Funct7(0)}),
  Point("R", "and",  "and",  {Funct3(7), Funct7(0)})}

Op32 == {
  Point("R", "addw", "addw", {Funct3(0), Funct7(0)}),
  Point("R", "subw", "subw", {Funct3(0), Funct7(32)}),
  Point("R", "sllw", "sllw", {Funct3(1), Funct7(0)}),
  Point("R", "srlw", "srlw", {Funct3(5), Funct7(0)}),
  Point("R", "sraw", "sraw", {Funct3(5), Funct7(32)})}

Branch == {
  Point("B", "beq",  "beq",  {Funct3(0)}),
  Point("B", "bne",  "bne",  {Funct3(1)}),
  Point("B", "blt",  "blt",  {Funct3(4)}),
  Point("B", "bge",  "bge",  {Funct3(5)}),
  Point("B", "bltu", "bltu", {Funct3(6)}),
  Point("B", "bgeu", "bgeu", {Funct3(7)})}

Jalr == {Point("I", "jalr", "jalr", {Funct3(0)})}

(* The code group of an opcode; those of loads, stores, fences and system  *)
(* instructions are declared and have no code points.                      *)
CodeGroup(opcode) ==
  CASE opcode = Bits(19)  -> OpImm
    [] opcode = Bits(27)  -> OpImm32
    [] opcode = Bits(51)  -> Op
    [] opcode = Bits(59)  -> Op32
    [] opcode = Bits(99)  -> Branch
    [] opcode = Bits(55)  -> {Point("U", "lui", "lui", {})}
    [] opcode = Bits(23)  -> {Point("U", "auipc", "auipc", {})}
    [] opcode = Bits(111) -> {Point("J", "jal", "jal", {})}
    [] opcode = Bits(103) -> Jalr
    [] OTHER -> {}

(* Mutant: the code points do not look at funct6 and funct7.               *)
FitsFunct3(w, p) == \A t \in p.tests : t[1] = 12 => Field(w, t[1], t[2]) = t[3]

Fits(w, p) == \A t \in p.tests : Field(w, t[1], t[2]) = t[3]

Accepting(w) == {p \in CodeGroup(Field(w, 0, 6)) : Fits(w, p)}

(* Decode of a code group: a refused word leaves the record as it was.     *)
Decode(w) ==
  /\ insn' = IF Accepting(w) = {} THEN insn
             ELSE LET p == CHOOSE p \in Accepting(w) : TRUE
                  IN  [NormalForm(p.type, w) EXCEPT !.name = p.name, !.executor = p.executor]
  /\ UNCHANGED <<registers, pc>>

SetRaw(w) ==
  /\ insn' = [insn EXCEPT !.raw = w]
  /\ UNCHANGED <<registers, pc>>

-----------------------------------------------------------------------------
(* RVGeneralRegisters64::Get.                                              *)
Get(address) == IF address = 0 THEN {} ELSE registers[address]

(* RVInstruction::GetOperand: from the raw word the caller has set.        *)
SHAMT5 == Number(Field(insn.raw, 20, 24))
SHAMT6 == Number(Field(insn.raw, 20, 25))

(* What the executors of OP_IMM and OP_IMM_32 store for a in rs1.          *)
ImmediateResult(executor, a, imm) ==
  CASE executor = "addi"  -> Add(a, imm, 64)
    [] executor = "slti"  -> Truth(LessSigned(a, imm, 64))
    [] executor = "sltiu" -> Truth(LessUnsigned(a, imm))
    [] executor = "andi"  -> And(a, imm)
    [] executor = "ori"   -> Or(a, imm)
    [] executor = "xori"  -> Xor(a, imm)
    [] executor = "slli"  -> ShiftLeft(a, SHAMT6, 64)
    [] executor = "srli"  -> ShiftRight(a, SHAMT6)
    [] executor = "srai"  -> ShiftRightSigned(a, SHAMT6, 64)
    [] executor = "addiw" -> SignExtend(Add(Low(a, 32), Low(imm, 32), 32), 32, 64)
    [] executor = "slliw" -> SignExtend(ShiftLeft(Low(a, 32), SHAMT5, 32), 32, 64)
    [] executor = "srliw" -> SignExtend(ShiftRight(Low(a, 32), SHAMT5), 32, 64)
    [] executor = "sraiw" -> SignExtend(ShiftRightSigned(Low(a, 32), SHAMT5, 32), 32, 64)

(* What the executors of OP and OP_32 store for a in rs1 and b in rs2.     *)
RegisterResult(executor, a, b) ==
  LET n6 == Number(Low(b, 6))
      n5 == Number(Low(b, 5))
  IN  CASE executor = "add"  -> Add(a, b, 64)
        [] executor = "sub"  -> Sub(a, b, 64)
        [] executor = "slt"  -> Truth(LessSigned(a, b, 64))
        [] executor = "sltu" -> Truth(LessUnsigned(a, b))
        [] executor = "and"  -> And(a, b)
        [] executor = "or"   -> Or(a, b)
        [] executor = "xor"  -> Xor(a, b)
        [] executor = "sll"  -> ShiftLeft(a, n6, 64)
        [] executor = "srl"  -> ShiftRight(a, n6)
        [] executor = "sra"  -> ShiftRightSigned(a, n6, 64)
        [] executor = "addw" -> SignExtend(Add(Low(a, 32), Low(b, 32), 32), 32, 64)
        [] executor = "subw" -> SignExtend(Sub(Low(a, 32), Low(b, 32), 32), 32, 64)
        [] executor = "sllw" -> SignExtend(ShiftLeft(Low(a, 32), n5, 32), 32, 64)
        [] executor = "srlw" -> SignExtend(ShiftRight(Low(a, 32), n5), 32, 64)
        [] executor = "sraw" -> SignExtend(ShiftRightSigned(Low(a, 32), n5, 32), 32, 64)

Taken(executor, a, b) ==
  CASE executor = "beq"  -> a = b
    [] executor = "bne"  -> a # b
    [] executor = "blt"  -> LessSigned(a, b, 64)
    [] executor = "bltu" -> LessUnsigned(a, b)
    [] executor = "bge"  -> ~LessSigned(a, b, 64)
    [] executor = "bgeu" -> ~LessUnsigned(a, b)

Executors(group) == {p.executor : p \in group}

(* JALR links before it reads the base of its target.                      *)
JumpTarget ==
  Add(IF insn.rs1 = insn.rd /\ insn.rd # 0 THEN Add(pc, {2}, 64) ELSE Get(insn.rs1),
      insn.imm, 64) \ {0}

(* operator[] of the registers: a read of register 0 resets it, a store to *)
(* it stays in the array.                                                  *)
Accessed(reads) == [registers EXCEPT ![0] = IF 0 \in reads THEN {} ELSE @]
Stored(value, reads) == [Accessed(reads) EXCEPT ![insn.rd] = value]

(* RVInstruction::Execute, once the record has an executor.                *)
Execute ==
  LET a == Get(insn.rs1)
      b == Get(insn.rs2)
      link == Add(pc, {2}, 64)
  IN  /\ insn.executor # ""
      /\ \/ /\ insn.executor \in Executors(OpImm \cup OpImm32)
            /\ registers' = Stored(ImmediateResult(insn.executor, a, insn.imm), {insn.rs1})
            /\ UNCHANGED pc
         \/ /\ insn.executor \in Executors(Op \cup Op32)
            /\ registers' = Stored(RegisterResult(insn.executor, a, b), {insn.rs1, insn.rs2})
            /\ UNCHANGED pc
         \/ /\ insn.executor \in Executors(Branch)
            /\ registers' = Accessed({insn.rs1, insn.rs2})
            /\ pc' = IF Taken(insn.executor, a, b) THEN Add(pc, insn.imm, 64) ELSE pc
         \/ /\ insn.executor = "lui"
            /\ registers' = Stored(insn.imm, {})
            /\ UNCHANGED pc
         \/ /\ insn.executor = "auipc"
            /\ registers' = Stored(Add(insn.imm, pc, 64), {})
            /\ UNCHANGED pc
         \/ /\ insn.executor = "jal"
            /\ registers' = Stored(link, {})
            /\ pc' = Add(pc, insn.imm, 64)
         \/ /\ insn.executor = "jalr"
            /\ registers' = [Stored(link, {}) EXCEPT ![0] = IF insn.rs1 = 0 THEN {} ELSE @]
            /\ pc' = JumpTarget
      /\ UNCHANGED insn
=============================================================================
