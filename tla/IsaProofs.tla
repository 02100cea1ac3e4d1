----------------------------- MODULE IsaProofs -----------------------------
(***************************************************************************)
(* Proofs about RV64I, for every instruction word of 32 bits, every value  *)
(* of the registers and any number of words decoded into one record, where *)
(* the runs decode a few hundred words twice; and about collections of any *)
(* decoders.                                                               *)
(***************************************************************************)
EXTENDS MCIsa, WellFoundedInduction, TLAPS

InsnWords == SUBSET (0 .. 31)

(* A field of the word that is moved down by n positions.                  *)
LEMMA MovedDown ==
  ASSUME NEW w \in InsnWords, NEW lo \in Int, NEW hi \in Int, NEW n \in Int, NEW i \in Int
  PROVE  i \in {j - n : j \in w \cap (lo .. hi)} <=> i + n \in w /\ lo <= i + n /\ i + n <= hi
<1>1. ASSUME i \in {j - n : j \in w \cap (lo .. hi)}
      PROVE  i + n \in w /\ lo <= i + n /\ i + n <= hi
  <2>1. PICK j \in w \cap (lo .. hi) : i = j - n
    BY <1>1
  <2>2. j \in Int /\ i + n = j
    BY <2>1 DEF InsnWords
  <2> QED
    BY <2>1, <2>2
<1>2. ASSUME i + n \in w, lo <= i + n, i + n <= hi
      PROVE  i \in {j - n : j \in w \cap (lo .. hi)}
  <2>1. i + n \in w \cap (lo .. hi) /\ (i + n) - n = i
    BY <1>2
  <2> QED
    BY <2>1
<1> QED
  BY <1>1, <1>2

(* A single bit of the word that is moved up by n positions.               *)
LEMMA MovedBit ==
  ASSUME NEW w \in InsnWords, NEW b \in Int, NEW n \in Int, NEW i \in Int
  PROVE  i \in {j + n : j \in w \cap {b}} <=> i = b + n /\ b \in w
  OBVIOUS

-----------------------------------------------------------------------------
(* The formats.  Every bit of a decoded immediate of 32 bits is the bit of *)
(* the word the format tells: type I, from one field and the sign.         *)
LEMMA BitsI ==
  ASSUME NEW w \in InsnWords, NEW i \in 0 .. 31
  PROVE  i \in ImmediateI(w) <=> Source("I", i) \in w
<1>0. Source("I", i) = IF i <= 10 THEN 20 + i ELSE 31
  BY DEF Source
<1>1. i \in Field(w, 20, 31) <=> i + 20 \in w /\ i <= 11
  <2>1. 20 \in Int /\ 31 \in Int /\ i \in Int
    OBVIOUS
  <2>2. i \in Field(w, 20, 31) <=> i + 20 \in w /\ 20 <= i + 20 /\ i + 20 <= 31
    BY <2>1, MovedDown, Zenon DEF Field
  <2> QED
    BY <2>1, <2>2
<1> QED
  BY <1>0, <1>1 DEF ImmediateI, Sign, InsnWords

(* Type S: from two fields and the sign.                                   *)
LEMMA BitsS ==
  ASSUME NEW w \in InsnWords, NEW i \in 0 .. 31
  PROVE  i \in ImmediateS(w) <=> Source("S", i) \in w
<1>0. Source("S", i) = IF i <= 4 THEN 7 + i ELSE IF i <= 10 THEN 20 + i ELSE 31
  BY DEF Source
<1>1. i \in Field(w, 7, 11) <=> i + 7 \in w /\ i <= 4
  <2>1. 7 \in Int /\ 11 \in Int /\ i \in Int
    OBVIOUS
  <2>2. i \in Field(w, 7, 11) <=> i + 7 \in w /\ 7 <= i + 7 /\ i + 7 <= 11
    BY <2>1, MovedDown, Zenon DEF Field
  <2> QED
    BY <2>1, <2>2
<1>2. i \in {j - 20 : j \in w \cap (25 .. 31)} <=> i + 20 \in w /\ 5 <= i /\ i <= 11
  <2>1. 20 \in Int /\ 25 \in Int /\ 31 \in Int /\ i \in Int
    OBVIOUS
  <2>2. i \in {j - 20 : j \in w \cap (25 .. 31)} <=> i + 20 \in w /\ 25 <= i + 20 /\ i + 20 <= 31
    BY <2>1, MovedDown, Zenon
  <2> QED
    BY <2>1, <2>2
<1> QED
  BY <1>0, <1>1, <1>2 DEF ImmediateS, Sign, InsnWords

(* Type B: from two fields, a bit that is moved up, and the sign.          *)
LEMMA BitsB ==
  ASSUME NEW w \in InsnWords, NEW i \in 0 .. 31
  PROVE  i \in ImmediateB(w) <=> Source("B", i) \in w
<1>0. Source("B", i) = IF i = 0 THEN -1 ELSE IF i <= 4 THEN 7 + i
                       ELSE IF i <= 10 THEN 20 + i ELSE IF i = 11 THEN 7 ELSE 31
  BY DEF Source
<1>1. i \in {j - 7 : j \in w \cap (8 .. 11)} <=> i + 7 \in w /\ 1 <= i /\ i <= 4
  <2>1. 7 \in Int /\ 8 \in Int /\ 11 \in Int /\ i \in Int
    OBVIOUS
  <2>2. i \in {j - 7 : j \in w \cap (8 .. 11)} <=> i + 7 \in w /\ 8 <= i + 7 /\ i + 7 <= 11
    BY <2>1, MovedDown, Zenon
  <2> QED
    BY <2>1, <2>2
<1>2. i \in {j + 4 : j \in w \cap {7}} <=> i = 11 /\ 7 \in w
  BY MovedBit, 4 \in Int, 7 \in Int
<1>3. i \in {j - 20 : j \in w \cap (25 .. 30)} <=> i + 20 \in w /\ 5 <= i /\ i <= 10
  <2>1. 20 \in Int /\ 25 \in Int /\ 30 \in Int /\ i \in Int
    OBVIOUS
  <2>2. i \in {j - 20 : j \in w \cap (25 .. 30)} <=> i + 20 \in w /\ 25 <= i + 20 /\ i + 20 <= 30
    BY <2>1, MovedDown, Zenon
  <2> QED
    BY <2>1, <2>2
<1> QED
  BY <1>0, <1>1, <1>2, <1>3 DEF ImmediateB, Sign, InsnWords

(* Type U: the upper bits of the word as they are.                         *)
LEMMA BitsU ==
  ASSUME NEW w \in InsnWords, NEW i \in 0 .. 31
  PROVE  i \in ImmediateU(w) <=> Source("U", i) \in w
<1>0. Source("U", i) = IF i <= 11 THEN -1 ELSE IF i <= 30 THEN i ELSE 31
  BY DEF Source
<1> QED
  BY <1>0 DEF ImmediateU, Sign, InsnWords

(* Type J: from a field moved down, one in place, a bit and the sign.      *)
LEMMA BitsJ ==
  ASSUME NEW w \in InsnWords, NEW i \in 0 .. 31
  PROVE  i \in ImmediateJ(w) <=> Source("J", i) \in w
<1>0. Source("J", i) = IF i = 0 THEN -1 ELSE IF i <= 10 THEN 20 + i
                       ELSE IF i = 11 THEN 20 ELSE IF i <= 19 THEN i ELSE 31
  BY DEF Source
<1>1. i \in {j - 20 : j \in w \cap (21 .. 30)} <=> i + 20 \in w /\ 1 <= i /\ i <= 10
  <2>1. 20 \in Int /\ 21 \in Int /\ 30 \in Int /\ i \in Int
    OBVIOUS
  <2>2. i \in {j - 20 : j \in w \cap (21 .. 30)} <=> i + 20 \in w /\ 21 <= i + 20 /\ i + 20 <= 30
    BY <2>1, MovedDown, Zenon
  <2> QED
    BY <2>1, <2>2
<1>2. i \in {j - 9 : j \in w \cap {20}} <=> i = 11 /\ 20 \in w
  BY MovedBit, 20 \in Int, 9 \in Int
<1> QED
  BY <1>0, <1>1, <1>2 DEF ImmediateJ, Sign, InsnWords

(* Immediate32 in one formula: the bits of the word that the format names. *)
LEMMA BitsOfImmediate ==
  ASSUME NEW w \in InsnWords, NEW type \in Types
  PROVE  Immediate32(type, w) = {i \in 0 .. 31 : Source(type, i) \in w}
<1>1. Immediate32(type, w) \subseteq 0 .. 31
  <2>1. Sign(w, 12 .. 31) \subseteq 0 .. 31 /\ Sign(w, 20 .. 31) \subseteq 0 .. 31
    BY DEF Sign
  <2>2. CASE type = "I"
    BY <2>1, <2>2 DEF Immediate32, ImmediateI, Field, InsnWords
  <2>3. CASE type = "S"
    BY <2>1, <2>3 DEF Immediate32, ImmediateS, Field, InsnWords
  <2>4. CASE type = "B"
    BY <2>1, <2>4 DEF Immediate32, ImmediateB, InsnWords
  <2>5. CASE type = "U"
    BY <2>5 DEF Immediate32, ImmediateU, InsnWords
  <2>6. CASE type = "J"
    BY <2>1, <2>6 DEF Immediate32, ImmediateJ, InsnWords
  <2>7. CASE type = "R"
    BY <2>7 DEF Immediate32
  <2> QED
    BY <2>2, <2>3, <2>4, <2>5, <2>6, <2>7 DEF Types
<1>2. ASSUME NEW i \in 0 .. 31
      PROVE  i \in Immediate32(type, w) <=> Source(type, i) \in w
  <2>1. CASE type = "R"
    BY <2>1 DEF Immediate32, Source, InsnWords
  <2>2. CASE type # "R"
    BY <2>2, BitsI, BitsS, BitsB, BitsU, BitsJ DEF Immediate32, Types
  <2> QED
    BY <2>1, <2>2
<1> QED
  BY <1>1, <1>2

(* The shifts and masks of the immediate decoders, of both widths and all  *)
(* formats, give the immediate the format tells.                           *)
LEMMA ImmediateOfWord ==
  ASSUME NEW w \in InsnWords, NEW type \in Types
  PROVE  /\ Immediate64(type, w) = ImmediateOf(type, w)
         /\ Immediate32(type, w) = Low(ImmediateOf(type, w), 32)
<1> DEFINE imm == Immediate32(type, w)
<1>1. imm = {i \in 0 .. 31 : Source(type, i) \in w}
  BY BitsOfImmediate
<1>2. \A i \in 32 .. 63 : Source(type, i) = Source(type, 31)
  BY DEF Source, Types
<1>3. imm = Low(ImmediateOf(type, w), 32)
  BY <1>1 DEF Low, Positions, ImmediateOf, Positions
<1>4. Immediate64(type, w) = imm \cup (IF 31 \in imm THEN 32 .. 63 ELSE {})
  <2>1. Low(imm, 32) = imm
    BY <1>1 DEF Low, Positions
  <2> QED
    BY <2>1 DEF Immediate64, SignExtend
<1>5. 31 \in imm <=> Source(type, 31) \in w
  BY <1>1
<1>6. Immediate64(type, w) = ImmediateOf(type, w)
  BY <1>1, <1>2, <1>4, <1>5 DEF ImmediateOf, Positions
<1> QED
  BY <1>3, <1>6

-----------------------------------------------------------------------------
(* The code points.                                                        *)

(* The literals used as values of fields.                                  *)
LEMMA Literals3 ==
  /\ Bits(0) = {}     /\ Bits(1) = {0}     /\ Bits(2) = {1}     /\ Bits(3) = {0, 1}
  /\ Bits(4) = {2}    /\ Bits(5) = {0, 2}  /\ Bits(6) = {1, 2}  /\ Bits(7) = {0, 1, 2}
BY DEF Bits, Weight

LEMMA Literals7 ==
  /\ Bits(16) = {4}
  /\ Bits(32) = {5}
  /\ Bits(19) = {0, 1, 4}
  /\ Bits(27) = {0, 1, 3, 4}
  /\ Bits(51) = {0, 1, 4, 5}
  /\ Bits(59) = {0, 1, 3, 4, 5}
  /\ Bits(99) = {0, 1, 5, 6}
  /\ Bits(55) = {0, 1, 2, 4, 5}
  /\ Bits(23) = {0, 1, 2, 4}
  /\ Bits(111) = {0, 1, 2, 3, 5, 6}
  /\ Bits(103) = {0, 1, 2, 5, 6}
BY DEF Bits, Weight

LEMMA Distinct3 ==
  \A i, j \in 0 .. 7 : Bits(i) = Bits(j) => i = j
<1>1. \A i \in 0 .. 7 : i \in {0, 1, 2, 3, 4, 5, 6, 7}
  OBVIOUS
<1> QED
  BY <1>1, Literals3

LEMMA FieldBits ==
  ASSUME NEW w \in InsnWords, NEW lo \in Nat, NEW hi \in Nat, NEW i \in Int
  PROVE  i \in Field(w, lo, hi) <=> i + lo \in w /\ 0 <= i /\ i + lo <= hi
<1>1. lo \in Int /\ hi \in Int
  OBVIOUS
<1>2. i \in Field(w, lo, hi) <=> i + lo \in w /\ lo <= i + lo /\ i + lo <= hi
  BY <1>1, MovedDown, Zenon DEF Field
<1> QED
  BY <1>2

LEMMA FieldRange ==
  ASSUME NEW w \in InsnWords, NEW lo \in Nat, NEW hi \in Nat
  PROVE  Field(w, lo, hi) \subseteq 0 .. hi - lo
BY DEF Field, InsnWords

LEMMA OpcodeField ==
  ASSUME NEW w \in InsnWords
  PROVE  Field(w, 0, 6) = Opcode(w)
<1>1. Field(w, 0, 6) \subseteq 0 .. 6
  BY FieldRange
<1>2. \A i \in Int : i \in Field(w, 0, 6) <=> i + 0 \in w /\ 0 <= i /\ i + 0 <= 6
  BY FieldBits
<1> QED
  BY <1>1, <1>2 DEF Opcode, Low, Positions, InsnWords

LEMMA Op3Values ==
  ASSUME NEW w \in InsnWords
  PROVE  \E k \in 0 .. 7 : Op3(w) = Bits(k)
<1>1. Op3(w) \subseteq 0 .. 2
  BY FieldRange DEF Op3
<1>2. \/ Op3(w) = {} \/ Op3(w) = {0} \/ Op3(w) = {1} \/ Op3(w) = {0, 1}
      \/ Op3(w) = {2} \/ Op3(w) = {0, 2} \/ Op3(w) = {1, 2} \/ Op3(w) = {0, 1, 2}
  BY <1>1
<1> QED
  BY <1>2, Literals3

LEMMA CodeGroups ==
  /\ CodeGroup(Bits(19)) = OpImm
  /\ CodeGroup(Bits(27)) = OpImm32
  /\ CodeGroup(Bits(51)) = Op
  /\ CodeGroup(Bits(59)) = Op32
  /\ CodeGroup(Bits(99)) = Branch
  /\ CodeGroup(Bits(55)) = {Point("U", "lui", "lui", {})}
  /\ CodeGroup(Bits(23)) = {Point("U", "auipc", "auipc", {})}
  /\ CodeGroup(Bits(111)) = {Point("J", "jal", "jal", {})}
  /\ CodeGroup(Bits(103)) = Jalr
  /\ \A o : CodeGroup(o) # {} =>
       o \in {Bits(19), Bits(27), Bits(51), Bits(59), Bits(99), Bits(55), Bits(23), Bits(111),
              Bits(103)}
<1>1. \A i, j \in {19, 27, 51, 59, 99, 55, 23, 111, 103} : Bits(i) = Bits(j) => i = j
  BY Literals7
<1> QED
  BY <1>1 DEF CodeGroup

LEMMA TestsOfPoint ==
  ASSUME NEW w, NEW p, NEW k
  PROVE  /\ p.tests = {} => Fits(w, p)
         /\ p.tests = {Funct3(k)} => (Fits(w, p) <=> Op3(w) = Bits(k))
         /\ \A n : p.tests = {Funct3(k), Funct7(n)} =>
              (Fits(w, p) <=> Op3(w) = Bits(k) /\ Top7(w) = Bits(n))
         /\ \A n : p.tests = {Funct3(k), Funct6(n)} =>
              (Fits(w, p) <=> Op3(w) = Bits(k) /\ Field(w, 26, 31) = Bits(n))
<1>1. \A n : Funct3(n)[1] = 12 /\ Funct3(n)[2] = 14 /\ Funct3(n)[3] = Bits(n)
  BY DEF Funct3
<1>2. \A n : Funct6(n)[1] = 26 /\ Funct6(n)[2] = 31 /\ Funct6(n)[3] = Bits(n)
  BY DEF Funct6
<1>3. \A n : Funct7(n)[1] = 25 /\ Funct7(n)[2] = 31 /\ Funct7(n)[3] = Bits(n)
  BY DEF Funct7
<1> QED
  BY <1>1, <1>2, <1>3 DEF Fits, Op3, Top7
(* Which points of a group accept a word.                                  *)
LEMMA OpImmPoints ==
  ASSUME NEW w, NEW p
  PROVE  p \in OpImm /\ Fits(w, p) <=>
         \/ p = Point("I", "addi", "addi", {Funct3(0)}) /\ Op3(w) = Bits(0)
         \/ p = Point("I", "slti", "addi", {Funct3(2)}) /\ Op3(w) = Bits(2)
         \/ p = Point("I", "sltiu", "sltiu", {Funct3(3)}) /\ Op3(w) = Bits(3)
         \/ p = Point("I", "xori", "xori", {Funct3(4)}) /\ Op3(w) = Bits(4)
         \/ p = Point("I", "ori", "ori", {Funct3(6)}) /\ Op3(w) = Bits(6)
         \/ p = Point("I", "andi", "andi", {Funct3(7)}) /\ Op3(w) = Bits(7)
         \/ p = Point("I", "slli", "slli", {Funct3(1), Funct6(0)})
            /\ Op3(w) = Bits(1) /\ Field(w, 26, 31) = Bits(0)
         \/ p = Point("I", "srli", "srli", {Funct3(5), Funct6(0)})
            /\ Op3(w) = Bits(5) /\ Field(w, 26, 31) = Bits(0)
         \/ p = Point("I", "srai", "srai", {Funct3(5), Funct6(16)})
            /\ Op3(w) = Bits(5) /\ Field(w, 26, 31) = Bits(16)
BY TestsOfPoint DEF OpImm, Point

LEMMA OpImm32Points ==
  ASSUME NEW w, NEW p
  PROVE  p \in OpImm32 /\ Fits(w, p) <=>
         \/ p = Point("I", "addiw", "addiw", {Funct3(0)}) /\ Op3(w) = Bits(0)
         \/ p = Point("I", "slliw", "slliw", {Funct3(1), Funct7(0)})
            /\ Op3(w) = Bits(1) /\ Top7(w) = Bits(0)
         \/ p = Point("I", "srliw", "srliw", {Funct3(5), Funct7(0)})
            /\ Op3(w) = Bits(5) /\ Top7(w) = Bits(0)
         \/ p = Point("I", "sraiw", "sraiw", {Funct3(5), Funct7(32)})
            /\ Op3(w) = Bits(5) /\ Top7(w) = Bits(32)
BY TestsOfPoint DEF OpImm32, Point

LEMMA OpPoints ==
  ASSUME NEW w, NEW p
  PROVE  p \in Op /\ Fits(w, p) <=>
         \/ p = Point("R", "add", "add", {Funct3(0), Funct7(0)})
            /\ Op3(w) = Bits(0) /\ Top7(w) = Bits(0)
         \/ p = Point("R", "sub", "sub", {Funct3(0), Funct7(32)})
            /\ Op3(w) = Bits(0) /\ Top7(w) = Bits(32)
         \/ p = Point("R", "sll", "sll", {Funct3(1), Funct7(0)})
            /\ Op3(w) = Bits(1) /\ Top7(w) = Bits(0)
         \/ p = Point("R", "slt", "slt", {Funct3(2), Funct7(0)})
            /\ Op3(w) = Bits(2) /\ Top7(w) = Bits(0)
         \/ p = Point("R", "sltu", "sltu", {Funct3(3), Funct7(0)})
            /\ Op3(w) = Bits(3) /\ Top7(w) = Bits(0)
         \/ p = Point("R", "xor", "xor", {Funct3(4), Funct7(0)})
            /\ Op3(w) = Bits(4) /\ Top7(w) = Bits(0)
         \/ p = Point("R", "srl", "srl", {Funct3(5), Funct7(0)})
            /\ Op3(w) = Bits(5) /\ Top7(w) = Bits(0)
         \/ p = Point("R", "sra", "sra", {Funct3(5), Funct7(32)})
            /\ Op3(w) = Bits(5) /\ Top7(w) = Bits(32)
         \/ p = Point("R", "or", "or", {Funct3(6), Funct7(0)})
            /\ Op3(w) = Bits(6) /\ Top7(w) = Bits(0)
         \/ p = Point("R", "and", "and", {Funct3(7), Funct7(0)})
            /\ Op3(w) = Bits(7) /\ Top7(w) = Bits(0)
<1>1. ASSUME NEW name, NEW k, NEW n, p = Point("R", name, name, {Funct3(k), Funct7(n)})
      PROVE  Fits(w, p) <=> Op3(w) = Bits(k) /\ Top7(w) = Bits(n)
  BY <1>1, TestsOfPoint DEF Point
<1>2. p \in Op <=> \/ p = Point("R", "add", "add", {Funct3(0), Funct7(0)})
                  \/ p = Point("R", "sub", "sub", {Funct3(0), Funct7(32)})
                  \/ p = Point("R", "sll", "sll", {Funct3(1), Funct7(0)})
                  \/ p = Point("R", "slt", "slt", {Funct3(2), Funct7(0)})
                  \/ p = Point("R", "sltu", "sltu", {Funct3(3), Funct7(0)})
                  \/ p = Point("R", "xor", "xor", {Funct3(4), Funct7(0)})
                  \/ p = Point("R", "srl", "srl", {Funct3(5), Funct7(0)})
                  \/ p = Point("R", "sra", "sra", {Funct3(5), Funct7(32)})
                  \/ p = Point("R", "or", "or", {Funct3(6), Funct7(0)})
                  \/ p = Point("R", "and", "and", {Funct3(7), Funct7(0)})
  BY DEF Op
<1> QED
  BY <1>1, <1>2

LEMMA Op32Points ==
  ASSUME NEW w, NEW p
  PROVE  p \in Op32 /\ Fits(w, p) <=>
         \/ p = Point("R", "addw", "addw", {Funct3(0), Funct7(0)})
            /\ Op3(w) = Bits(0) /\ Top7(w) = Bits(0)
         \/ p = Point("R", "subw", "subw", {Funct3(0), Funct7(32)})
            /\ Op3(w) = Bits(0) /\ Top7(w) = Bits(32)
         \/ p = Point("R", "sllw", "sllw", {Funct3(1), Funct7(0)})
            /\ Op3(w) = Bits(1) /\ Top7(w) = Bits(0)
         \/ p = Point("R", "srlw", "srlw", {Funct3(5), Funct7(0)})
            /\ Op3(w) = Bits(5) /\ Top7(w) = Bits(0)
         \/ p = Point("R", "sraw", "sraw", {Funct3(5), Funct7(32)})
            /\ Op3(w) = Bits(5) /\ Top7(w) = Bits(32)
BY TestsOfPoint DEF Op32, Point

LEMMA BranchPoints ==
  ASSUME NEW w, NEW p
  PROVE  p \in Branch /\ Fits(w, p) <=>
         \/ p = Point("B", "beq", "beq", {Funct3(0)}) /\ Op3(w) = Bits(0)
         \/ p = Point("B", "bne", "bne", {Funct3(1)}) /\ Op3(w) = Bits(1)
         \/ p = Point("B", "blt", "blt", {Funct3(4)}) /\ Op3(w) = Bits(4)
         \/ p = Point("B", "bge", "bge", {Funct3(5)}) /\ Op3(w) = Bits(5)
         \/ p = Point("B", "bltu", "bltu", {Funct3(6)}) /\ Op3(w) = Bits(6)
         \/ p = Point("B", "bgeu", "bgeu", {Funct3(7)}) /\ Op3(w) = Bits(7)
BY TestsOfPoint DEF Branch, Point

LEMMA JalrPoints ==
  ASSUME NEW w, NEW p
  PROVE  p \in Jalr /\ Fits(w, p) <=>
         \/ p = Point("I", "jalr", "jalr", {Funct3(0)}) /\ Op3(w) = Bits(0)
BY TestsOfPoint DEF Jalr, Point

(* A shift by an immediate of six bits looks at all of funct7 but bit 25.  *)
LEMMA TopOfShift ==
  ASSUME NEW w \in InsnWords
  PROVE  /\ Field(w, 26, 31) = Bits(0) <=> Top7(w) \ {0} = Bits(0)
         /\ Field(w, 26, 31) = Bits(16) <=> Top7(w) \ {0} = Bits(32)
<1> DEFINE six == Field(w, 26, 31)
           seven == Field(w, 25, 31)
<1>1. six \subseteq 0 .. 5 /\ seven \subseteq 0 .. 6
  <2>1. six \subseteq 0 .. 31 - 26 /\ seven \subseteq 0 .. 31 - 25
    BY FieldRange
  <2> QED
    BY <2>1
<1>2. \A i \in 0 .. 5 : i \in six <=> i + 1 \in seven \ {0}
  <2> SUFFICES ASSUME NEW i \in 0 .. 5 PROVE i \in six <=> i + 1 \in seven
    OBVIOUS
  <2>1. i \in six <=> i + 26 \in w /\ 0 <= i /\ i + 26 <= 31
    BY FieldBits
  <2>2. i + 1 \in seven <=> (i + 1) + 25 \in w /\ 0 <= i + 1 /\ (i + 1) + 25 <= 31
    BY FieldBits
  <2> QED
    BY <2>1, <2>2
<1> HIDE DEF six, seven
<1>3. six = {} <=> seven \ {0} = {}
  BY <1>1, <1>2
<1>4. six = {4} <=> seven \ {0} = {5}
  <2>1. six = {4} <=> \A i \in 0 .. 5 : i \in six <=> i = 4
    <3>1. ASSUME \A i \in 0 .. 5 : i \in six <=> i = 4
          PROVE  six = {4}
      <4>1. 4 \in six
        BY <3>1, 4 \in 0 .. 5
      <4>2. ASSUME NEW i \in six PROVE i = 4
        <5>1. i \in 0 .. 5
          BY <1>1
        <5> QED
          BY <3>1, <5>1
      <4> QED
        BY <4>1, <4>2
    <3> QED
      BY <3>1
  <2>2. seven \ {0} = {5} <=> \A i \in 0 .. 5 : i + 1 \in seven \ {0} <=> i + 1 = 5
    <3>1. seven \ {0} \subseteq 1 .. 6
      BY <1>1
    <3>2. ASSUME \A i \in 0 .. 5 : i + 1 \in seven \ {0} <=> i + 1 = 5
          PROVE  \A j \in 1 .. 6 : j \in seven \ {0} <=> j = 5
      <4> TAKE j \in 1 .. 6
      <4>1. j - 1 \in 0 .. 5 /\ (j - 1) + 1 = j
        OBVIOUS
      <4> QED
        BY <3>2, <4>1
    <3> QED
      BY <3>1, <3>2
  <2> QED
    BY <1>2, <2>1, <2>2
<1> QED
  BY <1>3, <1>4, Literals3, Literals7 DEF Top7, six, seven

LEMMA AcceptedGroups ==
  ASSUME NEW w \in InsnWords, NEW p
  PROVE  p \in Accepting(w) <=> p \in CodeGroup(Opcode(w)) /\ Fits(w, p)
BY OpcodeField DEF Accepting

(* The points that accept a word are as many as the instructions it        *)
(* encodes, one or none, for each opcode.                                  *)
LEMMA AcceptedImmediate ==
  ASSUME NEW w \in InsnWords, Opcode(w) \in {Bits(19), Bits(27)}
  PROVE  /\ Encodes(w) <=> \E p : p \in Accepting(w)
         /\ \A p, q \in Accepting(w) : p = q
<1>1. CASE Opcode(w) = Bits(19)
  <2>1. \A p : p \in Accepting(w) <=> p \in OpImm /\ Fits(w, p)
    BY <1>1, AcceptedGroups, CodeGroups
  <2>2. 3 \notin w /\ 5 \notin w
    BY <1>1, Literals7 DEF Opcode, Low, Positions
  <2>3. Encodes(w) <=> (Op3(w) \in {Bits(1), Bits(5)} =>
                          \/ Field(w, 26, 31) = Bits(0)
                          \/ Field(w, 26, 31) = Bits(16) /\ Op3(w) = Bits(5))
    <3>1. /\ Opcode(w) \in Arithmetic
          /\ Opcode(w) \notin {Bits(99), Bits(103), Bits(55), Bits(23), Bits(111)}
      BY <1>1, Literals7 DEF Arithmetic
    <3>2. ~IsRegister(w) /\ Width(w) = 64
      BY <2>2 DEF IsRegister, Width
    <3> QED
      BY <3>1, <3>2, TopOfShift DEF Encodes, IsShift
  <2>4. PICK k \in 0 .. 7 : Op3(w) = Bits(k)
    BY Op3Values
  <2>5. k \in {0, 1, 2, 3, 4, 5, 6, 7}
    BY <2>4
  <2>6. Bits(0) # Bits(16)
    BY Literals3, Literals7
  <2> QED
    BY <2>1, <2>3, <2>4, <2>5, <2>6, Distinct3, OpImmPoints
<1>2. CASE Opcode(w) = Bits(27)
  <2>1. \A p : p \in Accepting(w) <=> p \in OpImm32 /\ Fits(w, p)
    BY <1>2, AcceptedGroups, CodeGroups
  <2>2. 3 \in w /\ 5 \notin w
    BY <1>2, Literals7 DEF Opcode, Low, Positions
  <2>3. Encodes(w) <=> /\ Op3(w) \in {Bits(0), Bits(1), Bits(5)}
                       /\ Op3(w) \in {Bits(1), Bits(5)} =>
                            \/ Top7(w) = Bits(0)
                            \/ Top7(w) = Bits(32) /\ Op3(w) = Bits(5)
    <3>1. /\ Opcode(w) \in Arithmetic
          /\ Opcode(w) \notin {Bits(99), Bits(103), Bits(55), Bits(23), Bits(111)}
      BY <1>2, Literals7 DEF Arithmetic
    <3>2. ~IsRegister(w) /\ Width(w) = 32
      BY <2>2 DEF IsRegister, Width
    <3> QED
      BY <3>1, <3>2 DEF Encodes, IsShift
  <2>4. Bits(0) # Bits(32)
    BY Literals3, Literals7
  <2> QED
    BY <2>1, <2>3, <2>4, Distinct3, OpImm32Points
<1> QED
  BY <1>1, <1>2

LEMMA AcceptedRegister ==
  ASSUME NEW w \in InsnWords, Opcode(w) \in {Bits(51), Bits(59)}
  PROVE  /\ Encodes(w) <=> \E p : p \in Accepting(w)
         /\ \A p, q \in Accepting(w) : p = q
<1>1. /\ Opcode(w) \in Arithmetic
      /\ Opcode(w) \notin {Bits(99), Bits(103), Bits(55), Bits(23), Bits(111)}
  BY Literals7 DEF Arithmetic
<1>2. Bits(0) # Bits(32)
  BY Literals3, Literals7
<1>3. IsRegister(w)
  BY Literals7 DEF Opcode, Low, Positions, IsRegister
<1>4. CASE Opcode(w) = Bits(51)
  <2>1. \A p : p \in Accepting(w) <=> p \in Op /\ Fits(w, p)
    BY <1>4, AcceptedGroups, CodeGroups
  <2>2. Width(w) = 64
    BY <1>4, Literals7 DEF Opcode, Low, Positions, Width
  <2>3. Encodes(w) <=> \/ Top7(w) = Bits(0)
                       \/ Top7(w) = Bits(32) /\ Op3(w) \in {Bits(0), Bits(5)}
    BY <1>1, <1>3, <2>2 DEF Encodes
  <2>4. PICK k \in 0 .. 7 : Op3(w) = Bits(k)
    BY Op3Values
  <2>5. k \in {0, 1, 2, 3, 4, 5, 6, 7}
    BY <2>4
  <2> QED
    BY <1>2, <2>1, <2>3, <2>4, <2>5, Distinct3, OpPoints
<1>5. CASE Opcode(w) = Bits(59)
  <2>1. \A p : p \in Accepting(w) <=> p \in Op32 /\ Fits(w, p)
    BY <1>5, AcceptedGroups, CodeGroups
  <2>2. Width(w) = 32
    BY <1>5, Literals7 DEF Opcode, Low, Positions, Width
  <2>3. Encodes(w) <=> /\ Op3(w) \in {Bits(0), Bits(1), Bits(5)}
                       /\ \/ Top7(w) = Bits(0)
                          \/ Top7(w) = Bits(32) /\ Op3(w) \in {Bits(0), Bits(5)}
    BY <1>1, <1>3, <2>2 DEF Encodes
  <2> QED
    BY <1>2, <2>1, <2>3, Distinct3, Op32Points
<1> QED
  BY <1>4, <1>5

LEMMA AcceptedOther ==
  ASSUME NEW w \in InsnWords, Opcode(w) \notin Arithmetic
  PROVE  /\ Encodes(w) <=> \E p : p \in Accepting(w)
         /\ \A p, q \in Accepting(w) : p = q
<1>1. CASE Opcode(w) = Bits(99)
  <2>1. \A p : p \in Accepting(w) <=> p \in Branch /\ Fits(w, p)
    BY <1>1, AcceptedGroups, CodeGroups
  <2>2. Encodes(w) <=> Op3(w) \notin {Bits(2), Bits(3)}
    BY <1>1, Literals7 DEF Encodes
  <2>3. PICK k \in 0 .. 7 : Op3(w) = Bits(k)
    BY Op3Values
  <2>4. k \in {0, 1, 2, 3, 4, 5, 6, 7}
    BY <2>3
  <2> QED
    BY <2>1, <2>2, <2>3, <2>4, Distinct3, BranchPoints
<1>2. CASE Opcode(w) = Bits(103)
  <2>1. \A p : p \in Accepting(w) <=> p \in Jalr /\ Fits(w, p)
    BY <1>2, AcceptedGroups, CodeGroups
  <2>2. Encodes(w) <=> Op3(w) = Bits(0)
    BY <1>2, Literals7 DEF Encodes
  <2> QED
    BY <2>1, <2>2, JalrPoints
<1>3. CASE Opcode(w) \in {Bits(55), Bits(23), Bits(111)}
  <2>1. Encodes(w)
    BY <1>3 DEF Encodes
  <2>2. \E p : CodeGroup(Opcode(w)) = {p} /\ p.tests = {}
    <3>1. \A name : \A type : Point(type, name, name, {}).tests = {}
      BY DEF Point
    <3> QED
      BY <1>3, <3>1, CodeGroups
  <2> QED
    BY <2>1, <2>2, AcceptedGroups, TestsOfPoint
<1>4. CASE Opcode(w) \notin {Bits(99), Bits(103), Bits(55), Bits(23), Bits(111)}
  <2>1. ~Encodes(w)
    BY <1>4 DEF Encodes
  <2>2. CodeGroup(Opcode(w)) = {}
    BY <1>4, CodeGroups DEF Arithmetic
  <2> QED
    BY <2>1, <2>2, AcceptedGroups
<1> QED
  BY <1>1, <1>2, <1>3, <1>4

(* The code groups accept a word of 32 bits if and only if it encodes one  *)
(* of their instructions, and no two of their points do.                   *)
LEMMA AcceptedIsEncoded ==
  ASSUME NEW w \in InsnWords
  PROVE  /\ Encodes(w) <=> Accepting(w) # {}
         /\ \A p, q \in Accepting(w) : p = q
BY AcceptedImmediate, AcceptedRegister, AcceptedOther DEF Arithmetic

-----------------------------------------------------------------------------
(* What a caller's record holds, and the registers.                        *)
InsnTypeOK ==
  /\ insn = [raw |-> insn.raw, imm |-> insn.imm, rd |-> insn.rd, rs1 |-> insn.rs1, rs2 |-> insn.rs2,
             name |-> insn.name, executor |-> insn.executor]
  /\ insn.raw \in InsnWords
  /\ insn.imm \in SUBSET (0 .. 63)

(* The record holds the code point that accepted the word and the fields   *)
(* its type has, whatever earlier words left in the others.                *)
Records(w, p) ==
  /\ p \in Accepting(w)
  /\ insn.executor = p.executor
  /\ p.type \in {"R", "I", "U", "J"} => insn.rd = Rd(w)
  /\ p.type \in {"R", "I", "S", "B"} => insn.rs1 = Rs1(w)
  /\ p.type \in {"R", "S", "B"} => insn.rs2 = Rs2(w)
  /\ p.type # "R" => insn.imm = ImmediateOf(p.type, w)
  /\ p.type \in {"R", "I", "B"} => Rs1(w) \in Registers
  /\ p.type \in {"R", "B"} => Rs2(w) \in Registers

(* The registers as the caller sees them: what a store to register 0       *)
(* leaves in the array is not among it.                                    *)
Gets == [r \in Registers |-> Get(r)]

CallerInv ==
  /\ decodes \in Nat
  /\ InsnTypeOK
  /\ registers = [r \in Registers |-> registers[r]]
  /\ Gets \in [Registers -> SUBSET (0 .. 63)]
  /\ pc \in SUBSET (0 .. 63)
  /\ word \in InsnWords
  /\ ~done => \E p : Records(word, p)

LEMMA Numbers ==
  ASSUME NEW f
  PROVE  /\ Number(f) \in 0 .. 63
         /\ f \subseteq 0 .. 4 => Number(f) \in 0 .. 31
<1>1. /\ Worth(f, 0) \in {0, 1} /\ Worth(f, 1) \in {0, 2} /\ Worth(f, 2) \in {0, 4}
      /\ Worth(f, 3) \in {0, 8} /\ Worth(f, 4) \in {0, 16} /\ Worth(f, 5) \in {0, 32}
  BY DEF Worth, Weight
<1>2. f \subseteq 0 .. 4 => Worth(f, 5) = 0
  BY DEF Worth
<1> QED
  BY <1>1, <1>2 DEF Number

LEMMA PointTypes ==
  ASSUME NEW w \in InsnWords, NEW p \in Accepting(w)
  PROVE  p.type \in Types
<1>1. p \in CodeGroup(Opcode(w)) /\ Fits(w, p)
  BY AcceptedGroups
<1>2. CASE p \in OpImm
  BY <1>1, <1>2, OpImmPoints DEF Point, Types
<1>3. CASE p \in OpImm32
  BY <1>1, <1>3, OpImm32Points DEF Point, Types
<1>4. CASE p \in Op
  BY <1>1, <1>4, OpPoints DEF Point, Types
<1>5. CASE p \in Op32
  BY <1>1, <1>5, Op32Points DEF Point, Types
<1>6. CASE p \in Branch
  BY <1>1, <1>6, BranchPoints DEF Point, Types
<1>7. CASE p \in Jalr
  BY <1>1, <1>7, JalrPoints DEF Point, Types
<1>8. CASE p \in {Point("U", "lui", "lui", {}), Point("U", "auipc", "auipc", {}),
                  Point("J", "jal", "jal", {})}
  BY <1>8 DEF Point, Types
<1> QED
  BY <1>1, <1>2, <1>3, <1>4, <1>5, <1>6, <1>7, <1>8, CodeGroups

LEMMA DecodeRecords ==
  ASSUME NEW w \in InsnWords, InsnTypeOK, Decode(w), NEW p \in Accepting(w),
         p.type \in {"R", "I", "B"} => Rs1(w) \in Registers,
         p.type \in {"R", "B"} => Rs2(w) \in Registers
  PROVE  InsnTypeOK' /\ Records(w, p)'
<1> DEFINE q == CHOOSE q \in Accepting(w) : TRUE
<1>1. q = p
  BY AcceptedIsEncoded
<1>2. insn' = [NormalForm(q.type, w) EXCEPT !.name = q.name, !.executor = q.executor]
  BY DEF Decode
<1>3. insn' = [NormalForm(p.type, w) EXCEPT !.name = p.name, !.executor = p.executor]
  BY <1>1, <1>2
<1>4. p.type \in Types
  BY PointTypes
<1>5. Immediate64(p.type, w) = ImmediateOf(p.type, w) /\ ImmediateOf(p.type, w) \in SUBSET (0 .. 63)
  <2>1. Immediate64(p.type, w) = ImmediateOf(p.type, w)
    BY <1>4, ImmediateOfWord
  <2> QED
    BY <2>1 DEF ImmediateOf, Positions
<1>6. NormalForm(p.type, w) =
        [insn EXCEPT !.rd  = IF p.type \in {"R", "I", "U", "J"} THEN Rd(w) ELSE insn.rd,
                     !.rs1 = IF p.type \in {"R", "I", "S", "B"} THEN Rs1(w) ELSE insn.rs1,
                     !.rs2 = IF p.type \in {"R", "S", "B"} THEN Rs2(w) ELSE insn.rs2,
                     !.imm = IF p.type = "R" THEN insn.imm ELSE ImmediateOf(p.type, w)]
  BY <1>5 DEF NormalForm, Rd, Rs1, Rs2
<1>7. insn' = [raw |-> insn.raw,
               imm |-> IF p.type = "R" THEN insn.imm ELSE ImmediateOf(p.type, w),
               rd  |-> IF p.type \in {"R", "I", "U", "J"} THEN Rd(w) ELSE insn.rd,
               rs1 |-> IF p.type \in {"R", "I", "S", "B"} THEN Rs1(w) ELSE insn.rs1,
               rs2 |-> IF p.type \in {"R", "S", "B"} THEN Rs2(w) ELSE insn.rs2,
               name |-> p.name, executor |-> p.executor]
  BY <1>3, <1>6 DEF InsnTypeOK
<1> QED
  BY <1>5, <1>7 DEF InsnTypeOK, Records

-----------------------------------------------------------------------------
LEMMA StoredIsWritten ==
  ASSUME registers = [r \in Registers |-> registers[r]], NEW v, NEW reads,
         registers' = Stored(v, reads)
  PROVE  [r \in Registers |-> Get(r)'] = [Gets EXCEPT ![insn.rd] = IF insn.rd = 0 THEN {} ELSE v]
BY RegistersAssumption DEF Stored, Accessed, Get, Gets

LEMMA Operations ==
  ASSUME NEW alt \in BOOLEAN, NEW a, NEW b, NEW width
  PROVE  LET n == Number(Low(b, IF width = 64 THEN 6 ELSE 5))
         IN  /\ Operation(Bits(0), alt, a, b, width) =
                  IF alt THEN Sub(a, b, width) ELSE Add(a, b, width)
             /\ Operation(Bits(1), alt, a, b, width) = ShiftLeft(a, n, width)
             /\ Operation(Bits(2), alt, a, b, width) = Truth(LessSigned(a, b, width))
             /\ Operation(Bits(3), alt, a, b, width) = Truth(LessUnsigned(a, b))
             /\ Operation(Bits(4), alt, a, b, width) = Xor(a, b)
             /\ Operation(Bits(5), alt, a, b, width) =
                  IF alt THEN ShiftRightSigned(a, n, width) ELSE ShiftRight(a, n)
             /\ Operation(Bits(6), alt, a, b, width) = Or(a, b)
             /\ Operation(Bits(7), alt, a, b, width) = And(a, b)
<1>1. \A i, j \in {0, 1, 2, 3, 4, 5, 6, 7} : Bits(i) = Bits(j) => i = j
  BY Distinct3
<1> QED
  BY <1>1 DEF Operation

LEMMA Positions64 == Positions(64) = 0 .. 63
BY DEF Positions

LEMMA OperationIsWide ==
  ASSUME NEW alt \in BOOLEAN, NEW a \in SUBSET (0 .. 63), NEW b \in SUBSET (0 .. 63),
         NEW k \in 0 .. 7
  PROVE  Operation(Bits(k), alt, a, b, 64) \in SUBSET (0 .. 63)
<1> DEFINE n == Number(Low(b, 6))
<1>1. n \in 0 .. 63
  BY Numbers
<1> HIDE DEF n
<1>2. Sub(a, b, 64) \in SUBSET (0 .. 63) /\ Add(a, b, 64) \in SUBSET (0 .. 63)
  <2>1. \A c, d, carry : AddWithCarry(c, d, carry, 64) \in SUBSET (0 .. 63)
    BY Positions64 DEF AddWithCarry
  <2> QED
    BY <2>1 DEF Sub, Add
<1>3. ShiftLeft(a, n, 64) \in SUBSET (0 .. 63)
  BY DEF ShiftLeft, Positions
<1>4. ShiftRight(a, n) \in SUBSET (0 .. 63)
  BY <1>1 DEF ShiftRight
<1>5. ShiftRightSigned(a, n, 64) \in SUBSET (0 .. 63)
  BY <1>1, <1>4 DEF ShiftRightSigned
<1>6. /\ Truth(LessSigned(a, b, 64)) \in SUBSET (0 .. 63)
      /\ Truth(LessUnsigned(a, b)) \in SUBSET (0 .. 63)
  BY DEF Truth
<1>7. /\ Xor(a, b) \in SUBSET (0 .. 63) /\ Or(a, b) \in SUBSET (0 .. 63)
      /\ And(a, b) \in SUBSET (0 .. 63)
  BY DEF Xor, Or, And
<1>8. k \in {0, 1, 2, 3, 4, 5, 6, 7}
  OBVIOUS
<1> QED
  BY <1>2, <1>3, <1>4, <1>5, <1>6, <1>7, <1>8, Operations DEF n

LEMMA WideWords ==
  ASSUME NEW v \in SUBSET (0 .. 63)
  PROVE  Low(v, 64) = v /\ SignExtend(v, 64, 64) = v
<1>1. Low(v, 64) = v
  <2>1. v \cap (0 .. 63) = v
    OBVIOUS
  <2> QED
    BY <2>1, Positions64 DEF Low
<1>2. 64 .. 64 - 1 = {}
  OBVIOUS
<1> QED
  BY <1>1, <1>2 DEF SignExtend

(* An instruction of 64 bits, and one of 32, computes one of the eight     *)
(* operations.                                                             *)
LEMMA Wide ==
  ASSUME NEW w \in InsnWords, 3 \notin w, NEW x \in [Registers -> SUBSET (0 .. 63)],
         Rs1(w) \in Registers, 5 \in w => Rs2(w) \in Registers
  PROVE  Arithmetically(w, x) =
           Operation(Op3(w), 30 \in w /\ (5 \in w \/ Op3(w) = Bits(5)), x[Rs1(w)],
                     IF 5 \in w THEN x[Rs2(w)] ELSE ImmediateOf("I", w), 64)
<1> DEFINE second == IF 5 \in w THEN x[Rs2(w)] ELSE ImmediateOf("I", w)
           alt    == 30 \in w /\ (5 \in w \/ Op3(w) = Bits(5))
<1>1. x[Rs1(w)] \in SUBSET (0 .. 63) /\ second \in SUBSET (0 .. 63)
  BY DEF ImmediateOf, Positions
<1>2. Arithmetically(w, x) =
        SignExtend(Operation(Op3(w), alt, Low(x[Rs1(w)], 64), Low(second, 64), 64), 64, 64)
  BY DEF Arithmetically, IsRegister, Width
<1>3. alt \in BOOLEAN
  OBVIOUS
<1> HIDE DEF second, alt
<1>4. Low(x[Rs1(w)], 64) = x[Rs1(w)] /\ Low(second, 64) = second
  BY <1>1, WideWords
<1>5. Operation(Op3(w), alt, x[Rs1(w)], second, 64) \in SUBSET (0 .. 63)
  BY <1>1, <1>3, Op3Values, OperationIsWide
<1>6. Arithmetically(w, x) = Operation(Op3(w), alt, x[Rs1(w)], second, 64)
  BY <1>2, <1>4, <1>5, WideWords
<1> QED
  BY <1>6 DEF second, alt

LEMMA Narrow ==
  ASSUME NEW w, 3 \in w, NEW x
  PROVE  Arithmetically(w, x) =
           SignExtend(
             Operation(Op3(w), 30 \in w /\ (5 \in w \/ Op3(w) = Bits(5)), Low(x[Rs1(w)], 32),
                       Low(IF 5 \in w THEN x[Rs2(w)] ELSE ImmediateOf("I", w), 32), 32), 32, 64)
BY DEF Arithmetically, IsRegister, Width

-----------------------------------------------------------------------------
(* The executors by the kind of their instruction.                         *)
ImmediateNames == {"addi", "sltiu", "xori", "ori", "andi", "slli", "srli", "srai",
                   "addiw", "slliw", "srliw", "sraiw"}
RegisterNames == {"add", "sub", "sll", "slt", "sltu", "xor", "srl", "sra", "or", "and",
                  "addw", "subw", "sllw", "srlw", "sraw"}
BranchNames == {"beq", "bne", "blt", "bge", "bltu", "bgeu"}

LEMMA Executed ==
  /\ Executors(OpImm \cup OpImm32) = ImmediateNames
  /\ Executors(Op \cup Op32) = RegisterNames
  /\ Executors(Branch) = BranchNames
<1>1. \A type, name, executor, tests : Point(type, name, executor, tests).executor = executor
  BY DEF Point
<1>2. Executors(OpImm \cup OpImm32) = ImmediateNames
  BY <1>1 DEF Executors, OpImm, OpImm32, ImmediateNames
<1>3. Executors(Op \cup Op32) = RegisterNames
  BY <1>1 DEF Executors, Op, Op32, RegisterNames
<1>4. Executors(Branch) = BranchNames
  BY <1>1 DEF Executors, Branch, BranchNames
<1> QED
  BY <1>2, <1>3, <1>4

(* What an instruction word means, by its opcode.                          *)
LEMMA AfterWord ==
  ASSUME NEW w, NEW x, NEW counter
  PROVE  /\ Opcode(w) \in Arithmetic =>
              After(w, x, counter) = <<Written(w, x, Arithmetically(w, x)), counter>>
         /\ Opcode(w) = Bits(55) =>
              After(w, x, counter) = <<Written(w, x, ImmediateOf("U", w)), counter>>
         /\ Opcode(w) = Bits(23) =>
              After(w, x, counter) =
                <<Written(w, x, Add(counter, ImmediateOf("U", w), 64)), counter>>
         /\ Opcode(w) = Bits(111) =>
              After(w, x, counter) =
                <<Written(w, x, Add(counter, {2}, 64)), Add(counter, ImmediateOf("J", w), 64)>>
         /\ Opcode(w) = Bits(103) =>
              After(w, x, counter) =
                <<Written(w, x, Add(counter, {2}, 64)),
                  Add(x[Rs1(w)], ImmediateOf("I", w), 64) \ {0}>>
         /\ Opcode(w) = Bits(99) =>
              After(w, x, counter) =
                <<x, IF Branches(w, x) THEN Add(counter, ImmediateOf("B", w), 64) ELSE counter>>
<1>1. Bits(4) = {2}
  BY Literals3
<1>2. \A i, j \in {19, 27, 51, 59, 99, 55, 23, 111, 103} : Bits(i) = Bits(j) => i = j
  BY Literals7
<1>3. \A i \in {55, 23, 111, 103, 99} : Bits(i) \notin Arithmetic
  BY <1>2 DEF Arithmetic
<1>4. CASE Opcode(w) \in Arithmetic
  BY <1>3, <1>4 DEF After
<1>5. CASE Opcode(w) \in {Bits(55), Bits(23), Bits(111)}
  BY <1>1, <1>2, <1>3, <1>5 DEF After
<1>6. CASE Opcode(w) \in {Bits(103), Bits(99)}
  BY <1>1, <1>2, <1>3, <1>6 DEF After
<1> QED
  BY <1>4, <1>5, <1>6

LEMMA SameFields ==
  ASSUME NEW w, NEW v, NEW lo, NEW hi, w \cap (lo .. hi) = v \cap (lo .. hi)
  PROVE  Field(w, lo, hi) = Field(v, lo, hi)
BY DEF Field

(* The fields of a word that agrees with another one outside lo .. hi.     *)
LEMMA SameOutside ==
  ASSUME NEW w \in InsnWords, NEW v \in InsnWords, NEW lo \in 12 .. 25, NEW hi \in 14 .. 25,
         lo \in 12 .. 14 => hi = 14, lo \notin 12 .. 14 => lo = 20,
         \A i \in 0 .. 31 : i \notin lo .. hi => (i \in w <=> i \in v)
  PROVE  /\ Opcode(w) = Opcode(v) /\ Rd(w) = Rd(v) /\ Rs1(w) = Rs1(v)
         /\ lo = 20 => Op3(w) = Op3(v)
         /\ \A i \in {3, 5, 30} : i \in w <=> i \in v
<1>1. /\ w \cap (0 .. 6) = v \cap (0 .. 6)
      /\ w \cap (7 .. 11) = v \cap (7 .. 11)
      /\ w \cap (15 .. 19) = v \cap (15 .. 19)
      /\ lo = 20 => w \cap (12 .. 14) = v \cap (12 .. 14)
  OBVIOUS
<1>2. Field(w, 0, 6) = Field(v, 0, 6) /\ Field(w, 7, 11) = Field(v, 7, 11)
  BY <1>1, SameFields
<1>3. Field(w, 15, 19) = Field(v, 15, 19) /\ (lo = 20 => Field(w, 12, 14) = Field(v, 12, 14))
  BY <1>1, SameFields
<1> QED
  BY <1>2, <1>3, OpcodeField DEF Rd, Rs1, Op3

LEMMA Cut ==
  ASSUME NEW f, NEW g, NEW m \in Nat, f \subseteq 0 .. m, \A i \in 0 .. m : i \in f <=> i \in g
  PROVE  g \cap (0 .. m) = f
OBVIOUS

(* A shift by an immediate: the amount, and the bit that tells its kind.   *)
LEMMA Amounts ==
  ASSUME NEW w \in InsnWords
  PROVE  /\ Low(ImmediateOf("I", w), 6) = Field(w, 20, 25)
         /\ Low(ImmediateOf("I", w), 5) = Field(w, 20, 24)
         /\ Low(Low(ImmediateOf("I", w), 32), 5) = Field(w, 20, 24)
         /\ Field(w, 20, 24) = Low(Field(w, 20, 25), 5)
<1>1. /\ Field(w, 20, 25) \subseteq 0 .. 25 - 20
      /\ Field(w, 20, 24) \subseteq 0 .. 24 - 20
  BY FieldRange
<1>2. \A i \in 0 .. 5 : i \in Field(w, 20, 25) <=> i + 20 \in w /\ 0 <= i /\ i + 20 <= 25
  BY FieldBits
<1>3. \A i \in 0 .. 4 : i \in Field(w, 20, 24) <=> i + 20 \in w /\ 0 <= i /\ i + 20 <= 24
  BY FieldBits
<1>4. \A i \in 0 .. 5 : i \in ImmediateOf("I", w) <=> i + 20 \in w
  BY DEF ImmediateOf, Source, Positions
<1>5. Positions(6) = 0 .. 5 /\ Positions(5) = 0 .. 4 /\ Positions(32) = 0 .. 31
  BY DEF Positions
<1> DEFINE imm == ImmediateOf("I", w)
           f6  == Field(w, 20, 25)
           f5  == Field(w, 20, 24)
<1>6. /\ f6 \subseteq 0 .. 5 /\ f5 \subseteq 0 .. 4
      /\ \A i \in 0 .. 5 : i \in f6 <=> i \in imm
      /\ \A i \in 0 .. 4 : i \in f5 <=> i \in imm
  BY <1>1, <1>2, <1>3, <1>4
<1> HIDE DEF imm, f6, f5
<1>7. imm \cap (0 .. 5) = f6
  BY <1>6, Cut
<1>8. imm \cap (0 .. 4) = f5
  BY <1>6, Cut
<1>9. (imm \cap (0 .. 31)) \cap (0 .. 4) = imm \cap (0 .. 4)
  OBVIOUS
<1>10. f6 \cap (0 .. 4) = f5
  <2>1. \A i \in 0 .. 4 : i \in f5 <=> i \in f6
    BY <1>6
  <2> QED
    BY <1>6, <2>1, Cut
<1> QED
  BY <1>5, <1>7, <1>8, <1>9, <1>10 DEF Low, imm, f6, f5

LEMMA Alternatives ==
  ASSUME NEW w \in InsnWords
  PROVE  /\ Field(w, 26, 31) = Bits(16) => 30 \in w
         /\ Field(w, 26, 31) = Bits(0) => 30 \notin w
         /\ Top7(w) = Bits(32) => 30 \in w
         /\ Top7(w) = Bits(0) => 30 \notin w
<1>1. 4 \in Field(w, 26, 31) <=> 4 + 26 \in w /\ 0 <= 4 /\ 4 + 26 <= 31
  BY FieldBits
<1>2. 5 \in Field(w, 25, 31) <=> 5 + 25 \in w /\ 0 <= 5 /\ 5 + 25 <= 31
  BY FieldBits
<1> QED
  BY <1>1, <1>2, Literals3, Literals7 DEF Top7

-----------------------------------------------------------------------------
(* Execution.  What ExecutesItsWord says of a step, with the registers the *)
(* caller sees before it.                                                  *)
Restaled == {i \in word : i \notin 20 .. 25}
              \cup (insn.raw \cap (20 .. IF Width(word) = 64 THEN 25 ELSE 24))

Wanted ==
  CASE SetsLessThanImmediate -> After(word \ {13}, Gets, pc)
    [] ShiftsByStale -> After(Restaled, Gets, pc)
    [] LinksItsBase -> After(word, [Gets EXCEPT ![Rs1(word)] = Add(pc, {2}, 64)], pc)
    [] OTHER -> After(word, Gets, pc)

Seen == <<[r \in Registers |-> Get(r)'], pc'>>

LEMMA GetsTypes ==
  ASSUME CallerInv
  PROVE  /\ Gets \in [Registers -> SUBSET (0 .. 63)]
         /\ \A r \in Registers : Gets[r] = Get(r)
BY DEF CallerInv, Gets

(* The record of an instruction that computes with an immediate, and what  *)
(* executing it stores.                                                    *)
LEMMA StoresResult ==
  ASSUME CallerInv, ~done, Execute, Opcode(word) \in {Bits(19), Bits(27)}
  PROVE  LET v == ImmediateResult(insn.executor, Gets[Rs1(word)], ImmediateOf("I", word))
         IN  /\ Seen = <<Written(word, Gets, v), pc>>
             /\ Rs1(word) \in Registers
             /\ 5 \notin word
             /\ Opcode(word) = Bits(27) <=> 3 \in word
             /\ \E p : /\ p \in (IF 3 \in word THEN OpImm32 ELSE OpImm) /\ Fits(word, p)
                       /\ insn.executor = p.executor
<1>1. PICK p : Records(word, p)
  BY DEF CallerInv
<1>2. word \in InsnWords /\ registers = [r \in Registers |-> registers[r]]
  BY DEF CallerInv
<1>3. /\ Opcode(word) = Bits(19) => 3 \notin word /\ 5 \notin word
      /\ Opcode(word) = Bits(27) => 3 \in word /\ 5 \notin word
  BY Literals7 DEF Opcode, Low, Positions
<1>4. p \in (IF 3 \in word THEN OpImm32 ELSE OpImm) /\ Fits(word, p)
  BY <1>1, <1>2, <1>3, AcceptedGroups, CodeGroups DEF Records
<1>5. p.type = "I" /\ p.executor \in ImmediateNames
  <2>1. CASE p \in OpImm
    BY <1>4, <2>1, OpImmPoints DEF Point, ImmediateNames
  <2>2. CASE p \in OpImm32
    BY <1>4, <2>2, OpImm32Points DEF Point, ImmediateNames
  <2> QED
    BY <1>4, <2>1, <2>2
<1>6. /\ insn.executor = p.executor /\ insn.rd = Rd(word) /\ insn.rs1 = Rs1(word)
      /\ insn.imm = ImmediateOf("I", word) /\ Rs1(word) \in Registers
  BY <1>1, <1>5 DEF Records
<1>7. /\ registers' = Stored(ImmediateResult(insn.executor, Get(insn.rs1), insn.imm), {insn.rs1})
      /\ pc' = pc
  <2>1. insn.executor \notin RegisterNames \cup BranchNames \cup {"lui", "auipc", "jal", "jalr"}
    BY <1>5, <1>6 DEF ImmediateNames, RegisterNames, BranchNames
  <2> QED
    BY <2>1, Executed DEF Execute
<1>8. Gets[Rs1(word)] = Get(insn.rs1)
  BY <1>6, GetsTypes
<1> DEFINE v == ImmediateResult(insn.executor, Gets[Rs1(word)], ImmediateOf("I", word))
<1>9. registers' = Stored(v, {insn.rs1})
  BY <1>6, <1>7, <1>8
<1> HIDE DEF v
<1>10. [r \in Registers |-> Get(r)'] = Written(word, Gets, v)
  BY <1>2, <1>6, <1>9, StoredIsWritten DEF Written
<1>11. Seen = <<Written(word, Gets, v), pc>>
  BY <1>7, <1>10 DEF Seen
<1> QED
  BY <1>3, <1>4, <1>6, <1>11 DEF v

(* Computing the same for another word with the same registers.            *)
LEMMA MeansResult ==
  ASSUME NEW w, NEW v, Opcode(w) = Opcode(word), Opcode(w) \in Arithmetic, Rd(w) = Rd(word),
         Arithmetically(w, Gets) = v
  PROVE  After(w, Gets, pc) = <<Written(word, Gets, v), pc>>
BY AfterWord DEF Written

LEMMA ImmediateResults ==
  ASSUME NEW a, NEW imm
  PROVE  /\ ImmediateResult("addi", a, imm) = Add(a, imm, 64)
         /\ ImmediateResult("sltiu", a, imm) = Truth(LessUnsigned(a, imm))
         /\ ImmediateResult("andi", a, imm) = And(a, imm)
         /\ ImmediateResult("ori", a, imm) = Or(a, imm)
         /\ ImmediateResult("xori", a, imm) = Xor(a, imm)
         /\ ImmediateResult("slli", a, imm) = ShiftLeft(a, SHAMT6, 64)
         /\ ImmediateResult("srli", a, imm) = ShiftRight(a, SHAMT6)
         /\ ImmediateResult("srai", a, imm) = ShiftRightSigned(a, SHAMT6, 64)
         /\ ImmediateResult("addiw", a, imm) =
              SignExtend(Add(Low(a, 32), Low(imm, 32), 32), 32, 64)
         /\ ImmediateResult("slliw", a, imm) =
              SignExtend(ShiftLeft(Low(a, 32), SHAMT5, 32), 32, 64)
         /\ ImmediateResult("srliw", a, imm) =
              SignExtend(ShiftRight(Low(a, 32), SHAMT5), 32, 64)
         /\ ImmediateResult("sraiw", a, imm) =
              SignExtend(ShiftRightSigned(Low(a, 32), SHAMT5, 32), 32, 64)
BY DEF ImmediateResult

LEMMA RestaledWord ==
  ASSUME CallerInv, Opcode(word) \in {Bits(19), Bits(27)}
  PROVE  /\ Restaled \in InsnWords
         /\ Opcode(Restaled) = Opcode(word) /\ Rd(Restaled) = Rd(word) /\ Rs1(Restaled) = Rs1(word)
         /\ Op3(Restaled) = Op3(word)
         /\ \A i \in {3, 5, 30} : i \in Restaled <=> i \in word
         /\ 3 \notin word => Field(Restaled, 20, 25) = Field(insn.raw, 20, 25)
         /\ Field(Restaled, 20, 24) = Field(insn.raw, 20, 24)
<1>1. word \in InsnWords /\ insn.raw \in InsnWords
  BY DEF CallerInv, InsnTypeOK
<1>2. Restaled = {i \in word : i \notin 20 .. 25}
                   \cup (insn.raw \cap (20 .. IF 3 \in word THEN 24 ELSE 25))
  BY DEF Restaled, Width
<1>3. Restaled \in InsnWords
  BY <1>1, <1>2 DEF InsnWords
<1>4. \A i \in 0 .. 31 : i \notin 20 .. 25 => (i \in Restaled <=> i \in word)
  BY <1>1, <1>2
<1>5. /\ 3 \notin word => Restaled \cap (20 .. 25) = insn.raw \cap (20 .. 25)
      /\ Restaled \cap (20 .. 24) = insn.raw \cap (20 .. 24)
  BY <1>1, <1>2
<1> HIDE DEF Restaled
<1>6. 20 \in 12 .. 25 /\ 25 \in 14 .. 25 /\ 20 \notin 12 .. 14
  OBVIOUS
<1>7. /\ Opcode(Restaled) = Opcode(word) /\ Rd(Restaled) = Rd(word) /\ Rs1(Restaled) = Rs1(word)
      /\ Op3(Restaled) = Op3(word)
      /\ \A i \in {3, 5, 30} : i \in Restaled <=> i \in word
  BY <1>1, <1>3, <1>4, <1>6, SameOutside
<1>8. /\ 3 \notin word => Field(Restaled, 20, 25) = Field(insn.raw, 20, 25)
      /\ Field(Restaled, 20, 24) = Field(insn.raw, 20, 24)
  BY <1>5, SameFields
<1> QED
  BY <1>3, <1>7, <1>8

LEMMA Unset13 ==
  ASSUME NEW w \in InsnWords, Op3(w) = Bits(2)
  PROVE  /\ w \ {13} \in InsnWords
         /\ Opcode(w \ {13}) = Opcode(w) /\ Rd(w \ {13}) = Rd(w) /\ Rs1(w \ {13}) = Rs1(w)
         /\ Op3(w \ {13}) = Bits(0)
         /\ \A i \in {3, 5, 30} : i \in w \ {13} <=> i \in w
         /\ ImmediateOf("I", w \ {13}) = ImmediateOf("I", w)
<1> DEFINE v == w \ {13}
<1>1. v \in InsnWords /\ \A i \in 0 .. 31 : i \notin 12 .. 14 => (i \in v <=> i \in w)
  BY DEF InsnWords
<1>2. 13 \notin v /\ (12 \in v <=> 12 \in w) /\ (14 \in v <=> 14 \in w)
  OBVIOUS
<1> HIDE DEF v
<1>3. 12 \in 12 .. 25 /\ 14 \in 14 .. 25
  OBVIOUS
<1>4. /\ Opcode(v) = Opcode(w) /\ Rd(v) = Rd(w) /\ Rs1(v) = Rs1(w)
      /\ \A i \in {3, 5, 30} : i \in v <=> i \in w
  BY <1>1, <1>3, SameOutside
<1>5. Op3(v) = {}
  <2>1. \A i \in 0 .. 2 : i \in Op3(w) <=> i + 12 \in w
    BY FieldBits DEF Op3
  <2>2. \A i \in 0 .. 2 : i \in Op3(v) <=> i + 12 \in v
    BY <1>1, FieldBits DEF Op3
  <2>3. Op3(v) \subseteq 0 .. 14 - 12
    BY <1>1, FieldRange DEF Op3
  <2>4. 0 \notin Op3(w) /\ 2 \notin Op3(w)
    BY Literals3
  <2> QED
    BY <1>2, <2>1, <2>2, <2>3, <2>4
<1>6. ImmediateOf("I", v) = ImmediateOf("I", w)
  <2>1. \A i \in 0 .. 63 : Source("I", i) \in 20 .. 31
    BY DEF Source
  <2> QED
    BY <1>1, <2>1, Positions64 DEF ImmediateOf
<1> QED
  BY <1>1, <1>4, <1>5, <1>6, Literals3 DEF v

LEMMA ExecutesWide ==
  ASSUME CallerInv, ~done, Execute, Opcode(word) = Bits(19)
  PROVE  Seen = Wanted
<1> DEFINE a   == Gets[Rs1(word)]
           imm == ImmediateOf("I", word)
           v   == ImmediateResult(insn.executor, a, imm)
<1>1. /\ Seen = <<Written(word, Gets, v), pc>>
      /\ Rs1(word) \in Registers
      /\ 3 \notin word /\ 5 \notin word
  BY StoresResult, Literals7
<1>2. PICK p : p \in OpImm /\ Fits(word, p) /\ insn.executor = p.executor
  BY <1>1, StoresResult
<1>3. word \in InsnWords /\ insn.raw \in InsnWords /\ Gets \in [Registers -> SUBSET (0 .. 63)]
  BY GetsTypes DEF CallerInv, InsnTypeOK
<1>4. Opcode(word) \in Arithmetic /\ Opcode(word) # Bits(103) /\ ~LinksItsBase
  BY Literals7 DEF Arithmetic, LinksItsBase
<1>5. \A i, j \in {0, 1, 2, 3, 4, 5, 6, 7} : Bits(i) = Bits(j) => i = j
  BY Distinct3
<1>6. CASE Op3(word) \notin {Bits(1), Bits(2), Bits(5)}
  <2>1. Wanted = After(word, Gets, pc)
    BY <1>4, <1>6 DEF Wanted, SetsLessThanImmediate, ShiftsByStale, IsShift
  <2> DEFINE alt == 30 \in word /\ (5 \in word \/ Op3(word) = Bits(5))
  <2>2. Arithmetically(word, Gets) = Operation(Op3(word), alt, a, imm, 64)
    BY <1>1, <1>3, Wide
  <2>3. alt \in BOOLEAN /\ ~alt
    BY <1>1, <1>6
  <2>4. v = Operation(Op3(word), alt, a, imm, 64)
    <3> HIDE DEF a, imm, alt
    <3>1. \/ insn.executor = "addi" /\ Op3(word) = Bits(0)
          \/ insn.executor = "sltiu" /\ Op3(word) = Bits(3)
          \/ insn.executor = "xori" /\ Op3(word) = Bits(4)
          \/ insn.executor = "ori" /\ Op3(word) = Bits(6)
          \/ insn.executor = "andi" /\ Op3(word) = Bits(7)
      BY <1>2, <1>6, OpImmPoints DEF Point
    <3>2. /\ Operation(Bits(0), alt, a, imm, 64) = Add(a, imm, 64)
          /\ Operation(Bits(3), alt, a, imm, 64) = Truth(LessUnsigned(a, imm))
          /\ Operation(Bits(4), alt, a, imm, 64) = Xor(a, imm)
          /\ Operation(Bits(6), alt, a, imm, 64) = Or(a, imm)
          /\ Operation(Bits(7), alt, a, imm, 64) = And(a, imm)
      BY <2>3, Operations
    <3> QED
      BY <3>1, <3>2, ImmediateResults
  <2> QED
    BY <1>1, <1>4, <2>1, <2>2, <2>4, MeansResult
<1>7. CASE Op3(word) = Bits(2)
  <2>1. Wanted = After(word \ {13}, Gets, pc)
    <3>1. ~ShiftsByStale
      BY <1>5, <1>7 DEF ShiftsByStale, IsShift
    <3> QED
      BY <1>4, <1>7, <3>1 DEF Wanted, SetsLessThanImmediate
  <2>2. insn.executor = "addi"
    BY <1>2, <1>5, <1>7, OpImmPoints DEF Point
  <2>3. v = Add(a, imm, 64)
    BY <2>2, ImmediateResults
  <2>4. Arithmetically(word \ {13}, Gets) = Operation(Bits(0), FALSE, a, imm, 64)
    <3> DEFINE w == word \ {13}
    <3>1. Bits(0) # Bits(5)
      BY <1>5
    <3>2. /\ w \in InsnWords /\ Rs1(w) = Rs1(word) /\ Op3(w) = Bits(0)
          /\ 3 \notin w /\ 5 \notin w /\ ImmediateOf("I", w) = imm
      BY <1>1, <1>3, <1>7, Unset13
    <3> HIDE DEF w
    <3>3. Arithmetically(w, Gets) = Operation(Bits(0), FALSE, a, imm, 64)
      <4> DEFINE alt == 30 \in w /\ (5 \in w \/ Op3(w) = Bits(5))
      <4>1. alt = FALSE
        BY <3>1, <3>2
      <4>2. Arithmetically(w, Gets) = Operation(Op3(w), alt, Gets[Rs1(w)], imm, 64)
        BY <1>1, <1>3, <3>2, Wide
      <4> HIDE DEF alt
      <4> QED
        BY <3>2, <4>1, <4>2
    <3> QED
      BY <3>3 DEF w
  <2>5. Arithmetically(word \ {13}, Gets) = v
    <3> DEFINE no == FALSE
    <3>1. no \in BOOLEAN /\ ~no /\ Arithmetically(word \ {13}, Gets) = Operation(Bits(0), no, a, imm, 64)
      BY <2>4
    <3> HIDE DEF no, a, imm, v
    <3>2. Operation(Bits(0), no, a, imm, 64) = Add(a, imm, 64)
      BY <3>1, Operations
    <3> QED
      BY <2>3, <3>1, <3>2
  <2> QED
    BY <1>1, <1>3, <1>4, <1>7, <2>1, <2>5, MeansResult, Unset13
<1>8. CASE Op3(word) \in {Bits(1), Bits(5)}
  <2> DEFINE n == Number(Field(insn.raw, 20, 25))
  <2>1. v = IF Op3(word) = Bits(1) THEN ShiftLeft(a, n, 64)
            ELSE IF 30 \in word THEN ShiftRightSigned(a, n, 64) ELSE ShiftRight(a, n)
    <3> HIDE DEF a, imm
    <3>1. \/ insn.executor = "slli" /\ Op3(word) = Bits(1)
          \/ insn.executor = "srli" /\ Op3(word) = Bits(5) /\ 30 \notin word
          \/ insn.executor = "srai" /\ Op3(word) = Bits(5) /\ 30 \in word
      BY <1>2, <1>3, <1>5, <1>8, OpImmPoints, Alternatives DEF Point
    <3>2. Bits(1) # Bits(5)
      BY <1>5
    <3> QED
      BY <3>1, <3>2, ImmediateResults DEF SHAMT6
  <2> DEFINE w == IF ShiftsByStale THEN Restaled ELSE word
  <2>2. /\ w \in InsnWords
        /\ Opcode(w) = Opcode(word) /\ Rd(w) = Rd(word) /\ Rs1(w) = Rs1(word) /\ Op3(w) = Op3(word)
        /\ \A i \in {3, 5, 30} : i \in w <=> i \in word
    BY <1>3, RestaledWord
  <2>3. Field(w, 20, 25) = Field(insn.raw, 20, 25)
    BY <1>1, <1>8, RestaledWord DEF ShiftsByStale, IsShift
  <2>4. Wanted = After(w, Gets, pc)
    <3>1. ~SetsLessThanImmediate
      BY <1>5, <1>8 DEF SetsLessThanImmediate
    <3> QED
      BY <1>4, <3>1 DEF Wanted
  <2> HIDE DEF w
  <2>5. Number(Low(ImmediateOf("I", w), 6)) = n
    BY <2>2, <2>3, Amounts
  <2>6. Arithmetically(w, Gets) =
          Operation(Op3(word), 30 \in word /\ Op3(word) = Bits(5), a, ImmediateOf("I", w), 64)
    BY <1>1, <1>3, <2>2, Wide
  <2>7. Arithmetically(w, Gets) = v
    <3> DEFINE b == ImmediateOf("I", w)
    <3> HIDE DEF a, b, v, n
    <3>1. CASE Op3(word) = Bits(1)
      <4>1. \A alt \in BOOLEAN : Operation(Bits(1), alt, a, b, 64) = ShiftLeft(a, n, 64)
        BY <2>5, Operations DEF b
      <4> QED
        BY <2>1, <2>6, <3>1, <4>1 DEF b
    <3>2. CASE Op3(word) = Bits(5)
      <4>1. \A alt \in BOOLEAN : Operation(Bits(5), alt, a, b, 64) =
                                IF alt THEN ShiftRightSigned(a, n, 64) ELSE ShiftRight(a, n)
        BY <2>5, Operations DEF b
      <4>2. Bits(1) # Bits(5)
        BY <1>5
      <4> QED
        BY <2>1, <2>6, <3>2, <4>1, <4>2 DEF b
    <3> QED
      BY <1>8, <3>1, <3>2
  <2> QED
    BY <1>1, <1>4, <2>2, <2>4, <2>7, MeansResult
<1> QED
  BY <1>6, <1>7, <1>8

LEMMA ExecutesNarrow ==
  ASSUME CallerInv, ~done, Execute, Opcode(word) = Bits(27)
  PROVE  Seen = Wanted
<1> DEFINE a   == Gets[Rs1(word)]
           imm == ImmediateOf("I", word)
           v   == ImmediateResult(insn.executor, a, imm)
<1>1. /\ Seen = <<Written(word, Gets, v), pc>>
      /\ 3 \in word /\ 5 \notin word
  BY StoresResult
<1>2. PICK p : p \in OpImm32 /\ Fits(word, p) /\ insn.executor = p.executor
  BY <1>1, StoresResult
<1>3. word \in InsnWords /\ insn.raw \in InsnWords
  BY DEF CallerInv, InsnTypeOK
<1>4. Opcode(word) \in Arithmetic /\ ~LinksItsBase /\ ~SetsLessThanImmediate
  BY Literals7 DEF Arithmetic, LinksItsBase, SetsLessThanImmediate
<1>5. \A i, j \in {0, 1, 2, 3, 4, 5, 6, 7} : Bits(i) = Bits(j) => i = j
  BY Distinct3
<1>6. \/ insn.executor = "addiw" /\ Op3(word) = Bits(0)
      \/ insn.executor = "slliw" /\ Op3(word) = Bits(1)
      \/ insn.executor = "srliw" /\ Op3(word) = Bits(5) /\ 30 \notin word
      \/ insn.executor = "sraiw" /\ Op3(word) = Bits(5) /\ 30 \in word
  BY <1>2, <1>3, OpImm32Points, Alternatives DEF Point
<1>7. CASE Op3(word) = Bits(0)
  <2> DEFINE alt == 30 \in word /\ (5 \in word \/ Op3(word) = Bits(5))
  <2>1. Wanted = After(word, Gets, pc)
    BY <1>4, <1>5, <1>7 DEF Wanted, ShiftsByStale, IsShift
  <2>2. alt \in BOOLEAN /\ ~alt
    BY <1>1, <1>5, <1>7
  <2>3. Arithmetically(word, Gets) =
          SignExtend(Operation(Bits(0), alt, Low(a, 32), Low(imm, 32), 32), 32, 64)
    BY <1>1, <1>7, Narrow
  <2>4. v = SignExtend(Add(Low(a, 32), Low(imm, 32), 32), 32, 64)
    <3>1. insn.executor = "addiw"
      BY <1>5, <1>6, <1>7
    <3> QED
      BY <3>1, ImmediateResults
  <2> HIDE DEF alt, v
  <2>5. Arithmetically(word, Gets) = v
    BY <2>2, <2>3, <2>4, Operations
  <2> QED
    BY <1>1, <1>4, <2>1, <2>5, MeansResult
<1>8. CASE Op3(word) \in {Bits(1), Bits(5)}
  <2> DEFINE n == Number(Field(insn.raw, 20, 24))
             c == Low(a, 32)
  <2>1. v = SignExtend(IF Op3(word) = Bits(1) THEN ShiftLeft(c, n, 32)
                       ELSE IF 30 \in word THEN ShiftRightSigned(c, n, 32) ELSE ShiftRight(c, n),
                       32, 64)
    <3> HIDE DEF a, imm
    <3>1. \/ insn.executor = "slliw" /\ Op3(word) = Bits(1)
          \/ insn.executor = "srliw" /\ Op3(word) = Bits(5) /\ 30 \notin word
          \/ insn.executor = "sraiw" /\ Op3(word) = Bits(5) /\ 30 \in word
      BY <1>5, <1>6, <1>8
    <3>2. Bits(1) # Bits(5)
      BY <1>5
    <3> QED
      BY <3>1, <3>2, ImmediateResults DEF SHAMT5
  <2> DEFINE w == IF ShiftsByStale THEN Restaled ELSE word
  <2>2. /\ w \in InsnWords
        /\ Opcode(w) = Opcode(word) /\ Rd(w) = Rd(word) /\ Rs1(w) = Rs1(word) /\ Op3(w) = Op3(word)
        /\ \A i \in {3, 5, 30} : i \in w <=> i \in word
    BY <1>3, RestaledWord
  <2>3. Field(w, 20, 24) = Field(insn.raw, 20, 24)
    BY <1>3, <1>8, RestaledWord, Amounts DEF ShiftsByStale, IsShift
  <2>4. Wanted = After(w, Gets, pc)
    BY <1>4 DEF Wanted
  <2> HIDE DEF w
  <2> DEFINE b == Low(ImmediateOf("I", w), 32)
             alt == 30 \in word /\ Op3(word) = Bits(5)
  <2>5. Number(Low(b, 5)) = n
    BY <2>2, <2>3, Amounts
  <2>6. Arithmetically(w, Gets) = SignExtend(Operation(Op3(word), alt, c, b, 32), 32, 64)
    BY <1>1, <2>2, Narrow
  <2>7. Arithmetically(w, Gets) = v
    <3>1. alt \in BOOLEAN /\ (alt <=> 30 \in word /\ Op3(word) = Bits(5))
      OBVIOUS
    <3> HIDE DEF b, c, v, n, alt
    <3>2. CASE Op3(word) = Bits(1)
      <4>1. Operation(Bits(1), alt, c, b, 32) = ShiftLeft(c, n, 32)
        BY <2>5, <3>1, Operations
      <4> QED
        BY <2>1, <2>6, <3>2, <4>1
    <3>3. CASE Op3(word) = Bits(5)
      <4>1. Operation(Bits(5), alt, c, b, 32) =
              IF alt THEN ShiftRightSigned(c, n, 32) ELSE ShiftRight(c, n)
        BY <2>5, <3>1, Operations
      <4>2. Bits(1) # Bits(5)
        BY <1>5
      <4> QED
        BY <2>1, <2>6, <3>1, <3>3, <4>1, <4>2
    <3> QED
      BY <1>8, <3>2, <3>3
  <2> QED
    BY <1>1, <1>4, <2>2, <2>4, <2>7, MeansResult
<1> QED
  BY <1>6, <1>7, <1>8

LEMMA RegisterResults ==
  ASSUME NEW a, NEW b
  PROVE  /\ RegisterResult("add", a, b) = Add(a, b, 64)
         /\ RegisterResult("sub", a, b) = Sub(a, b, 64)
         /\ RegisterResult("slt", a, b) = Truth(LessSigned(a, b, 64))
         /\ RegisterResult("sltu", a, b) = Truth(LessUnsigned(a, b))
         /\ RegisterResult("and", a, b) = And(a, b)
         /\ RegisterResult("or", a, b) = Or(a, b)
         /\ RegisterResult("xor", a, b) = Xor(a, b)
         /\ RegisterResult("sll", a, b) = ShiftLeft(a, Number(Low(b, 6)), 64)
         /\ RegisterResult("srl", a, b) = ShiftRight(a, Number(Low(b, 6)))
         /\ RegisterResult("sra", a, b) = ShiftRightSigned(a, Number(Low(b, 6)), 64)
BY DEF RegisterResult

LEMMA RegisterResultsNarrow ==
  ASSUME NEW a, NEW b
  PROVE  /\ RegisterResult("addw", a, b) = SignExtend(Add(Low(a, 32), Low(b, 32), 32), 32, 64)
         /\ RegisterResult("subw", a, b) = SignExtend(Sub(Low(a, 32), Low(b, 32), 32), 32, 64)
         /\ RegisterResult("sllw", a, b) =
              SignExtend(ShiftLeft(Low(a, 32), Number(Low(b, 5)), 32), 32, 64)
         /\ RegisterResult("srlw", a, b) =
              SignExtend(ShiftRight(Low(a, 32), Number(Low(b, 5))), 32, 64)
         /\ RegisterResult("sraw", a, b) =
              SignExtend(ShiftRightSigned(Low(a, 32), Number(Low(b, 5)), 32), 32, 64)
BY DEF RegisterResult

LEMMA ExecutesRegister ==
  ASSUME CallerInv, ~done, Execute, Opcode(word) \in {Bits(51), Bits(59)}
  PROVE  Seen = Wanted
<1>1. PICK p : Records(word, p)
  BY DEF CallerInv
<1>2. word \in InsnWords /\ registers = [r \in Registers |-> registers[r]]
  BY DEF CallerInv
<1>3. /\ Opcode(word) = Bits(51) => 3 \notin word /\ 5 \in word
      /\ Opcode(word) = Bits(59) => 3 \in word /\ 5 \in word
  BY Literals7 DEF Opcode, Low, Positions
<1>4. p \in (IF 3 \in word THEN Op32 ELSE Op) /\ Fits(word, p)
  BY <1>1, <1>2, <1>3, AcceptedGroups, CodeGroups DEF Records
<1>5. p.type = "R" /\ p.executor \in RegisterNames
  <2>1. CASE p \in Op
    BY <1>4, <2>1, OpPoints DEF Point, RegisterNames
  <2>2. CASE p \in Op32
    BY <1>4, <2>2, Op32Points DEF Point, RegisterNames
  <2> QED
    BY <1>4, <2>1, <2>2
<1>6. /\ insn.executor = p.executor /\ insn.rd = Rd(word)
      /\ insn.rs1 = Rs1(word) /\ insn.rs2 = Rs2(word)
      /\ Rs1(word) \in Registers /\ Rs2(word) \in Registers
  BY <1>1, <1>5 DEF Records
<1>7. /\ registers' = Stored(RegisterResult(insn.executor, Get(insn.rs1), Get(insn.rs2)),
                             {insn.rs1, insn.rs2})
      /\ pc' = pc
  <2>1. insn.executor \notin ImmediateNames \cup BranchNames \cup {"lui", "auipc", "jal", "jalr"}
    BY <1>5, <1>6 DEF ImmediateNames, RegisterNames, BranchNames
  <2> QED
    BY <2>1, Executed DEF Execute
<1> DEFINE a == Gets[Rs1(word)]
           b == Gets[Rs2(word)]
           v == RegisterResult(insn.executor, a, b)
           alt == 30 \in word /\ (5 \in word \/ Op3(word) = Bits(5))
<1>8. Get(insn.rs1) = a /\ Get(insn.rs2) = b
  BY <1>6, GetsTypes
<1>9. Seen = <<Written(word, Gets, v), pc>>
  <2>1. registers' = Stored(v, {insn.rs1, insn.rs2})
    BY <1>7, <1>8
  <2> HIDE DEF v
  <2>2. [r \in Registers |-> Get(r)'] = Written(word, Gets, v)
    BY <1>2, <1>6, <2>1, StoredIsWritten DEF Written
  <2> QED
    BY <1>7, <2>2 DEF Seen
<1>10. Wanted = After(word, Gets, pc)
  <2>1. Opcode(word) \notin {Bits(19), Bits(27), Bits(103)}
    BY Literals7
  <2> QED
    BY <2>1 DEF Wanted, SetsLessThanImmediate, ShiftsByStale, LinksItsBase
<1>11. alt \in BOOLEAN /\ (alt <=> 30 \in word)
  BY <1>3
<1>12. Arithmetically(word, Gets) = v
  <2>1. CASE 3 \notin word
    <3>1. \/ insn.executor = "add" /\ Op3(word) = Bits(0) /\ 30 \notin word
          \/ insn.executor = "sub" /\ Op3(word) = Bits(0) /\ 30 \in word
          \/ insn.executor = "sll" /\ Op3(word) = Bits(1)
          \/ insn.executor = "slt" /\ Op3(word) = Bits(2)
          \/ insn.executor = "sltu" /\ Op3(word) = Bits(3)
          \/ insn.executor = "xor" /\ Op3(word) = Bits(4)
          \/ insn.executor = "srl" /\ Op3(word) = Bits(5) /\ 30 \notin word
          \/ insn.executor = "sra" /\ Op3(word) = Bits(5) /\ 30 \in word
          \/ insn.executor = "or" /\ Op3(word) = Bits(6)
          \/ insn.executor = "and" /\ Op3(word) = Bits(7)
      BY <1>2, <1>4, <1>6, <2>1, OpPoints, Alternatives DEF Point
    <3>2. Arithmetically(word, Gets) = Operation(Op3(word), alt, a, b, 64)
      BY <1>2, <1>3, <1>6, <2>1, GetsTypes, Wide
    <3> HIDE DEF a, b, alt
    <3>3. /\ Operation(Bits(0), alt, a, b, 64) = IF alt THEN Sub(a, b, 64) ELSE Add(a, b, 64)
          /\ Operation(Bits(1), alt, a, b, 64) = ShiftLeft(a, Number(Low(b, 6)), 64)
          /\ Operation(Bits(2), alt, a, b, 64) = Truth(LessSigned(a, b, 64))
          /\ Operation(Bits(3), alt, a, b, 64) = Truth(LessUnsigned(a, b))
          /\ Operation(Bits(4), alt, a, b, 64) = Xor(a, b)
          /\ Operation(Bits(5), alt, a, b, 64) =
               IF alt THEN ShiftRightSigned(a, Number(Low(b, 6)), 64)
               ELSE ShiftRight(a, Number(Low(b, 6)))
          /\ Operation(Bits(6), alt, a, b, 64) = Or(a, b)
          /\ Operation(Bits(7), alt, a, b, 64) = And(a, b)
      BY <1>11, Operations
    <3> QED
      BY <1>11, <3>1, <3>2, <3>3, RegisterResults
  <2>2. CASE 3 \in word
    <3> DEFINE c == Low(a, 32)
               d == Low(b, 32)
    <3>1. \/ insn.executor = "addw" /\ Op3(word) = Bits(0) /\ 30 \notin word
          \/ insn.executor = "subw" /\ Op3(word) = Bits(0) /\ 30 \in word
          \/ insn.executor = "sllw" /\ Op3(word) = Bits(1)
          \/ insn.executor = "srlw" /\ Op3(word) = Bits(5) /\ 30 \notin word
          \/ insn.executor = "sraw" /\ Op3(word) = Bits(5) /\ 30 \in word
      BY <1>2, <1>4, <1>6, <2>2, Op32Points, Alternatives DEF Point
    <3>2. Arithmetically(word, Gets) = SignExtend(Operation(Op3(word), alt, c, d, 32), 32, 64)
      BY <1>3, <2>2, Narrow
    <3>3. Low(d, 5) = Low(b, 5)
      <4>1. (b \cap (0 .. 31)) \cap (0 .. 4) = b \cap (0 .. 4)
        OBVIOUS
      <4>2. Positions(32) = 0 .. 31 /\ Positions(5) = 0 .. 4
        BY DEF Positions
      <4> QED
        BY <4>1, <4>2 DEF Low
    <3> HIDE DEF a, b, alt
    <3>4. /\ Operation(Bits(0), alt, c, d, 32) = IF alt THEN Sub(c, d, 32) ELSE Add(c, d, 32)
          /\ Operation(Bits(1), alt, c, d, 32) = ShiftLeft(c, Number(Low(b, 5)), 32)
          /\ Operation(Bits(5), alt, c, d, 32) =
               IF alt THEN ShiftRightSigned(c, Number(Low(b, 5)), 32)
               ELSE ShiftRight(c, Number(Low(b, 5)))
      <4> HIDE DEF c, d
      <4> QED
        BY <1>11, <3>3, Operations
    <3> QED
      BY <1>11, <3>1, <3>2, <3>4, RegisterResultsNarrow
  <2> QED
    BY <2>1, <2>2
<1> HIDE DEF v
<1>13. Opcode(word) \in Arithmetic
  BY DEF Arithmetic
<1> QED
  BY <1>9, <1>10, <1>12, <1>13, MeansResult

LEMMA AddCommutes ==
  ASSUME NEW a, NEW b, NEW width
  PROVE  Add(a, b, width) = Add(b, a, width)
<1>1. Xor(a, b) = Xor(b, a) /\ a \cup b = b \cup a /\ a \cap b = b \cap a
  BY DEF Xor
<1>2. \A i : CarryInto(i, a, b, FALSE) = CarryInto(i, b, a, FALSE)
  BY <1>1 DEF CarryInto
<1> QED
  BY <1>1, <1>2 DEF Add, AddWithCarry

(* A branch holds by bit 12 against the comparison of its pair.            *)
LEMMA Branching ==
  ASSUME NEW w \in InsnWords, NEW x
  PROVE  LET a == x[Rs1(w)]
             b == x[Rs2(w)]
         IN  /\ Op3(w) = Bits(0) => (Branches(w, x) <=> a = b)
             /\ Op3(w) = Bits(1) => (Branches(w, x) <=> a # b)
             /\ Op3(w) = Bits(4) => (Branches(w, x) <=> LessSigned(a, b, 64))
             /\ Op3(w) = Bits(5) => (Branches(w, x) <=> ~LessSigned(a, b, 64))
             /\ Op3(w) = Bits(6) => (Branches(w, x) <=> LessUnsigned(a, b))
             /\ Op3(w) = Bits(7) => (Branches(w, x) <=> ~LessUnsigned(a, b))
<1>1. 0 \in Op3(w) <=> 12 \in w
  <2>1. 0 \in Field(w, 12, 14) <=> 0 + 12 \in w /\ 0 <= 0 /\ 0 + 12 <= 14
    BY FieldBits
  <2> QED
    BY <2>1 DEF Op3
<1>2. \A i, j \in {0, 1, 2, 3, 4, 5, 6, 7} : Bits(i) = Bits(j) => i = j
  BY Distinct3
<1>3. /\ 12 \notin w <=> 0 \notin Op3(w)
      /\ Op3(w) \in {Bits(0), Bits(4), Bits(6)} => 12 \notin w
      /\ Op3(w) \in {Bits(1), Bits(5), Bits(7)} => 12 \in w
  BY <1>1, Literals3
<1> DEFINE a == x[Rs1(w)]
           b == x[Rs2(w)]
           signed == LessSigned(a, b, 64)
           unsigned == LessUnsigned(a, b)
<1>4. signed \in BOOLEAN /\ unsigned \in BOOLEAN
  BY DEF LessSigned, LessUnsigned
<1>5. Branches(w, x) <=>
        (CASE Op3(w) \in {Bits(0), Bits(1)} -> a = b
           [] Op3(w) \in {Bits(4), Bits(5)} -> signed
           [] Op3(w) \in {Bits(6), Bits(7)} -> unsigned) # (12 \in w)
  BY DEF Branches
<1> HIDE DEF a, b, signed, unsigned
<1>6. CASE Op3(w) \in {Bits(0), Bits(1)}
  BY <1>2, <1>3, <1>5, <1>6 DEF a, b
<1>7. CASE Op3(w) \in {Bits(4), Bits(5)}
  BY <1>2, <1>3, <1>4, <1>5, <1>7 DEF a, b, signed
<1>8. CASE Op3(w) \in {Bits(6), Bits(7)}
  BY <1>2, <1>3, <1>4, <1>5, <1>8 DEF a, b, unsigned
<1> QED
  BY <1>2, <1>6, <1>7, <1>8

LEMMA NoException ==
  ASSUME Opcode(word) \in {Bits(99), Bits(55), Bits(23), Bits(111)}
  PROVE  Wanted = After(word, Gets, pc)
<1>1. Opcode(word) \notin {Bits(19), Bits(27), Bits(103)}
  BY Literals7
<1> QED
  BY <1>1 DEF Wanted, SetsLessThanImmediate, ShiftsByStale, LinksItsBase

LEMMA ExecutesBranch ==
  ASSUME CallerInv, ~done, Execute, Opcode(word) = Bits(99)
  PROVE  Seen = Wanted
<1>1. PICK p : Records(word, p)
  BY DEF CallerInv
<1>2. word \in InsnWords /\ registers = [r \in Registers |-> registers[r]]
  BY DEF CallerInv
<1>3. p \in Branch /\ Fits(word, p)
  BY <1>1, <1>2, AcceptedGroups, CodeGroups DEF Records
<1>4. /\ p.type = "B"
      /\ \/ p.executor = "beq" /\ Op3(word) = Bits(0)
         \/ p.executor = "bne" /\ Op3(word) = Bits(1)
         \/ p.executor = "blt" /\ Op3(word) = Bits(4)
         \/ p.executor = "bge" /\ Op3(word) = Bits(5)
         \/ p.executor = "bltu" /\ Op3(word) = Bits(6)
         \/ p.executor = "bgeu" /\ Op3(word) = Bits(7)
  BY <1>3, BranchPoints DEF Point
<1>5. /\ insn.executor = p.executor /\ insn.imm = ImmediateOf("B", word)
      /\ insn.rs1 = Rs1(word) /\ insn.rs2 = Rs2(word)
      /\ Rs1(word) \in Registers /\ Rs2(word) \in Registers
  BY <1>1, <1>4 DEF Records
<1> DEFINE a == Get(insn.rs1)
           b == Get(insn.rs2)
<1>6. /\ registers' = Accessed({insn.rs1, insn.rs2})
      /\ pc' = IF Taken(insn.executor, a, b) THEN Add(pc, insn.imm, 64) ELSE pc
  <2>1. insn.executor \notin ImmediateNames \cup RegisterNames \cup {"lui", "auipc", "jal", "jalr"}
    BY <1>4, <1>5 DEF ImmediateNames, RegisterNames
  <2> QED
    BY <2>1, Executed DEF Execute
<1>7. [r \in Registers |-> Get(r)'] = Gets
  BY <1>2, <1>6, RegistersAssumption DEF Accessed, Gets, Get
<1>8. Gets[Rs1(word)] = a /\ Gets[Rs2(word)] = b
  BY <1>5, GetsTypes
<1>9. Taken(insn.executor, a, b) <=> Branches(word, Gets)
  <2> HIDE DEF a, b
  <2>1. /\ Taken("beq", a, b) <=> a = b
        /\ Taken("bne", a, b) <=> a # b
        /\ Taken("blt", a, b) <=> LessSigned(a, b, 64)
        /\ Taken("bltu", a, b) <=> LessUnsigned(a, b)
        /\ Taken("bge", a, b) <=> ~LessSigned(a, b, 64)
        /\ Taken("bgeu", a, b) <=> ~LessUnsigned(a, b)
    BY DEF Taken
  <2>2. /\ Op3(word) = Bits(0) => (Branches(word, Gets) <=> a = b)
        /\ Op3(word) = Bits(1) => (Branches(word, Gets) <=> a # b)
        /\ Op3(word) = Bits(4) => (Branches(word, Gets) <=> LessSigned(a, b, 64))
        /\ Op3(word) = Bits(5) => (Branches(word, Gets) <=> ~LessSigned(a, b, 64))
        /\ Op3(word) = Bits(6) => (Branches(word, Gets) <=> LessUnsigned(a, b))
        /\ Op3(word) = Bits(7) => (Branches(word, Gets) <=> ~LessUnsigned(a, b))
    BY <1>2, <1>8, Branching
  <2> QED
    BY <1>4, <1>5, <2>1, <2>2
<1>10. After(word, Gets, pc) =
         <<Gets, IF Branches(word, Gets) THEN Add(pc, ImmediateOf("B", word), 64) ELSE pc>>
  BY AfterWord
<1>11. pc' = IF Branches(word, Gets) THEN Add(pc, ImmediateOf("B", word), 64) ELSE pc
  BY <1>5, <1>6, <1>9
<1> QED
  BY <1>7, <1>10, <1>11, NoException DEF Seen

LEMMA ExecutesUpper ==
  ASSUME CallerInv, ~done, Execute, Opcode(word) \in {Bits(55), Bits(23), Bits(111)}
  PROVE  Seen = Wanted
<1>1. PICK p : Records(word, p)
  BY DEF CallerInv
<1>2. word \in InsnWords /\ registers = [r \in Registers |-> registers[r]]
  BY DEF CallerInv
<1>3. p \in CodeGroup(Opcode(word))
  BY <1>1, <1>2, AcceptedGroups DEF Records
<1>4. \A type, name : /\ Point(type, name, name, {}).type = type
                      /\ Point(type, name, name, {}).executor = name
  BY DEF Point
<1>5. ASSUME NEW v, registers' = Stored(v, {}), insn.rd = Rd(word)
      PROVE  [r \in Registers |-> Get(r)'] = Written(word, Gets, v)
  BY <1>2, <1>5, StoredIsWritten DEF Written
<1>6. {"lui", "auipc", "jal"} \cap (ImmediateNames \cup RegisterNames \cup BranchNames) = {}
  BY DEF ImmediateNames, RegisterNames, BranchNames
<1>7. CASE Opcode(word) = Bits(55)
  <2>1. p.type = "U" /\ p.executor = "lui"
    BY <1>3, <1>4, <1>7, CodeGroups
  <2>2. insn.executor = "lui" /\ insn.rd = Rd(word) /\ insn.imm = ImmediateOf("U", word)
    BY <1>1, <2>1 DEF Records
  <2>3. registers' = Stored(insn.imm, {}) /\ pc' = pc
    BY <1>6, <2>2, Executed DEF Execute
  <2> QED
    BY <1>5, <1>7, <2>2, <2>3, AfterWord, NoException DEF Seen
<1>8. CASE Opcode(word) = Bits(23)
  <2>1. p.type = "U" /\ p.executor = "auipc"
    BY <1>3, <1>4, <1>8, CodeGroups
  <2>2. insn.executor = "auipc" /\ insn.rd = Rd(word) /\ insn.imm = ImmediateOf("U", word)
    BY <1>1, <2>1 DEF Records
  <2>3. registers' = Stored(Add(insn.imm, pc, 64), {}) /\ pc' = pc
    BY <1>6, <2>2, Executed DEF Execute
  <2> QED
    BY <1>5, <1>8, <2>2, <2>3, AddCommutes, AfterWord, NoException DEF Seen
<1>9. CASE Opcode(word) = Bits(111)
  <2>1. p.type = "J" /\ p.executor = "jal"
    BY <1>3, <1>4, <1>9, CodeGroups
  <2>2. insn.executor = "jal" /\ insn.rd = Rd(word) /\ insn.imm = ImmediateOf("J", word)
    BY <1>1, <2>1 DEF Records
  <2>3. registers' = Stored(Add(pc, {2}, 64), {}) /\ pc' = Add(pc, insn.imm, 64)
    BY <1>6, <2>2, Executed DEF Execute
  <2> QED
    BY <1>5, <1>9, <2>2, <2>3, AfterWord, NoException DEF Seen
<1> QED
  BY <1>7, <1>8, <1>9

LEMMA ExecutesJalr ==
  ASSUME CallerInv, ~done, Execute, Opcode(word) = Bits(103)
  PROVE  Seen = Wanted
<1>1. PICK p : Records(word, p)
  BY DEF CallerInv
<1>2. word \in InsnWords /\ registers = [r \in Registers |-> registers[r]]
  BY DEF CallerInv
<1>3. p \in Jalr /\ Fits(word, p)
  BY <1>1, <1>2, AcceptedGroups, CodeGroups DEF Records
<1>4. p.type = "I" /\ p.executor = "jalr"
  BY <1>3, JalrPoints DEF Point
<1>5. /\ insn.executor = "jalr" /\ insn.imm = ImmediateOf("I", word)
      /\ insn.rd = Rd(word) /\ insn.rs1 = Rs1(word) /\ Rs1(word) \in Registers
  BY <1>1, <1>4 DEF Records
<1> DEFINE link == Add(pc, {2}, 64)
<1>6. /\ registers' = [Stored(link, {}) EXCEPT ![0] = IF insn.rs1 = 0 THEN {} ELSE @]
      /\ pc' = JumpTarget
  <2>1. "jalr" \notin ImmediateNames \cup RegisterNames \cup BranchNames
    BY DEF ImmediateNames, RegisterNames, BranchNames
  <2> QED
    BY <1>5, <2>1, Executed DEF Execute
<1> HIDE DEF link
<1>7. [r \in Registers |-> Get(r)'] = Written(word, Gets, link)
  BY <1>2, <1>5, <1>6, RegistersAssumption DEF Stored, Accessed, Get, Gets, Written
<1>8. Gets[Rs1(word)] = Get(insn.rs1)
  BY <1>5, GetsTypes
<1>9. pc' = Add(IF Rd(word) = Rs1(word) /\ Rd(word) # 0 THEN link ELSE Gets[Rs1(word)],
                ImmediateOf("I", word), 64) \ {0}
  BY <1>5, <1>6, <1>8 DEF JumpTarget, link
<1>10. ~SetsLessThanImmediate /\ ~ShiftsByStale
  BY Literals7 DEF SetsLessThanImmediate, ShiftsByStale
<1>11. CASE LinksItsBase
  <2> DEFINE x == [Gets EXCEPT ![Rs1(word)] = link]
  <2>1. Wanted = After(word, x, pc)
    BY <1>10, <1>11 DEF Wanted, link
  <2>2. x[Rs1(word)] = link /\ Written(word, x, link) = Written(word, Gets, link)
    BY <1>5, <1>11 DEF LinksItsBase, Written, Gets
  <2> HIDE DEF x
  <2>3. Wanted = <<Written(word, Gets, link), Add(link, ImmediateOf("I", word), 64) \ {0}>>
    BY <2>1, <2>2, AfterWord DEF link
  <2> QED
    BY <1>7, <1>9, <1>11, <2>3 DEF Seen, LinksItsBase
<1>12. CASE ~LinksItsBase
  <2>1. Wanted = After(word, Gets, pc)
    BY <1>10, <1>12 DEF Wanted
  <2>2. Wanted =
          <<Written(word, Gets, link), Add(Gets[Rs1(word)], ImmediateOf("I", word), 64) \ {0}>>
    BY <2>1, AfterWord DEF link
  <2> QED
    BY <1>7, <1>9, <1>12, <2>2 DEF Seen, LinksItsBase
<1> QED
  BY <1>11, <1>12

LEMMA Executes ==
  ASSUME CallerInv, ~done, Execute
  PROVE  Seen = Wanted
<1>1. Opcode(word) \in Arithmetic \cup {Bits(99), Bits(55), Bits(23), Bits(111), Bits(103)}
  BY AcceptedGroups, CodeGroups DEF CallerInv, Records, Arithmetic
<1> QED
  BY <1>1, ExecutesWide, ExecutesNarrow, ExecutesRegister, ExecutesBranch, ExecutesUpper,
     ExecutesJalr DEF Arithmetic

-----------------------------------------------------------------------------
(* What the caller keeps of the word decoded last is invariant.            *)
LEMMA CallerInvInit == Init => CallerInv
<1> SUFFICES ASSUME Init PROVE CallerInv
  OBVIOUS
<1>1. PICK v \in StartValues, c \in StartCounters : RVInit(v, c)
  BY DEF Init, CallerInit
<1>2. word = {} /\ decodes = 0 /\ done = TRUE
  BY DEF Init, CallerInit
<1>3. v \in [Registers -> SUBSET (0 .. 63)] /\ c \in SUBSET (0 .. 63)
  BY CallerAssumption
<1> QED
  BY <1>1, <1>2, <1>3 DEF CallerInv, InsnTypeOK, RVInit, NoInsn, InsnWords, Gets, Get

LEMMA PresentedWords ==
  ASSUME CallerInv, decodes < MaxDecodes, NEW w \in Presented[decodes]
  PROVE  /\ w \in InsnWords
         /\ \A p \in Accepting(w) :
              /\ p.type \in {"R", "I", "B"} => Rs1(w) \in Registers
              /\ p.type \in {"R", "B"} => Rs2(w) \in Registers
<1>1. decodes \in 0 .. MaxDecodes - 1
  BY CallerAssumption DEF CallerInv
<1> QED
  BY <1>1, CallerAssumption DEF InsnWords

(* A record keeps its types and what it recorded when only the raw word or *)
(* the state outside it changes.                                           *)
LEMMA KeepsRecord ==
  ASSUME CallerInv, NEW raw \in InsnWords, insn' = [insn EXCEPT !.raw = raw],
         UNCHANGED word
  PROVE  InsnTypeOK' /\ \A p : Records(word, p) => Records(word, p)'
<1>1. insn' = [raw |-> raw, imm |-> insn.imm, rd |-> insn.rd, rs1 |-> insn.rs1,
               rs2 |-> insn.rs2, name |-> insn.name, executor |-> insn.executor]
  BY DEF CallerInv, InsnTypeOK
<1> QED
  BY <1>1 DEF CallerInv, InsnTypeOK, Records

LEMMA CallerInvDecode ==
  ASSUME CallerInv, decodes < MaxDecodes, NEW w \in Presented[decodes], DecodeWord(w)
  PROVE  CallerInv'
<1>1. /\ w \in InsnWords
      /\ \A p \in Accepting(w) :
           /\ p.type \in {"R", "I", "B"} => Rs1(w) \in Registers
           /\ p.type \in {"R", "B"} => Rs2(w) \in Registers
  BY PresentedWords
<1>2. Decode(w) /\ UNCHANGED <<registers, pc>> /\ decodes' = decodes + 1
  BY DEF DecodeWord, Decode
<1>3. CASE Accepting(w) = {}
  BY <1>2, <1>3 DEF CallerInv, InsnTypeOK, Records, DecodeWord, Decode, Gets, Get
<1>4. CASE Accepting(w) # {}
  <2>1. PICK p \in Accepting(w) : TRUE
    BY <1>4
  <2>2. InsnTypeOK' /\ Records(w, p)'
    BY <1>1, <1>2, <2>1, DecodeRecords DEF CallerInv
  <2>3. word' = w
    BY <1>4 DEF DecodeWord
  <2>4. Records(word, p)'
    BY <2>2, <2>3 DEF Records
  <2> QED
    BY <1>1, <1>2, <2>2, <2>3, <2>4 DEF CallerInv, Gets, Get
<1> QED
  BY <1>3, <1>4

LEMMA WideResults ==
  ASSUME NEW a, NEW b, NEW w, NEW x
  PROVE  /\ Add(a, b, 64) \in SUBSET (0 .. 63)
         /\ Arithmetically(w, x) \in SUBSET (0 .. 63)
         /\ \A type : ImmediateOf(type, w) \in SUBSET (0 .. 63)
<1>1. Add(a, b, 64) \in SUBSET (0 .. 63)
  BY Positions64 DEF Add, AddWithCarry
<1>2. \A v, from : from \in {32, 64} => SignExtend(v, from, 64) \in SUBSET (0 .. 63)
  BY DEF SignExtend, Low, Positions
<1>3. Width(w) \in {32, 64}
  BY DEF Width
<1>4. Arithmetically(w, x) \in SUBSET (0 .. 63)
  BY <1>2, <1>3 DEF Arithmetically
<1> QED
  BY <1>1, <1>4, Positions64 DEF ImmediateOf

LEMMA Typed ==
  ASSUME NEW t, NEW f \in [Registers -> SUBSET (0 .. 63)], NEW c \in SUBSET (0 .. 63), t = <<f, c>>
  PROVE  t[1] \in [Registers -> SUBSET (0 .. 63)] /\ t[2] \in SUBSET (0 .. 63)
OBVIOUS

LEMMA AfterTypes ==
  ASSUME NEW w, NEW x \in [Registers -> SUBSET (0 .. 63)], NEW counter \in SUBSET (0 .. 63),
         Opcode(w) \in Arithmetic \cup {Bits(99), Bits(55), Bits(23), Bits(111), Bits(103)}
  PROVE  /\ After(w, x, counter)[1] \in [Registers -> SUBSET (0 .. 63)]
         /\ After(w, x, counter)[2] \in SUBSET (0 .. 63)
<1>1. \A v \in SUBSET (0 .. 63) : Written(w, x, v) \in [Registers -> SUBSET (0 .. 63)]
  BY DEF Written
<1>2. \A base, imm : Add(base, imm, 64) \in SUBSET (0 .. 63)
                    /\ Add(base, imm, 64) \ {0} \in SUBSET (0 .. 63)
  <2> TAKE base, imm
  <2>1. Add(base, imm, 64) \in SUBSET (0 .. 63)
    BY WideResults
  <2> QED
    BY <2>1
<1>3. CASE Opcode(w) \in Arithmetic
  <2> DEFINE f == Written(w, x, Arithmetically(w, x))
             c == counter
  <2>1. f \in [Registers -> SUBSET (0 .. 63)] /\ c \in SUBSET (0 .. 63)
    BY <1>1, <1>2, WideResults
  <2>2. After(w, x, counter) = <<f, c>>
    BY <1>3, AfterWord
  <2> QED
    BY <2>1, <2>2, Typed
<1>4. CASE Opcode(w) = Bits(55)
  <2> DEFINE f == Written(w, x, ImmediateOf("U", w))
             c == counter
  <2>1. f \in [Registers -> SUBSET (0 .. 63)] /\ c \in SUBSET (0 .. 63)
    BY <1>1, <1>2, WideResults
  <2>2. After(w, x, counter) = <<f, c>>
    BY <1>4, AfterWord
  <2> QED
    BY <2>1, <2>2, Typed
<1>5. CASE Opcode(w) = Bits(23)
  <2> DEFINE f == Written(w, x, Add(counter, ImmediateOf("U", w), 64))
             c == counter
  <2>1. f \in [Registers -> SUBSET (0 .. 63)] /\ c \in SUBSET (0 .. 63)
    BY <1>1, <1>2, WideResults
  <2>2. After(w, x, counter) = <<f, c>>
    BY <1>5, AfterWord
  <2> QED
    BY <2>1, <2>2, Typed
<1>6. CASE Opcode(w) = Bits(111)
  <2> DEFINE f == Written(w, x, Add(counter, {2}, 64))
             c == Add(counter, ImmediateOf("J", w), 64)
  <2>1. f \in [Registers -> SUBSET (0 .. 63)] /\ c \in SUBSET (0 .. 63)
    BY <1>1, <1>2, WideResults
  <2>2. After(w, x, counter) = <<f, c>>
    BY <1>6, AfterWord
  <2> QED
    BY <2>1, <2>2, Typed
<1>7. CASE Opcode(w) = Bits(103)
  <2> DEFINE f == Written(w, x, Add(counter, {2}, 64))
             c == Add(x[Rs1(w)], ImmediateOf("I", w), 64) \ {0}
  <2>1. f \in [Registers -> SUBSET (0 .. 63)] /\ c \in SUBSET (0 .. 63)
    BY <1>1, <1>2, WideResults
  <2>2. After(w, x, counter) = <<f, c>>
    BY <1>7, AfterWord
  <2> QED
    BY <2>1, <2>2, Typed
<1>8. CASE Opcode(w) = Bits(99)
  <2> DEFINE f == x
             c == IF Branches(w, x) THEN Add(counter, ImmediateOf("B", w), 64) ELSE counter
  <2>1. f \in [Registers -> SUBSET (0 .. 63)] /\ c \in SUBSET (0 .. 63)
    BY <1>1, <1>2, WideResults
  <2>2. After(w, x, counter) = <<f, c>>
    BY <1>8, AfterWord
  <2> QED
    BY <2>1, <2>2, Typed
<1> QED
  BY <1>3, <1>4, <1>5, <1>6, <1>7, <1>8

LEMMA WantedTypes ==
  ASSUME CallerInv, ~done
  PROVE  Wanted[1] \in [Registers -> SUBSET (0 .. 63)] /\ Wanted[2] \in SUBSET (0 .. 63)
<1> DEFINE Nine == Arithmetic \cup {Bits(99), Bits(55), Bits(23), Bits(111), Bits(103)}
<1>1. Opcode(word) \in Nine
  BY AcceptedGroups, CodeGroups DEF CallerInv, Records, Arithmetic
<1>2. SetsLessThanImmediate => Opcode(word \ {13}) \in Nine
  BY <1>1, Unset13 DEF SetsLessThanImmediate, CallerInv
<1>3. ShiftsByStale => Opcode(Restaled) \in Nine
  BY <1>1, RestaledWord DEF ShiftsByStale
<1>4. /\ Gets \in [Registers -> SUBSET (0 .. 63)] /\ pc \in SUBSET (0 .. 63)
      /\ [Gets EXCEPT ![Rs1(word)] = Add(pc, {2}, 64)] \in [Registers -> SUBSET (0 .. 63)]
  BY WideResults DEF CallerInv
<1> HIDE DEF Nine
<1>5. /\ ~(SetsLessThanImmediate /\ ShiftsByStale)
      /\ ~(SetsLessThanImmediate /\ LinksItsBase)
      /\ ~(ShiftsByStale /\ LinksItsBase)
  <2>1. /\ Bits(2) \notin {Bits(1), Bits(5)}
        /\ Bits(103) \notin {Bits(19), Bits(27)}
    BY Literals3, Literals7
  <2> QED
    BY <2>1 DEF SetsLessThanImmediate, ShiftsByStale, LinksItsBase, IsShift
<1>6. \/ Wanted = After(word \ {13}, Gets, pc) /\ SetsLessThanImmediate
      \/ Wanted = After(Restaled, Gets, pc) /\ ShiftsByStale
      \/ Wanted = After(word, [Gets EXCEPT ![Rs1(word)] = Add(pc, {2}, 64)], pc)
      \/ Wanted = After(word, Gets, pc)
  BY <1>5 DEF Wanted
<1>7. ASSUME NEW w, NEW x \in [Registers -> SUBSET (0 .. 63)], Opcode(w) \in Nine,
             Wanted = After(w, x, pc)
      PROVE  Wanted[1] \in [Registers -> SUBSET (0 .. 63)] /\ Wanted[2] \in SUBSET (0 .. 63)
  BY <1>4, <1>7, AfterTypes DEF Nine
<1> QED
  BY <1>1, <1>2, <1>3, <1>4, <1>6, <1>7

LEMMA CallerInvExecute ==
  ASSUME CallerInv, ExecuteWord
  PROVE  CallerInv'
<1>1. ~done /\ Execute /\ done' = TRUE /\ UNCHANGED <<word, decodes, insn>>
  BY DEF ExecuteWord, Execute
<1>2. Seen[1] \in [Registers -> SUBSET (0 .. 63)] /\ Seen[2] \in SUBSET (0 .. 63)
  BY <1>1, Executes, WantedTypes
<1>3. Gets' \in [Registers -> SUBSET (0 .. 63)] /\ pc' \in SUBSET (0 .. 63)
  BY <1>2 DEF Seen, Gets
<1>4. registers' = [r \in Registers |-> registers'[r]]
  <2>1. registers = [r \in Registers |-> registers[r]]
    BY DEF CallerInv
  <2>2. \E v, reads : \/ registers' = Stored(v, reads)
                      \/ registers' = [Stored(v, {}) EXCEPT ![0] = IF insn.rs1 = 0 THEN {} ELSE @]
                      \/ registers' = Accessed(reads)
    BY <1>1 DEF Execute
  <2> QED
    BY <2>1, <2>2 DEF Stored, Accessed
<1> QED
  BY <1>1, <1>3, <1>4 DEF CallerInv, InsnTypeOK

LEMMA CallerInvStep ==
  ASSUME CallerInv, [CallerNext]_callerVars
  PROVE  CallerInv'
<1>1. ASSUME decodes < MaxDecodes, NEW w \in Presented[decodes], DecodeWord(w)
      PROVE  CallerInv'
  BY <1>1, CallerInvDecode
<1>2. CASE SetRawOfWord
  <2>1. /\ word \in InsnWords /\ insn' = [insn EXCEPT !.raw = word]
        /\ UNCHANGED <<word, decodes, done, registers, pc>>
    BY <1>2 DEF SetRawOfWord, SetRaw, CallerInv
  <2>2. InsnTypeOK' /\ \A p : Records(word, p) => Records(word, p)'
    BY <2>1, KeepsRecord
  <2> QED
    BY <2>1, <2>2 DEF CallerInv, Gets, Get
<1>3. CASE ExecuteWord
  BY <1>3, CallerInvExecute
<1>4. CASE UNCHANGED callerVars
  BY <1>4 DEF CallerInv, InsnTypeOK, Records, Gets, Get, callerVars, rvVars
<1> QED
  BY <1>1, <1>2, <1>3, <1>4 DEF CallerNext

LEMMA CallerSteps == [Next]_vars => [CallerNext]_callerVars
BY DEF Next, vars, callerVars, rvVars

(* The invariant of a caller, from any start and for any words presented.  *)
THEOREM CallerInductive == Spec => []CallerInv
<1>1. CallerInv /\ [Next]_vars => CallerInv'
  BY CallerSteps, CallerInvStep
<1> QED
  BY CallerInvInit, <1>1, PTL DEF Spec

(* Whatever instruction word was decoded last, the shifts and masks of the *)
(* immediate decoders, of both widths and all formats, give the immediate  *)
(* the format tells.                                                       *)
THEOREM ImmediatesOfEveryWord == Spec => []ImmediatesAgree
<1>1. CallerInv => ImmediatesAgree
  BY ImmediateOfWord DEF CallerInv, ImmediatesAgree
<1> QED
  BY CallerInductive, <1>1, PTL

(* Any word of 32 bits is accepted if and only if it encodes one of the    *)
(* instructions, by one code point, and a refused word leaves the record.  *)
THEOREM EncodingsAreAccepted == Spec => AcceptsEncodings
<1> DEFINE Told ==
      decodes' # decodes => \A w \in Presented[decodes] : DecodeWord(w) =>
        /\ Encodes(w) <=> Accepting(w) # {}
        /\ \A p, q \in Accepting(w) : p = q
        /\ ~Encodes(w) => insn' = insn
<1>1. CallerInv /\ [Next]_vars => [Told]_callerVars
  <2> SUFFICES ASSUME CallerInv, [CallerNext]_callerVars, decodes' # decodes,
                      NEW w \in Presented[decodes], DecodeWord(w)
               PROVE  /\ Encodes(w) <=> Accepting(w) # {}
                      /\ \A p, q \in Accepting(w) : p = q
                      /\ ~Encodes(w) => insn' = insn
    BY CallerSteps
  <2>1. decodes < MaxDecodes
    BY DEF CallerNext, SetRawOfWord, ExecuteWord, callerVars
  <2>2. w \in InsnWords
    BY <2>1, PresentedWords
  <2> QED
    BY <2>2, AcceptedIsEncoded DEF DecodeWord, Decode
<1> QED
  BY CallerInductive, <1>1, PTL DEF Spec, AcceptsEncodings

(* Executing a record does what the word decoded last means, for every     *)
(* word, every earlier content of the record and every value of the        *)
(* registers, but for the three cases that ExecutesItsWord names.          *)
THEOREM WordsExecuteAsTheyMean == Spec => ExecutesItsWord
<1>1. CallerInv /\ [Next]_vars => [ExecuteWord => Seen = Wanted]_callerVars
  BY Executes DEF ExecuteWord
<1>2. Spec => [][ExecuteWord => Seen = Wanted]_callerVars
  BY CallerInductive, <1>1, PTL DEF Spec
<1> QED
  BY <1>2, PTL DEF ExecutesItsWord, Seen, Wanted, Gets, Restaled

-----------------------------------------------------------------------------
(* The collection of decoders: no two answer to the same name.             *)
Count == Len(decoders)

DistinctNames ==
  /\ decoders \in Seq(Decoders)
  /\ \A i, j \in 1 .. Count : decoders[i].name = decoders[j].name => i = j
  /\ \A i, j \in 1 .. Count : decoders[i].canonical = decoders[j].canonical => i = j

(* The decoder at m leaves, and those after it move up.                    *)
Leaves(m) ==
  /\ m \in 1 .. Count
  /\ decoders' \in Seq(Decoders) /\ Count' = Count - 1
  /\ \A i \in 1 .. Count' : decoders'[i] = IF i < m THEN decoders[i] ELSE decoders[i + 1]

LEMMA MinIsFirst ==
  ASSUME NEW n \in Nat, NEW I \in SUBSET (1 .. n), I # {}
  PROVE  D!S!Min(I) \in I /\ \A i \in I : D!S!Min(I) <= i
<1> DEFINE LT == {ss \in Nat \X Nat : ss[1] < ss[2]}
<1>1. IsWellFoundedOn(LT, Nat)
  BY NatLessThanWellFounded DEF OpToRel
<1> HIDE DEF LT
<1>2. I \in SUBSET Nat
  OBVIOUS
<1>3. \E m \in I : \A i \in I : ~(<<i, m>> \in LT)
  BY <1>1, <1>2, WFMin
<1>4. \E m \in I : \A i \in I : m <= i
  <2>1. PICK m \in I : \A i \in I : ~(i < m)
    BY <1>2, <1>3 DEF LT
  <2> QED
    BY <1>2, <2>1
<1> QED
  BY <1>4 DEF D!S!Min

(* A word goes to the first decoder that accepts it.                       *)
LEMMA FirstAccepts ==
  ASSUME DistinctNames, NEW w, NEW d \in Decoders
  PROVE  D!DecoderOf(w) = d <=>
           \E i \in 1 .. Count :
             /\ decoders[i] = d /\ w \in d.accepts
             /\ \A j \in 1 .. Count : w \in decoders[j].accepts => i <= j
<1> DEFINE I == {i \in 1 .. Count : w \in decoders[i].accepts}
           first == IF I # {} THEN D!S!Min(I) ELSE 0
<1>1. D!DecoderOf(w) = IF first = 0 THEN None ELSE decoders[first]
  BY DEF D!DecoderOf, D!S!SelectInSeq, Count
<1>2. Count \in Nat /\ \A i \in 1 .. Count : decoders[i] \in Decoders
  BY DEF DistinctNames, Count
<1>3. None # d
  BY DecodersAssumption
<1>4. CASE I = {}
  BY <1>1, <1>3, <1>4
<1>5. CASE I # {}
  <2> DEFINE m == D!S!Min(I)
  <2>1. m \in I /\ \A i \in I : m <= i
    BY <1>2, <1>5, MinIsFirst
  <2>2. m \in 1 .. Count /\ m # 0
    BY <2>1
  <2>3. D!DecoderOf(w) = decoders[m]
    BY <1>1, <1>5, <2>2
  <2> HIDE DEF m
  <2> QED
    BY <1>2, <2>1, <2>2, <2>3
<1> QED
  BY <1>4, <1>5

LEMMA TakenOut ==
  ASSUME DistinctNames, NEW m \in 1 .. Count, decoders' = D!S!RemoveAt(decoders, m)
  PROVE  Leaves(m)
<1>1. decoders \in Seq(Decoders) /\ Count \in Nat
  BY DEF DistinctNames, Count
<1> DEFINE head == SubSeq(decoders, 1, m - 1)
           tail == SubSeq(decoders, m + 1, Len(decoders))
<1>2. /\ head \in Seq(Decoders) /\ Len(head) = m - 1
      /\ \A i \in 1 .. m - 1 : head[i] = decoders[i]
  BY <1>1 DEF Count
<1>3. /\ tail \in Seq(Decoders) /\ Len(tail) = Count - m
      /\ \A i \in 1 .. Count - m : tail[i] = decoders[i + m]
  BY <1>1 DEF Count
<1>4. decoders' = head \o tail
  BY DEF D!S!RemoveAt
<1> HIDE DEF head, tail
<1>5. decoders' \in Seq(Decoders) /\ Count' = Count - 1
  BY <1>1, <1>2, <1>3, <1>4 DEF Count
<1>6. ASSUME NEW i \in 1 .. Count'
      PROVE  decoders'[i] = IF i < m THEN decoders[i] ELSE decoders[i + 1]
  <2>1. CASE i < m
    BY <1>1, <1>2, <1>3, <1>4, <1>5, <2>1
  <2>2. CASE ~(i < m)
    <3> DEFINE k == i - (m - 1)
    <3>1. k \in 1 .. Count - m /\ k + m = i + 1
      BY <1>1, <1>5, <2>2
    <3>2. decoders'[i] = tail[k]
      BY <1>1, <1>2, <1>3, <1>4, <1>5, <2>2
    <3>3. tail[k] = decoders[k + m]
      <4> HIDE DEF k
      <4> QED
        BY <1>3, <3>1
    <3> QED
      BY <2>2, <3>1, <3>2, <3>3
  <2> QED
    BY <2>1, <2>2
<1> QED
  BY <1>5, <1>6 DEF Leaves

LEMMA RemoveTakesOut ==
  ASSUME DistinctNames, NEW name, D!Remove(name)
  PROVE  \/ \E m \in 1 .. Count : decoders[m].name = name /\ Leaves(m)
         \/ (\A i \in 1 .. Count : decoders[i].name # name) /\ decoders' = decoders
<1> DEFINE I == {i \in 1 .. Count : decoders[i].name = name}
<1>1. decoders' = IF \E i \in 1 .. Count : decoders[i].name = name
                  THEN D!S!RemoveAt(decoders, IF I # {} THEN D!S!Min(I) ELSE 0) ELSE decoders
  BY DEF D!Remove, D!S!RemoveFirstMatch, D!S!SelectInSeq, Count
<1>2. Count \in Nat
  BY DEF DistinctNames, Count
<1>3. CASE I = {}
  BY <1>1, <1>3
<1>4. CASE I # {}
  <2> DEFINE m == D!S!Min(I)
  <2>1. m \in I
    BY <1>2, <1>4, MinIsFirst
  <2>2. m \in 1 .. Count /\ decoders[m].name = name
    BY <2>1
  <2>3. decoders' = D!S!RemoveAt(decoders, m)
    BY <1>1, <1>4
  <2> HIDE DEF m
  <2>4. Leaves(m)
    BY <2>2, <2>3, TakenOut
  <2> QED
    BY <2>2, <2>4
<1> QED
  BY <1>3, <1>4

LEMMA RemoveCanonicalTakesOut ==
  ASSUME DistinctNames, NEW name, D!RemoveCanonical(name)
  PROVE  \/ \E m \in 1 .. Count : decoders[m].canonical = name /\ Leaves(m)
         \/ (\A i \in 1 .. Count : decoders[i].canonical # name) /\ decoders' = decoders
<1> DEFINE I == {i \in 1 .. Count : decoders[i].canonical = name}
<1>1. decoders' = IF \E i \in 1 .. Count : decoders[i].canonical = name
                  THEN D!S!RemoveAt(decoders, IF I # {} THEN D!S!Min(I) ELSE 0) ELSE decoders
  BY DEF D!RemoveCanonical, D!S!RemoveFirstMatch, D!S!SelectInSeq, Count
<1>2. Count \in Nat
  BY DEF DistinctNames, Count
<1>3. CASE I = {}
  BY <1>1, <1>3
<1>4. CASE I # {}
  <2> DEFINE m == D!S!Min(I)
  <2>1. m \in I
    BY <1>2, <1>4, MinIsFirst
  <2>2. m \in 1 .. Count /\ decoders[m].canonical = name
    BY <2>1
  <2>3. decoders' = D!S!RemoveAt(decoders, m)
    BY <1>1, <1>4
  <2> HIDE DEF m
  <2>4. Leaves(m)
    BY <2>2, <2>3, TakenOut
  <2> QED
    BY <2>2, <2>4
<1> QED
  BY <1>3, <1>4

(* What one call does to the collection.                                   *)
LEMMA Called ==
  ASSUME DistinctNames, [D!DecodersNext]_decoders
  PROVE  \/ decoders' = decoders
         \/ decoders' = <<>>
         \/ \E m \in 1 .. Count : Leaves(m)
         \/ \E d \in Decoders :
              /\ decoders' = Append(decoders, d)
              /\ \A i \in 1 .. Count :
                   decoders[i].name # d.name /\ decoders[i].canonical # d.canonical
<1>1. ASSUME NEW d \in Decoders, D!Add(d)
      PROVE  \/ decoders' = decoders
             \/ /\ decoders' = Append(decoders, d)
                /\ \A i \in 1 .. Count :
                     decoders[i].name # d.name /\ decoders[i].canonical # d.canonical
  <2>1. DOMAIN decoders = 1 .. Count
    BY DEF DistinctNames, Count
  <2> QED
    BY <1>1, <2>1 DEF D!Add, D!Has, D!HasCanonical, D!Indices
<1>2. CASE D!Clear
  BY <1>2 DEF D!Clear
<1>3. CASE UNCHANGED decoders
  BY <1>3
<1> QED
  BY <1>1, <1>2, <1>3, RemoveTakesOut, RemoveCanonicalTakesOut DEF D!DecodersNext

LEMMA NamesStayDistinct ==
  ASSUME DistinctNames, [D!DecodersNext]_decoders
  PROVE  DistinctNames'
<1>1. decoders \in Seq(Decoders) /\ Count \in Nat
  BY DEF DistinctNames, Count
<1>2. CASE decoders' = decoders
  BY <1>2 DEF DistinctNames, Count
<1>3. CASE decoders' = <<>>
  <2>1. decoders' \in Seq(Decoders) /\ Len(decoders') = 0
    BY <1>3
  <2> QED
    BY <2>1 DEF DistinctNames, Count
<1>4. ASSUME NEW m \in 1 .. Count, Leaves(m)
      PROVE  DistinctNames'
  <2>1. ASSUME NEW i \in 1 .. Count', NEW j \in 1 .. Count'
        PROVE  /\ decoders'[i].name = decoders'[j].name => i = j
               /\ decoders'[i].canonical = decoders'[j].canonical => i = j
    <3> DEFINE p == IF i < m THEN i ELSE i + 1
               q == IF j < m THEN j ELSE j + 1
    <3>1. p \in 1 .. Count /\ q \in 1 .. Count /\ (p = q => i = j)
      BY <1>1, <1>4 DEF Leaves
    <3>2. decoders'[i] = decoders[p] /\ decoders'[j] = decoders[q]
      BY <1>4 DEF Leaves
    <3> HIDE DEF p, q
    <3> QED
      BY <3>1, <3>2 DEF DistinctNames
  <2> QED
    BY <1>4, <2>1 DEF DistinctNames, Leaves
<1>5. ASSUME NEW d \in Decoders, decoders' = Append(decoders, d),
             \A i \in 1 .. Count :
               decoders[i].name # d.name /\ decoders[i].canonical # d.canonical
      PROVE  DistinctNames'
  <2>1. /\ decoders' \in Seq(Decoders) /\ Count' = Count + 1
        /\ decoders'[Count + 1] = d
        /\ \A i \in 1 .. Count : decoders'[i] = decoders[i]
    BY <1>1, <1>5 DEF Count
  <2> QED
    BY <1>1, <1>5, <2>1 DEF DistinctNames
<1> QED
  BY <1>2, <1>3, <1>4, <1>5, Called

(* The primed form of FirstAccepts.                                        *)
LEMMA FirstAcceptsNext ==
  (DistinctNames =>
     \A w : \A d \in Decoders :
       D!DecoderOf(w) = d <=>
         \E i \in 1 .. Count :
           /\ decoders[i] = d /\ w \in d.accepts
           /\ \A j \in 1 .. Count : w \in decoders[j].accepts => i <= j)'
<1>1. DistinctNames =>
        \A w : \A d \in Decoders :
          D!DecoderOf(w) = d <=>
            \E i \in 1 .. Count :
              /\ decoders[i] = d /\ w \in d.accepts
              /\ \A j \in 1 .. Count : w \in decoders[j].accepts => i <= j
  BY FirstAccepts
<1> QED
  BY <1>1, PTL

(* The decoder a word has stays the first that accepts it.                 *)
LEMMA KeptByCall ==
  ASSUME DistinctNames, [D!DecodersNext]_decoders,
         NEW d \in Decoders, NEW w, D!DecoderOf(w) = d,
         \E x \in 1 .. Count' : decoders'[x] = d
  PROVE  D!DecoderOf(w)' = d
<1>1. DistinctNames' /\ decoders \in Seq(Decoders) /\ Count \in Nat
  BY NamesStayDistinct DEF DistinctNames, Count
<1>2. PICK f \in 1 .. Count :
        /\ decoders[f] = d /\ w \in d.accepts
        /\ \A j \in 1 .. Count : w \in decoders[j].accepts => f <= j
  BY FirstAccepts
<1> SUFFICES \E i \in 1 .. Count' :
               /\ decoders'[i] = d /\ w \in d.accepts
               /\ \A j \in 1 .. Count' : w \in decoders'[j].accepts => i <= j
  BY <1>1, FirstAcceptsNext
<1>3. CASE decoders' = decoders
  BY <1>2, <1>3 DEF Count
<1>4. CASE decoders' = <<>>
  BY <1>4 DEF Count
<1>5. ASSUME NEW m \in 1 .. Count, Leaves(m)
      PROVE  \E i \in 1 .. Count' :
               /\ decoders'[i] = d /\ w \in d.accepts
               /\ \A j \in 1 .. Count' : w \in decoders'[j].accepts => i <= j
  <2>1. m # f
    <3>1. PICK x \in 1 .. Count' : decoders'[x] = d
      OBVIOUS
    <3>2. PICK y \in 1 .. Count : y # m /\ decoders[y] = d
      <4>1. IF x < m THEN x \in 1 .. Count ELSE x + 1 \in 1 .. Count
        BY <1>1, <1>5 DEF Leaves
      <4>2. decoders'[x] = IF x < m THEN decoders[x] ELSE decoders[x + 1]
        BY <1>5 DEF Leaves
      <4> QED
        BY <3>1, <4>1, <4>2
    <3> QED
      BY <1>2, <3>2 DEF DistinctNames
  <2> DEFINE i == IF f < m THEN f ELSE f - 1
  <2>2. i \in 1 .. Count' /\ decoders'[i] = d
    BY <1>1, <1>2, <1>5, <2>1 DEF Leaves
  <2>3. ASSUME NEW j \in 1 .. Count', w \in decoders'[j].accepts
        PROVE  i <= j
    <3> DEFINE k == IF j < m THEN j ELSE j + 1
    <3>1. k \in 1 .. Count /\ decoders'[j] = decoders[k]
      BY <1>1, <1>5 DEF Leaves
    <3>2. f <= k
      <4> HIDE DEF k
      <4> QED
        BY <1>2, <2>3, <3>1
    <3> QED
      BY <1>1, <1>5, <2>1, <3>2 DEF Leaves
  <2> HIDE DEF i
  <2> QED
    BY <1>2, <2>2, <2>3
<1>6. ASSUME NEW e \in Decoders, decoders' = Append(decoders, e)
      PROVE  \E i \in 1 .. Count' :
               /\ decoders'[i] = d /\ w \in d.accepts
               /\ \A j \in 1 .. Count' : w \in decoders'[j].accepts => i <= j
  <2>1. /\ Count' = Count + 1
        /\ \A i \in 1 .. Count : decoders'[i] = decoders[i]
    BY <1>1, <1>6 DEF Count
  <2> QED
    BY <1>1, <1>2, <2>1
<1> QED
  BY <1>3, <1>4, <1>5, <1>6, Called

(* Nobody answers to a name that was removed.                              *)
LEMMA RemovedIsGone ==
  ASSUME DistinctNames, NEW d
  PROVE  /\ D!Remove(d.name) => ~D!Has(d.name)'
         /\ D!RemoveCanonical(d.canonical) =>
              /\ ~D!HasCanonical(d.canonical)'
              /\ D!HasCanonicalString(d.canonical)' <=>
                   \E i \in D!Indices :
                     decoders[i].name = d.canonical /\ decoders[i].canonical # d.canonical
<1>1. decoders \in Seq(Decoders) /\ Count \in Nat
  BY DEF DistinctNames, Count
<1>2. ASSUME NEW m \in 1 .. Count, Leaves(m), NEW x \in DOMAIN decoders'
      PROVE  \E y \in 1 .. Count : y # m /\ decoders'[x] = decoders[y]
  <2>1. x \in 1 .. Count'
    BY <1>2 DEF Leaves, Count
  <2>2. IF x < m THEN x \in 1 .. Count ELSE x + 1 \in 1 .. Count
    BY <1>1, <1>2, <2>1 DEF Leaves
  <2>3. decoders'[x] = IF x < m THEN decoders[x] ELSE decoders[x + 1]
    BY <1>2, <2>1 DEF Leaves
  <2> QED
    BY <1>1, <2>1, <2>2, <2>3
<1>3. DOMAIN decoders = 1 .. Count
  BY <1>1 DEF Count
<1>4. ASSUME D!Remove(d.name), NEW x \in DOMAIN decoders'
      PROVE  decoders'[x].name # d.name
  <2>1. CASE \E m \in 1 .. Count : decoders[m].name = d.name /\ Leaves(m)
    BY <1>2, <1>4, <2>1 DEF DistinctNames
  <2>2. CASE (\A i \in 1 .. Count : decoders[i].name # d.name) /\ decoders' = decoders
    BY <1>3, <1>4, <2>2
  <2> QED
    BY <1>4, <2>1, <2>2, RemoveTakesOut
<1>5. ASSUME D!RemoveCanonical(d.canonical), NEW x \in DOMAIN decoders'
      PROVE  decoders'[x].canonical # d.canonical
  <2>1. CASE \E m \in 1 .. Count : decoders[m].canonical = d.canonical /\ Leaves(m)
    BY <1>2, <1>5, <2>1 DEF DistinctNames
  <2>2. CASE (\A i \in 1 .. Count : decoders[i].canonical # d.canonical) /\ decoders' = decoders
    BY <1>3, <1>5, <2>2
  <2> QED
    BY <1>5, <2>1, <2>2, RemoveCanonicalTakesOut
<1>6. ASSUME NEW m \in 1 .. Count, Leaves(m), NEW y \in 1 .. Count, y # m
      PROVE  \E x \in DOMAIN decoders' : decoders'[x] = decoders[y]
  <2> DEFINE x == IF y < m THEN y ELSE y - 1
  <2>1. x \in 1 .. Count'
    BY <1>1, <1>6 DEF Leaves
  <2>2. decoders'[x] = decoders[y]
    <3>1. CASE y < m
      BY <1>6, <2>1, <3>1 DEF Leaves
    <3>2. CASE ~(y < m)
      <4>1. y - 1 \in 1 .. Count' /\ ~(y - 1 < m) /\ (y - 1) + 1 = y
        BY <1>1, <1>6, <2>1, <3>2
      <4> QED
        BY <1>6, <3>2, <4>1 DEF Leaves
    <3> QED
      BY <3>1, <3>2
  <2>3. DOMAIN decoders' = 1 .. Count'
    BY <1>6 DEF Leaves, Count
  <2> HIDE DEF x
  <2> QED
    BY <2>1, <2>2, <2>3
<1>7. ASSUME D!RemoveCanonical(d.canonical)
      PROVE  (\E x \in DOMAIN decoders' : decoders'[x].name = d.canonical) <=>
               \E i \in DOMAIN decoders :
                 decoders[i].name = d.canonical /\ decoders[i].canonical # d.canonical
  <2>1. CASE \E m \in 1 .. Count : decoders[m].canonical = d.canonical /\ Leaves(m)
    <3>1. PICK m \in 1 .. Count : decoders[m].canonical = d.canonical /\ Leaves(m)
      BY <2>1
    <3>2. ASSUME NEW x \in DOMAIN decoders', decoders'[x].name = d.canonical
          PROVE  \E i \in DOMAIN decoders :
                   decoders[i].name = d.canonical /\ decoders[i].canonical # d.canonical
      <4>1. PICK y \in 1 .. Count : y # m /\ decoders'[x] = decoders[y]
        BY <1>2, <3>1
      <4>2. decoders[y].canonical # d.canonical
        BY <3>1, <4>1 DEF DistinctNames
      <4> QED
        BY <1>3, <3>2, <4>1, <4>2
    <3>3. ASSUME NEW i \in DOMAIN decoders,
                 decoders[i].name = d.canonical, decoders[i].canonical # d.canonical
          PROVE  \E x \in DOMAIN decoders' : decoders'[x].name = d.canonical
      <4>1. i \in 1 .. Count /\ i # m
        BY <1>3, <3>1, <3>3
      <4>2. PICK x \in DOMAIN decoders' : decoders'[x] = decoders[i]
        BY <1>6, <3>1, <4>1
      <4> QED
        BY <3>3, <4>2
    <3> QED
      BY <3>2, <3>3
  <2>2. CASE (\A i \in 1 .. Count : decoders[i].canonical # d.canonical) /\ decoders' = decoders
    BY <1>3, <2>2
  <2> QED
    BY <1>7, <2>1, <2>2, RemoveCanonicalTakesOut
<1>8. D!Remove(d.name) => ~D!Has(d.name)'
  BY <1>4 DEF D!Has, D!Indices
<1>9. D!RemoveCanonical(d.canonical) => ~D!HasCanonical(d.canonical)'
  BY <1>5 DEF D!HasCanonical, D!Indices
<1>10. D!RemoveCanonical(d.canonical) =>
         (D!HasCanonicalString(d.canonical)' <=>
            \E i \in D!Indices :
              decoders[i].name = d.canonical /\ decoders[i].canonical # d.canonical)
  BY <1>7 DEF D!HasCanonicalString, D!Has, D!Indices
<1> QED
  BY <1>8, <1>9, <1>10

(* Whatever decoders are added and removed, a word keeps its decoder while *)
(* that one is in the collection, and after a removal by a name no decoder *)
(* is left that has it: the two refusals of Add are all that this needs.   *)
(* HasCanonical of a std::string is still true of it exactly if another    *)
(* one has it as a plain name.                                             *)
THEOREM WordsKeepTheirDecoders == Spec => KeepsItsDecoder
<1> DEFINE Kept ==
      /\ \A d \in Decoders, w \in UNION {e.accepts : e \in Decoders} :
           D!DecoderOf(w) = d /\ (\E i \in DOMAIN decoders' : decoders'[i] = d) =>
             D!DecoderOf(w)' = d
      /\ \A d \in Decoders :
           /\ D!Remove(d.name) => ~D!Has(d.name)'
           /\ D!RemoveCanonical(d.canonical) =>
                /\ ~D!HasCanonical(d.canonical)'
                /\ D!HasCanonicalString(d.canonical)' <=>
                     \E i \in D!Indices :
                       decoders[i].name = d.canonical /\ decoders[i].canonical # d.canonical
<1>1. Init => DistinctNames
  BY DEF Init, D!DecodersInit, DistinctNames, Count
<1>2. [Next]_vars => [D!DecodersNext]_decoders
  BY DEF Next, vars
<1>3. DistinctNames /\ [Next]_vars => DistinctNames'
  BY <1>2, NamesStayDistinct
<1>4. DistinctNames /\ DistinctNames' /\ [Next]_vars => [Kept]_decoders
  <2> SUFFICES ASSUME DistinctNames, DistinctNames', [Next]_vars PROVE Kept
    OBVIOUS
  <2>1. DOMAIN decoders' = 1 .. Count'
    BY DEF DistinctNames, Count
  <2>2. ASSUME NEW d \in Decoders, NEW w, D!DecoderOf(w) = d,
               \E i \in DOMAIN decoders' : decoders'[i] = d
        PROVE  D!DecoderOf(w)' = d
    BY <1>2, <2>1, <2>2, KeptByCall
  <2> QED
    BY <2>2, RemovedIsGone
<1> HIDE DEF Kept
<1>5. Spec => [][Kept]_decoders
  BY <1>1, <1>3, <1>4, PTL DEF Spec
<1> QED
  BY <1>5, PTL DEF KeepsItsDecoder, D!KeepsItsDecoder, Kept
=============================================================================
