------------------------- MODULE InstructionMeaning -------------------------
(***************************************************************************)
(* What an RV64I instruction word means, put together from its fields: the *)
(* operation from funct3 and bit 30, the operands and their width from     *)
(* bits of the opcode, every bit of the immediate from one bit of the      *)
(* word.  No table of instructions, and nothing of an earlier word.        *)
(***************************************************************************)
EXTENDS Words

Types == {"R", "I", "S", "B", "U", "J"}

(* The bit of the word that gives bit i of the immediate, -1 for none.     *)
Source(type, i) ==
  CASE type = "I" -> IF i <= 10 THEN 20 + i ELSE 31
    [] type = "S" -> IF i <= 4 THEN 7 + i ELSE IF i <= 10 THEN 20 + i ELSE 31
    [] type = "B" -> IF i = 0 THEN -1 ELSE IF i <= 4 THEN 7 + i
                     ELSE IF i <= 10 THEN 20 + i ELSE IF i = 11 THEN 7 ELSE 31
    [] type = "U" -> IF i <= 11 THEN -1 ELSE IF i <= 30 THEN i ELSE 31
    [] type = "J" -> IF i = 0 THEN -1 ELSE IF i <= 10 THEN 20 + i
                     ELSE IF i = 11 THEN 20 ELSE IF i <= 19 THEN i ELSE 31
    [] type = "R" -> -1

ImmediateOf(type, w) == {i \in Positions(64) : Source(type, i) \in w}

Opcode(w) == Low(w, 7)
Op3(w)    == Field(w, 12, 14)
Top7(w)   == Field(w, 25, 31)
Rd(w)     == Number(Field(w, 7, 11))
Rs1(w)    == Number(Field(w, 15, 19))
Rs2(w)    == Number(Field(w, 20, 24))

IsShift(w)    == Op3(w) \in {Bits(1), Bits(5)}
IsRegister(w) == 5 \in w    \* OP and OP_32, else OP_IMM and OP_IMM_32
Width(w)      == IF 3 \in w THEN 32 ELSE 64

Arithmetic == {Bits(19), Bits(27), Bits(51), Bits(59)}

(* The words that encode an instruction of the code groups.                *)
Encodes(w) ==
  \/ /\ Opcode(w) \in Arithmetic
     /\ Width(w) = 32 => Op3(w) \in {Bits(0), Bits(1), Bits(5)}
     /\ LET top == IF IsRegister(w) \/ Width(w) = 32 THEN Top7(w) ELSE Top7(w) \ {0}
        IN  IsRegister(w) \/ IsShift(w) =>
              \/ top = Bits(0)
              \/ top = Bits(32) /\ Op3(w) = Bits(5)
              \/ top = Bits(32) /\ Op3(w) = Bits(0) /\ IsRegister(w)
  \/ Opcode(w) = Bits(99) /\ Op3(w) \notin {Bits(2), Bits(3)}
  \/ Opcode(w) = Bits(103) /\ Op3(w) = Bits(0)
  \/ Opcode(w) \in {Bits(55), Bits(23), Bits(111)}

(* The eight operations on words of a width; alt is bit 30.                *)
Operation(op3, alt, a, b, width) ==
  LET n == Number(Low(b, IF width = 64 THEN 6 ELSE 5))
  IN  CASE op3 = Bits(0) -> IF alt THEN Sub(a, b, width) ELSE Add(a, b, width)
        [] op3 = Bits(1) -> ShiftLeft(a, n, width)
        [] op3 = Bits(2) -> Truth(LessSigned(a, b, width))
        [] op3 = Bits(3) -> Truth(LessUnsigned(a, b))
        [] op3 = Bits(4) -> Xor(a, b)
        [] op3 = Bits(5) -> IF alt THEN ShiftRightSigned(a, n, width) ELSE ShiftRight(a, n)
        [] op3 = Bits(6) -> Or(a, b)
        [] op3 = Bits(7) -> And(a, b)

Arithmetically(w, x) ==
  LET second == IF IsRegister(w) THEN x[Rs2(w)] ELSE ImmediateOf("I", w)
      alt    == 30 \in w /\ (IsRegister(w) \/ Op3(w) = Bits(5))
  IN  SignExtend(Operation(Op3(w), alt, Low(x[Rs1(w)], Width(w)), Low(second, Width(w)),
                           Width(w)), Width(w), 64)

Branches(w, x) ==
  LET a == x[Rs1(w)]
      b == x[Rs2(w)]
      holds == CASE Op3(w) \in {Bits(0), Bits(1)} -> a = b
                 [] Op3(w) \in {Bits(4), Bits(5)} -> LessSigned(a, b, 64)
                 [] Op3(w) \in {Bits(6), Bits(7)} -> LessUnsigned(a, b)
  IN  holds # (12 \in w)

Written(w, x, v) == [x EXCEPT ![Rd(w)] = IF Rd(w) = 0 THEN {} ELSE v]

(* The registers, x[0] = 0 among them, and the program counter after w;    *)
(* where no jump is taken the counter is left for the caller to advance.   *)
After(w, x, counter) ==
  LET Jump(type) == Add(counter, ImmediateOf(type, w), 64)
      link == Add(counter, Bits(4), 64)
  IN  CASE Opcode(w) \in Arithmetic -> <<Written(w, x, Arithmetically(w, x)), counter>>
        [] Opcode(w) = Bits(55)  -> <<Written(w, x, ImmediateOf("U", w)), counter>>
        [] Opcode(w) = Bits(23)  -> <<Written(w, x, Jump("U")), counter>>
        [] Opcode(w) = Bits(111) -> <<Written(w, x, link), Jump("J")>>
        [] Opcode(w) = Bits(103) -> <<Written(w, x, link), Add(x[Rs1(w)], ImmediateOf("I", w), 64) \ {0}>>
        [] Opcode(w) = Bits(99)  -> <<x, IF Branches(w, x) THEN Jump("B") ELSE counter>>
=============================================================================
