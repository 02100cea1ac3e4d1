------------------------------- MODULE Words -------------------------------
(***************************************************************************)
(* Unsigned machine words as the sets of the positions of their ones, so   *)
(* that 64 bits keep their width: what the operators of C++ do with        *)
(* uint64_t and uint32_t, and with int64_t and int32_t where they differ.  *)
(***************************************************************************)
EXTENDS Integers, Sequences

Positions(width) == 0 .. width - 1

(* Literals of seven bits; and the number in a word of six bits, which is  *)
(* an index of a register or how far to shift.                             *)
Weight == <<1, 2, 4, 8, 16, 32, 64>>
Bits(n) == {i \in 0 .. 6 : (n \div Weight[i + 1]) % 2 = 1}
Worth(w, i) == IF i \in w THEN Weight[i + 1] ELSE 0
Number(w) == Worth(w, 0) + Worth(w, 1) + Worth(w, 2) + Worth(w, 3) + Worth(w, 4) + Worth(w, 5)

(* (w & mask) >> offset for the mask of the bits lo .. hi.                 *)
Field(w, lo, hi) == {i - lo : i \in w \cap (lo .. hi)}

Low(w, width) == w \cap Positions(width)
SignExtend(w, from, to) == Low(w, from) \cup IF from - 1 \in w THEN from .. to - 1 ELSE {}

-----------------------------------------------------------------------------
ShiftLeft(w, n, width) == {i + n : i \in w} \cap Positions(width)
ShiftRight(w, n) == {i - n : i \in {j \in w : j >= n}}
ShiftRightSigned(w, n, width) ==
  ShiftRight(w, n) \cup IF width - 1 \in w THEN width - n .. width - 1 ELSE {}

And(a, b) == a \cap b
Or(a, b)  == a \cup b
Xor(a, b) == (a \ b) \cup (b \ a)

(* There is a carry into position i of a sum if it comes about below i and *)
(* no position between stops it.                                           *)
CarryInto(i, a, b, carryIn) ==
  \/ carryIn /\ 0 .. i - 1 \subseteq a \cup b
  \/ \E j \in a \cap b : j < i /\ j + 1 .. i - 1 \subseteq a \cup b

AddWithCarry(a, b, carryIn, width) ==
  LET Odd == Xor(a, b)
  IN  {i \in Positions(width) : (i \in Odd) # CarryInto(i, a, b, carryIn)}

Add(a, b, width) == AddWithCarry(a, b, FALSE, width)
Sub(a, b, width) == AddWithCarry(a, Positions(width) \ b, TRUE, width)

(* The topmost position in which the words differ decides; it is the       *)
(* other way round at the sign.                                            *)
LessUnsigned(a, b) == \E i \in b \ a : \A j \in a \ b : j < i
LessSigned(a, b, width) == LessUnsigned(Xor(a, {width - 1}), Xor(b, {width - 1}))

Truth(condition) == IF condition THEN {0} ELSE {}
=============================================================================
