------------------------- MODULE InstructionCaller -------------------------
(***************************************************************************)
(* A caller decodes one word after another into the same RVInstruction,    *)
(* sets the raw word or forgets to, and executes.                          *)
(***************************************************************************)
EXTENDS Rv64i, InstructionMeaning

CONSTANTS
  MaxDecodes,     \* bound on the words a caller decodes
  Presented,      \* the words that may be the next one, by how many came before
  StartValues,    \* of the registers
  StartCounters   \* of the program counter

(* Registers holds those that the words presented name as operands.        *)
ASSUME CallerAssumption ==
  /\ MaxDecodes \in Nat
  /\ \A n \in 0 .. MaxDecodes - 1 : \A w \in Presented[n] :
       /\ w \subseteq 0 .. 31
       /\ \A p \in Accepting(w) :
            /\ p.type \in {"R", "I", "B"} => Rs1(w) \in Registers
            /\ p.type \in {"R", "B"} => Rs2(w) \in Registers
  /\ StartValues \subseteq [Registers -> SUBSET (0 .. 63)]
  /\ StartCounters \subseteq SUBSET (0 .. 63)

VARIABLES
  word,    \* ghost: the word decoded last, as accepted; {} before
  decodes,
  done     \* the record has been executed

callerVars == <<rvVars, word, decodes, done>>

-----------------------------------------------------------------------------
CallerInit ==
  /\ \E v \in StartValues, c \in StartCounters : RVInit(v, c)
  /\ word = {} /\ decodes = 0 /\ done = TRUE

DecodeWord(w) ==
  /\ Decode(w)
  /\ decodes' = decodes + 1
  /\ IF Accepting(w) = {} THEN UNCHANGED <<word, done>> ELSE word' = w /\ done' = FALSE

SetRawOfWord ==
  /\ ~done /\ insn.raw # word
  /\ SetRaw(word)
  /\ UNCHANGED <<word, decodes, done>>

ExecuteWord ==
  /\ ~done
  /\ Execute
  /\ done' = TRUE
  /\ UNCHANGED <<word, decodes>>

CallerNext ==
  \/ decodes < MaxDecodes /\ \E w \in Presented[decodes] : DecodeWord(w)
  \/ SetRawOfWord
  \/ ExecuteWord

-----------------------------------------------------------------------------
(* The code groups accept the words that encode one of their instructions, *)
(* a word is an instruction of one kind only, and refusing one leaves what *)
(* was decoded before as it was.                                           *)
AcceptsEncodings ==
  [][decodes' # decodes => \A w \in Presented[decodes] : DecodeWord(w) =>
       /\ Encodes(w) <=> Accepting(w) # {}
       /\ \A p, q \in Accepting(w) : p = q
       /\ ~Encodes(w) => insn' = insn]_callerVars

(* The shifts and masks of the immediate decoders, of both widths and all  *)
(* types, bring every bit of the word to the places its format tells.      *)
ImmediatesAgree ==
  \A type \in Types :
    /\ Immediate64(type, word) = ImmediateOf(type, word)
    /\ Immediate32(type, word) = Low(ImmediateOf(type, word), 32)

(* Where the code is known not to do what the word means: slti adds; jalr  *)
(* into its own base register jumps from the link; and a shift by an       *)
(* immediate takes its amount from the raw word, stale if it was not set.  *)
SetsLessThanImmediate == Opcode(word) = Bits(19) /\ Op3(word) = Bits(2)
LinksItsBase == Opcode(word) = Bits(103) /\ Rd(word) = Rs1(word) /\ Rd(word) # 0
ShiftsByStale ==
  Opcode(word) \in {Bits(19), Bits(27)} /\ IsShift(word) /\ Field(insn.raw, 20, 25) # Field(word, 20, 25)

(* Whatever the record held from earlier words, executing it does to the   *)
(* registers and the program counter what the word decoded last means, but *)
(* for the three cases above, in which just the named operand is another;  *)
(* register 0 reads as zero.                                               *)
ExecutesItsWord ==
  [][ExecuteWord =>
       LET x    == [r \in Registers |-> Get(r)]
           want == CASE SetsLessThanImmediate -> After(word \ {13}, x, pc)
                     [] ShiftsByStale ->
                          After({i \in word : i \notin 20 .. 25}
                                    \cup (insn.raw \cap (20 .. IF Width(word) = 64 THEN 25 ELSE 24)),
                                  x, pc)
                     [] LinksItsBase ->
                          After(word, [x EXCEPT ![Rs1(word)] = Add(pc, {2}, 64)], pc)
                     [] OTHER -> After(word, x, pc)
       IN  <<[r \in Registers |-> Get(r)'], pc'>> = want]_callerVars

(* riscv_64i.hpp declares an executor "SLTI" that stores whether rs1 is    *)
(* less than the immediate, both signed: what an instruction decoded as    *)
(* "slti" does.                                                            *)
SltiSets ==
  [][ExecuteWord /\ insn.name = "slti" /\ insn.rd # 0 =>
       Get(insn.rd)' = Truth(LessSigned(Get(insn.rs1), insn.imm, 64))]_callerVars
=============================================================================
