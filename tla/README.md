# A verification of RMR8PM3001A

RMR8PM3001A ("Taurus 3001") is a 64-bit RISC-V processor. The repository holds
C++ models of its out-of-order core (`main/emulated`), the first hardware
modules (`main/verilog`), a console that drives the models (`main/vmc`), and
tests of both. This directory holds TLA+ models of the parts that keep state
under a protocol, TLC runs that check them on small instances, and TLAPS proofs
for every size.

All C++ models share one style, and so do the TLA+ models. A class derived
from `Emulated` is a clocked circuit: a call never changes what other calls of
the same cycle see, it **records a modification**; `Eval` is the clock edge
that applies what was recorded and clears the record. So there are two kinds
of hard behaviour: calls of one cycle that arrive in any order and meet in
`Eval`, and decisions taken on the state before the edge that must still be
right after it.

## Inventory

| Part | State | Operations | Interacts with |
|---|---|---|---|
| Scoreboard (`core_dispatch.hpp`) | busy and forward flag per physical register, checkpoints of busy | SetBusy, Land, TakeOff, SetForward, Allocate/RestoreCheckpoint, ResetInput, Clear, Eval | read by the alias table when it releases |
| RegisterAliasTable (RAT) | NRA (not reallocate-able), V (newest name), ARF per physical register, checkpoints of V | GetAliasPRF, Touch, TouchAndCommit, Commit, SyncNRA, Allocate/RestoreCheckpoint, Eval | reads the scoreboard, copies NRA of the shadow table |
| ShadowRegisterAliasTable (sRAT) | the same as committed | Commit, GetAliasPRF, Eval | SyncNRA of the alias table |
| O3 core loop (`vmc_core.hpp`) | re-order buffer, reservation, execution | fetch, issue, writeback, commit, cycle | calls all tables |
| FIFO (`common/fifo.hpp`) | ring, pointers with wrap bits, counted calls, pointers to be set | Push, Pop, Peek, Set*Pointer, SetPayload, ResetInput, Clear, Eval | base of GlobalCheckpointTable and WALK |
| CompressingMemory (`core_global.hpp`) | entries with a valid flag, modifications | NextTopAddress, SetPayload, SetValid, ResetInput, Clear, Eval | test console |
| GlobalCheckpointTable, WALK | a FIFO of branch groups, a FIFO to walk | PushFGR, PopFGR, RestoreFGR | writes the pointers of WALK |
| PhysicalRegisterFile (`core_issue.hpp`) | values, one pending write | Get, Set, Eval | core loop |
| Bypass buffers (`common/buffer.hpp`, Verilog) | one slot, flush flag | valid/ready handshake, flush | between pipeline stages |
| FIFOs, cross buffers, LRU, RAMs, CAMs (Verilog and C++) | registers | clocked ports | each other |
| Memories (`common/memory.hpp`) | words, one pending write, a list of pending reads; snapshots of what an edge did; a CAM over two memories | SetWrite(WithMask), ResetWrite, ReadThrough, ReadDelayed, ResetRead(Port), EvalEx, QueryAddress | run beside the Verilog RAMs and CAM in their tests |
| Instruction set (`isa/riscv*.hpp`) | RVInstruction (a decoded record that is used again), RVArchitectural (registers, pc) | Decode, SetRaw, Execute | decoders fill the record, executors change the architectural state |
| Control registers (`isa/riscvcsr.hpp`) | a tree of arrays of allocated registers | SetCSR, GetCSR, RequireCSR, copy, destruction | - |
| Decoder collection (`isa/riscv.hpp`) | a list of decoders | Has, Add, Remove, Clear, Decode | asks decoders in turn |
| Reference pipeline (`vmc_core.hpp`) | in-order scoreboard, reservation, execution | the same stages | compared with O3 |
| Console, Verilog macros, build scripts | none, or none under a protocol | print, gates | - |

What makes each part correct, and what is hard about it:

- *Renaming (Scoreboard, RAT, sRAT under the core loop).* A physical register
  must not be handed out while an instruction in flight writes it or a committed
  value is in it; a lookup must give the newest name in program order; a
  mispredicted branch must get the names and busy flags of its own point back,
  although registers landed, were released and were renamed since; SyncNRA must
  free all that squashed instructions left and nothing else. Fetch, commit,
  restore and landing may meet in one cycle in any order.
- *FIFO.* Full and empty differ by wrap bits only; pops and pushes of one cycle
  are accepted against the count before it.
- *CompressingMemory.* Elements move one address per edge while their
  modifications are pending; the order of arrival must survive.
- *GlobalCheckpointTable.* A restore must find the checkpoint of a branch and set
  the pointers of two rings; several index computations are off by one.
- *Buffers and hardware FIFOs.* No element lost or delivered twice under a
  valid/ready handshake, with flush, and at full and empty.
- *Cross buffers and LRU.* Every waiting input is chosen in the end.
- *Memories.* An emulated memory must show what the flip-flops show, in the cycle and
  after the edge; delayed reads must be answered once, from the right side of the write;
  a snapshot must be able to take its writes back.
- *Instruction set.* Every bit of an immediate at its place, every encoding one
  instruction, and nothing of an earlier word in what a later one does.
- *Control registers, decoders.* Copies that share nothing, nothing freed twice, and no register out of
  reach but those that were replaced; a choice among decoders that does not depend on others that come and go.

`PROJECT.json` lists every part with its status, and every hazard at its line.

## Modules

| Module | Models |
|---|---|
| `Scoreboard` | class Scoreboard. A flag per register is the set of the registers that have it; a modification record is split into the registers to be set, to be cleared, and landed. `CallsSpec` is the scoreboard alone under any sequence of its public calls |
| `RegisterAliasTable` | class RegisterAliasTable, which reads the scoreboard: extends `Scoreboard` |
| `ShadowRegisterAliasTable` | class ShadowRegisterAliasTable, which SyncNRA copies: extends `RegisterAliasTable` |
| `RenameCore` | the three tables under the calls of the core loop, with the re-order buffer as a sequence in program order; the properties and the inductive invariant |
| `Renaming` | the abstract specification: what register renaming promises without tables |
| `MCRename` | instances of `RenameCore` for TLC |
| `RenameProofs` | the proofs of its properties, and that it implements `Renaming` |
| `BoundedQueue`, `Fifo` | the abstract clocked queue, and class FIFO |
| `GlobalCheckpointTable`, `FifoProofs` | GlobalCheckpointTable and GlobalCheckpointWALK, two `Fifo`s that RestoreFGR ties together, and their proofs |
| `AgeQueue`, `CompressingMemory`, `CompressingMemoryProofs` | the abstract buffer in order of age, the class, and the proofs |
| `FlowQueue` | the abstract hardware queue: a full one accepts a word together with a read |
| `FifoRam`, `FifoShift` | common_fifo_ram_1w1r (with the RAM it instantiates) and common_fifo_shift_1w1r |
| `HardwareFifos`, `HardwareFifoProofs` | both behind the same ports and clock, and the proofs |
| `BypassBuffer` | common_bypass_buffer, one per port |
| `BypassBuffers` | NormalBypassBuffer and FlushableBypassBuffer beside common_bypass_buffer and common_bypass_bufferf |
| `CrossBuffers`, `CrossBufferProofs` | the four cross buffers between the stages of their test benches: bypass buffers under an arbiter; and their proofs |
| `PseudoLruTree` | the trees of common_pseudo_lru_pick and _swap, as operators on their bits |
| `PseudoLru` | PseudoLRUPick and PseudoLRUSwap beside those trees |
| `ReadThroughMemory`, `ReadDelayedMemory` | W1RTRandomAccessMemory with MemoryOperationSnapshot, W1RDRandomAccessMemory with its list of DelayedMemoryRead |
| `DelayedReads` | the abstract specification of a memory with delayed reads |
| `DffRam`, `DffCam` | common_dffram_1a1w1r, common_dffcam_1a1w1r1qa with common_tcam_1qa |
| `RamBench` | the emulated memories and the hardware RAM under the same calls |
| `PhysicalRegisterFile`, `CamBench` | the class and issue_prf with common_dffram_3a1w2r; the register files and the CAMs, emulated and hardware, under the same writes |
| `MCMemories`, `MemoryProofs` | the benches of memories, CAM, register file, LRU and bypass buffers for TLC, and the proofs about all of them |
| `Words` | machine words as the sets of the positions of their ones, and what the C++ operators do with them |
| `Rv64i` | the code points, executors, immediates and registers of RV64I |
| `InstructionMeaning` | what an instruction word means, put together from its fields without a table |
| `InstructionCaller` | a caller that decodes one word after another into one record, and the properties |
| `CsrMap`, `CsrSpace`, `CsrProofs` | the abstract map of control registers, class RVCSRSpace, and the proofs |
| `DecoderCollection` | class RVDecoderCollection |
| `MCIsa` | the three benches of the instruction set for TLC |
| `IsaProofs` | the proofs about every instruction word and about collections of decoders |

### How RenameCore corresponds to the code

One call of `EvalO3` runs fetch, issue, writeback, commit and then
`EvalO3Cycle`. The model makes each of them an action; `fetched` and `committed`
keep it to one fetch and one commit in a cycle, and any order of the stages in a
cycle is allowed. That covers the order of the test bench and any other the
hardware may have, since calls only record.

The O3 half of `vmc_core.hpp` was written for an earlier interface of the
tables (it asks an entry for a FID the class no longer has) and does not compile
at this commit. Where the interface moved, the model follows `core_dispatch.hpp`:
`SetStatus(BUSY)` at fetch is TakeOff, `SetStatus(IN_ARF)` at commit is Land.
An operand is read from the register file once its register is not busy, before
that from the re-order buffer once the value is there (`OperandReady`).

| Action | Code |
|---|---|
| Fetch, FetchNoDest | EvalO3Fetch: GetAliasPRF of the source, Touch, TakeOff. When the table is full nothing changes |
| FetchBranch | a branch takes a checkpoint of both tables |
| Issue, Writeback | EvalO3Issue, EvalO3Writeback |
| Mispredict | RestoreCheckpoint of both tables, younger instructions dropped, no fetch until the next cycle |
| Commit | EvalO3Commit: Land, RAT.Commit, sRAT.Commit |
| Recover | SyncNRA with nothing in flight |
| SetARF | SetO3ARFAndEval: the console writes a register |
| Cycle | EvalO3Cycle: the three Eval |

Nothing in the repository calls AllocateCheckpoint, RestoreCheckpoint, SyncNRA
or the shadow table. FetchBranch, Mispredict and Recover are therefore the
environment these calls are made for, marked external, with the weakest
discipline under which the tables work: a checkpoint belongs to one branch at a
time and is given back when it is resolved; a restore comes with no fetch
in the rest of the cycle; SyncNRA comes when nothing is in flight and no commit
or fetch is pending ("HIGHEST PRIORITY write" would undo them). An instruction
has one source: the second is looked up and read the same way.

Left out: values (which register an operand is read from is what the
properties are about), execution latencies (an instruction may stay in execution
any time), the FID fields, and `RegisterAliasTable::Clear`, used at reset only.

### FIFO, GlobalCheckpointTable and CompressingMemory

All are modelled call by call. Some conditions on the callers are part of the
models, because the code is wrong without them:

- `FIFO::Clear` sets the pointers and leaves the calls of the cycle pending. A
  pending pop would take the read pointer past the write pointer. The models
  clear only between cycles. `CompressingMemory::Clear` likewise.
- In `CompressingMemory::Eval` the modification of a non-valid entry is applied
  to the entry one address above when there is a hole above. The code calls
  asserting `valid` there UNDEFINED; TLC showed on an earlier version of the model
  that a payload alone does harm too: with entry 3 being pushed and SetPayload on the
  non-valid entry 2, the pushed element gets the payload of entry 2. `Update` and `Flag` are restricted to
  elements and to the entry being pushed.
- Nothing in the repository uses GlobalCheckpointTable yet. `CallPushFGR` and
  `CallRestoreFGR` state the weakest discipline under which it works. PopFGR leaves `V`,
  so a popped group can still be found: a number is used again only when
  no query could find it. RestoreFGR writes back the entry of the slot after the
  group, where a push recorded earlier in the cycle would be lost: a caller recovers
  before it pushes. A push after it may go to that very slot, and prevails. RestoreFGR clears `V` of the groups it walks through, so a second
  recovery from an older one is refused by the query; callers recover from a group once.

`RestoreFGR` starts at `restore + 1` and wraps to `size`, so it may read and write the
payload one past the end. What it reads there is a free choice of the model
(`beyond`); what it writes changes no slot. The write pointer it hands WALK may be one
past the end as well, and Eval then wraps it and turns its wrap bit: `WalkBit` compensates, and
`WalkFollows` shows that WALK holds just the groups up to the one recovered from.

A second push in a cycle overwrites the first (NextTopAddress does not look at
modifications): the abstract `Join` says so.

### Hardware and the classes that emulate it

The tests in `test/verilated` run a Verilog module and a C++ class side by side and
compare outputs for random inputs. The models do the same for all inputs: the registers of the
hardware and the fields of the class are variables of one module, a call of the
class sets the wire of the same meaning, and `Eval` comes with the clock edge.

- *Hardware FIFOs* (`HardwareFifos`). `Clock` is an edge with any `din`, `wen` and
  `ren`; `Reset` an edge of both with `resetn` low, which loads the words the parameters
  name. The shift version keeps its words in a register per place and a one-hot
  mark of the fill level; the RAM version two pointers with wrap bits. They must be the
  same queue and not be told apart at the outputs, `dout` while empty aside.
- *Bypass buffers* (`BypassBuffers`). An invalid payload and no payload are both
  `None`. `prev_o_ready` and `IsWritable`, which the differential tests do not compare, are
  compared too. `Conserves` states the transfer of data at an edge as an
  equation of short sequences: delivered and then kept is kept and then accepted.
- *Cross buffers* (`CrossBuffers`). `device` is chosen at the start, so a
  behaviour is one of one module. The stages before the ports offer numbered words
  until they are accepted and may pause; the stage behind checks each port's
  order. Numbers are kept modulo 2: a port holds at most one word.
- *LRU* (`PseudoLru`). The hardware walks its tree from the leaves with the
  valid inputs of the cycle; PseudoLRUPick sorts all subjects into an order at the edge
  and moves an index in it as subjects are declared valid. `Eval` clears the inputs of
  the cycle, and the wires of the hardware are cleared with them.

- *Memories* (`RamBench`). One port of the hardware carries the write of both emulated
  memories. A word is the set of its bits, so the three kinds of mask of the code
  (a mask, a mask operator, none) are one. `LoggedEdge` is `EvalEx` with a snapshot of the writes,
  `PlainEdge` is `Eval`. The list of delayed reads keeps its nodes: `rops` is the
  list, `tail` how far `rop_tail` is.
- *CAM and register file* (`CamBench`). One write goes to the contents and valid memories of the
  emulated CAM, to the hardware CAM, and to both register files.

A reset of the bypass buffers, the cross buffers, the memories and the LRU trees leads to the
initial state and is not an action of its own there; the FIFOs have it as one because it
loads words.

### Instruction set and control registers

`Rv64i` translates the code points of `riscv_64i.hpp` into a table of what each tests
and which executor it sets, the immediate decoders into sets of bits, and the executors into
an action on registers and program counter. `InstructionCaller` decodes any sequence of
presented words into the same record, with or without SetRaw before the execution.
`InstructionMeaning` is written from the fields of the word alone. Words are sets of bit positions because
TLC's integers have 32 bits; additions are carried in full at 64.

`CsrSpace` keeps the objects on a heap. An array is known by its space and the path to it; a register is any free place
that is kept for its space and address, so several made for one place can be live at once. Sharing, dangling pointers and
freeing twice are told by `OneOwner`. `SetCSR` over an existing register overwrites the pointer and deletes nothing
(`riscvcsr.hpp:616`): the old register stays live, out of reach, until the program ends. `Lost` is the set of such registers,
and `OnlyRedefinitionLoses` says that they come from nowhere else and stay lost. The map a caller
sees does not change by it: the space is shown to implement `CsrMap`. Definitions with READ_ONLY are names only: `SetValue` does not look.

`DecoderCollection` has `HasCanonical` in both overloads. The one for a `std::string` (`riscv.hpp:696`) forwards to `Has`
and not to the overload for a `const char*`, while `Has`, `Remove` and `RemoveCanonical` each forward to their own.
A decoder is not found by its canonical name with it, and after `RemoveCanonical` it may stay true of a decoder that has the name
as its plain name, as "RV64M" in the bench. `KeepsItsDecoder` says so: after the removal the overload for a `const char*` is false,
the one for a `std::string` true exactly in this case.

What the models taught about these parts beyond the findings below:

- A shift by an immediate takes its amount from the raw word, which no decoder sets: without
  SetRaw it is that of an earlier word. `jalr` links before it reads its base, so with rd = rs1 it
  jumps from the link. A store to register 0 stays in the array until an operand is read from it.
  `ExecutesItsWord` states what happens in these cases, and that it is all.
- A jump or branch to its own address leaves the counter as no jump does; who advances it cannot
  tell the two apart.
- In mode WRITE_FIRST a masked write is shown unmasked (`ReadsAgree`). `ResetReadPort` drops
  the reads of all ports. `EvalRead` leaves `rop_tail`, so without ResetRead the list grows with every read.
- With a content stored twice the hardware CAM answers no match, the emulation the lowest address
  (`QueriesAgree`). The test (`test/verilated/common_dffcam_1qa/csrc/main.cpp:185`) reads the address
  from the query port and so compares it with nothing the CAM computed.
- A copy of PhysicalRegisterFile loses the pending Set.
- Some code does not compile when it is used: `MemoryOperationSnapshot::Reset` (742), the step of its
  iterator (1053), the destructor of W1RDRandomAccessMemory (1795), the `function##(` of
  `riscv_64i.hpp:71` with gcc, RVInstruction used before it is declared in `riscv.hpp`. The models take
  what the text plainly means, or leave it out as said in PROJECT.json.
- The header of `common_bypass_bufferf.v` says ready is always high with an empty
  buffer. In the cycle after a flush it is low with an empty buffer, and
  an input of that cycle is captured if the next stage is not ready. A stage before
  it that holds `valid` until it sees `ready` would deliver twice; `Conserves` states
  exactly what happens (its case `~flushed /\ flush`). The class does the same.
- `PseudoLRUPick::GetPicked` answers 0 when nothing is valid, whereas its test waits for
  a negative answer. `IsPicked` is right, and `PicksAgree` is stated with it.
- The two-port cross buffers show `next_o_valid` with the data of port 1 when port 0
  alone has data and `next_i_ready` is low. Nothing is taken in that cycle, and `InOrder`
  is stated for cycles in which the next stage is ready.

## Runs

| Run | Instance | Shows |
|---|---|---|
| `rename` | 3 physical registers, 2 renamed ARFs, 1 checkpoint, 3 instructions in flight | the type and inductive invariants, NoLiveReallocation, LookupFindsNewest, BusyIsInFlight, OperandsIntact, ShadowIsCommitted, ReleasedAtCommit, and that RenameCore implements Renaming |
| `rename_nested` | 3 physical registers, 1 renamed ARF, 2 checkpoints | CheckpointsCurrent with nested branches, and Progress |
| `scoreboard_forward` | 2 registers | the forward flag is raised in a cycle nobody set it: a finding |
| `fifo` | 2 slots, 3 fetch groups, 2 checkpoints | the table is a bounded clocked queue although recoveries search and write it; no push of a cycle hits a live slot; WALK walks through the groups up to the one recovered from |
| `compressing_memory` | 4 entries, 2 payloads, symmetric | CompressingMemory implements AgeQueue; a push is refused only if every other entry was taken |
| `hardware_fifos` | depth 4, words 0 and 1, reset to 3 words | both versions implement FlowQueue and show the same ports |
| `hardware_fifo_full` | the same | a full FIFO accepts a write that comes with a read: a finding |
| `memories` | memories of 2 words of 2 bits, CAM and registers of 4, 4 subjects, 3 words | emulation and hardware agree, but for masked writes shown early and contents stored twice; snapshots undo and redo; W1RD implements DelayedReads; LRU picks and bypass buffers are the same, no loss and no repetition but for flushes |
| `isa` | 3 registers, 2 words into one record; 2 spaces, 3 addresses, up to 2 registers for one of them; 4 decoders | every word does what it means but for three cases; encodings are told apart; spaces are maps that share nothing, and lose a register only where one is defined again; a word keeps its decoder |
| `isa_slti` | the same | slti adds: a finding |
| `cross_buffers` | 2 and 4 ports, all four devices | order per port, one word taken at a time, and no starvation beyond the arbiter's promise |
| `cross_buffer4_lru` | the same | common_cross_buffer4 picks within the second pair by the register of the first: a finding |

*Bounds.* But for `MaxEntries`, `MaxReads`, `MaxDecodes` and `Heap` below nothing is cut off by a
counter: the state spaces are finite because registers, slots and the re-order buffer are. The table of `rename` is full with two
committed registers and one in flight, so allocation blocks and release matters;
three instructions in flight let a branch have older and younger ones, and the
same ARF be renamed on both sides of it. The proofs remove the bounds for the
safety properties. `rename_nested` has branches behind branches and restores of
either. Two slots let the
FIFO wrap, be full and be empty with both pointers anywhere, let the group recovered from be in the last
slot or not, and let the slot after it be live or free; with three groups one is new when the table is full.
Four entries let CompressingMemory have two holes with elements above, between
and below. Payloads are interchangeable there, and every property is one of states or
steps, so the symmetry is sound.

Depth 4 lets the hardware pointers wrap with every fill level at every place, and two words
tell places apart. `memories` and `isa` run independent benches
one at a time (`bench`), so their state spaces add up and do not multiply. Two addresses tell the one written from another, two
bits the masked from the unmasked; snapshots hold 2 entries (`MaxEntries`), so the order of two writes to
one word matters; 3 nodes of reads (`MaxReads`) let a cycle have several and leave old ones. The words of
`isa` are every funct3 of every opcode with the funct7 in use and their neighbours, every bit of the immediates by itself,
and corner cases of x0 and of equal registers; two of them in a row (`MaxDecodes`) show what the record keeps. `Heap` has two places for misa of each space and one for the others: misa can be defined
again, and a space from which one was lost be destroyed, built and copied into once more.
A bypass buffer holds one word, so three words are enough to tell
kept, offered and next from each other. Four subjects give an LRU tree with two
levels, hence a path, a bit off the path and two pairs. The cross buffers are checked at the
size they are built in.

*Fairness* (`FairSpec` of RenameCore, used by Progress). `EvalO3` runs issue, writeback, commit
and the cycle in every step, so each is weakly fair. No instruction in
particular is favoured, a branch may be mispredicted each time, and fetch may stop.
Weak fairness of the disjunction over the buffer is what one issue and one writeback per step gives.

In `CrossBuffers` it is the clock with the next stage ready that is weakly fair: a
stage that is ready again and again, as the reader of the test bench is. Nothing is
assumed of the stages before the ports. Under that, `Served` holds for each port of the round robin,
each *pair* of common_cross_buffer4 and port 0 of a priority, and would fail for a
single port of a pair or a low priority.

*Findings.* `Scoreboard::EntryModification::Apply` (`core_dispatch.hpp:580`)
tests `!IsForwardModified()`. A SetForward has no effect in its own cycle, and
its value comes back at every later modification of the same register,
while the comment at line 865 says the flag is cleared at every cycle because "Data in
forwarding network only holds for a cycle".

Both hardware FIFOs accept a write together with a read when full
(`common_fifo_ram_1w1r.v:55`), where the headers say a write is "always ignored when FIFO was
full". The record queue of the test bench expects what the code does.

`common_cross_buffer4.v:200` chooses between ports 2 and 3 by `r2_q[0]`, the register of
ports 0 and 1; `r2_q[1]` is never read. While ports 0 and 1 are quiet and 2 and 3 both busy,
one of the two waits for ever, which is not the "selective pseudo LRU" of the header.

The code point of `slti` (`riscv_64i.hpp:523`) sets the executor of `addi`. The executor that stores the comparison
is there (226) and not used.

## Proofs

Every theorem holds for every value of the constants that satisfies the named ASSUMEs, which only say what
the code has anyway: sizes are positive, instructions name registers there are, words and masks have
the width of their memory, `None` is not a value. Where a property is proved, TLC checks the same definition on
a small instance, so the two support each other. Each module states an inductive invariant (`IInv`, or the one named below), proves
`Init => IInv`, that each action keeps it, and then what follows.

| Module | Proves | For every |
|---|---|---|
| `RenameProofs` | TypeOK, NoLiveReallocation, LookupFindsNewest, BusyIsInFlight, CheckpointsCurrent, OperandsIntact, ShadowIsCommitted, ReleasedAtCommit; RenameCore implements Renaming | number of registers, checkpoints and instructions in flight, and program |
| `FifoProofs` | TableTypeOK, PushesHitFreeSlots, WalkFollows; the table implements BoundedQueue | ring size, set of groups and checkpoints |
| `HardwareFifoProofs` | TypeOK, PortsAgree; both FIFOs implement FlowQueue | depth, reset state and set of words |
| `CompressingMemoryProofs` | CMTypeOK, RefusedOnlyWhenFull; the memory implements AgeQueue | number of entries and payloads |
| `MemoryProofs` | ReadsAgree, AnswersReads (with the refinement of DelayedReads), SnapshotUndoes, QueriesAgree, RegistersAgree, SameOutputs, Conserves; PicksAgree, and what no run checks: the subject used last is picked only if no other is valid | size and width of the memories, length of a snapshot and of the list of reads, set of data; depth of the LRU trees, from two subjects on |
| `CrossBufferProofs` | InOrder, OneIsTaken | device |
| `CsrProofs` | OneOwner, OnlyRedefinitionLoses; a space implements CsrMap | set of spaces, addresses and values, and heap |
| `IsaProofs` | ImmediatesAgree, AcceptsEncodings, ExecutesItsWord; KeepsItsDecoder | sequence of instruction words of 32 bits, values of registers and program counter; set of decoders |

**Renaming.** None of the properties is inductive alone: that Touch takes a free register
needs that live registers are marked NRA, which needs that a release never hits
one, which needs that registers in flight are busy, which after a restore needs
that the checkpoints are current, which needs that names do not change
between. `IInv` conjoins

- `Shape`: destinations, committed registers and checkpoints in flight are distinct;
- `Allocated`: live registers are NRA, with their ARF, *after the next edge*;
- `Mapped`: V, busy and the checkpoints, after the next edge, are what the
  re-order buffer says;
- `Operands`: a waiting instruction's source is the newest name before it;
- `Shadow`: the shadow table is the committed state;
- `Pending`: what may be recorded in a cycle with no fetch or no commit so far,
  and that an instruction fetched in an earlier cycle is already busy (so
  LandAndRelease, which reads the state before the edge, skips it).

Stating the table parts on the *next* view (`NRANext`, `VNext`, `BusyNext`,
`BusyCheckpointsNext`, ..) makes the order of calls in a cycle irrelevant: a call changes the next
view and the buffer together, and the edge changes neither (`EdgeKeepsNext`).
The proof has a lemma per action (`InvJoin`, `InvTouch`, `InvStatus`,
`InvMispredict`, `InvCommit`, `InvRecover`, `InvSetARF`, `InvCycle`) over lemmas about names in
a growing and a shrinking buffer (`AppendDest`, `AppendNoDest`, `TailShift`). The refinement compares the abstract
alias with the newest name in the buffer (`AliasIsNewest`) and then each action with its abstract step.

**FIFO and its table.** `RingOK` bounds the calls counted in a cycle by the room there is, `WritesOK` says which of the
recorded writes are pushes, at which slots, and that a recovery writes what is there with `V` cleared;
`NumbersOK` that a number stands in one valid entry, so that a query finds the group meant; `WalkOK` what RestoreFGR
may have set. The arithmetic of wrap bits is in a few lemmas about `SlotAt`. The last needed most:
the pointer one past the end that RestoreFGR hands WALK is equal to the pointer 0 with the other wrap bit.

**Hardware FIFOs.** `RamOK` and `ShiftOK` type the registers and say that the mark is one-hot; the third part, that the cells
between the pointers are the words of the shift register from the bottom, is what makes the ports agree.

**CompressingMemory.** `ModifiedInUse`, that only elements and the entry being pushed are modified, is what the code
asks of its callers; without it the refinement fails, as TLC showed.

**Memories.** `SameContents`, `SameRegisters`, `SameCam` and `SameBuffers` say that the emulation holds what the flip-flops
hold and that the recorded write is the one on the wires. `ReadsInList` types the nodes in use, and nothing of those after
`rop_tail`, which a cancelled cycle leaves valid. `SnapshotRow` says that there is a row of contents from the ones
the snapshot was made from to those of now, each made of the one before by an entry and giving it back; undoing and redoing both go
along it (`RowUndoes`, by the least place in which they do not).

**LRU.** The hardware goes down a tree of bits with the valid inputs of the cycle, PseudoLRUPick sorts all subjects at the
edge and takes the first valid one, PseudoLRUSwap walks: three recursions, over different nodes. They are compared level by
level. The nodes of a level stand in an order (`NodeAt`), in which the two children of each node follow it in the order of its bit
(`ChildrenInOrder`); in the last level that is the order of the subjects, which holds each once (`OrderPermutes`). The tree
selects in every level the first node with something valid below it (`FirstIsSelected`, `PickIsFirst`), Swap does the same with all of them valid
(`SwapIsFirst`), and the walk comes to the first (`WalkedIsFirst`). The bits of the two sides change alike at an edge although one finds the nodes
above a subject by dividing its index and the other by what is used below each node (`UpdatesAgree`); afterwards every node above the subject points to
the other side, so it stands last (`UsedComesLast`). `LruInv` relates the bits, the order and the index into it. That the
functions the recursions define exist and obey their equations for every depth is proved first (`RecursionExists`, for
any recursion along a rank), and induction over the levels is by sets of levels (`UpTo`).

**Cross buffers.** `KeepsExpected` says that a port keeps the word expected next of it, its sender being one ahead, or is empty and
level with its sender. A lemma per arbiter shows that it picks exactly one waiting port whatever its registers hold
(`RoundRobinPicksOne`, `PseudoLRUPicksOne`, `PriorityPicksOne`). So order and delivery do not depend on how the
registers of an arbiter move, and only fairness between the ports does.

**Control registers.** `Typed`, `Rooted` and `Linked` say that the arrays of a space are a tree in which a pointer is null
exactly where the array is missing, and that an array is known by its name. Registers are not: of those made for a place several may be
live. `Held` says that the one pointed to is live and was made for that place, which keeps two pointers apart. Nothing is
said of registers without a pointer, so the invariant leaves room for the lost ones; a lemma per call then shows what it does
to `Lost` (`SetLoses`, `CopyLoses`, `DestroyLoses`). The refinement needs all four
parts, since a definition may find any part of the path to a register there or missing.

**Instruction words.** `CallerInv` says that the registers *as the caller sees them* (`Gets`) are words, since register 0 may hold
a stored value until it is read; and that a record not yet executed was filled by a code point that accepted its word and has the fields
the type of that point decodes (`Records`), whatever an earlier word left in the others. `DecodeRecords` and `CallerInvExecute` show that
Decode and Execute keep it. From it follow, for every word of 32 bits: `ImmediateOfWord`, by a lemma about the bits of a moved
field and one per format; `AcceptedIsEncoded`, by the opcode and then the fields that each code group tests; and a lemma per code group
about what it executes (`ExecutesWide`, `ExecutesNarrow`, `ExecutesRegister`, `ExecutesBranch`, `ExecutesUpper`, `ExecutesJalr`). The three exceptions
of ExecutesItsWord are the same word with another operand: without bit 13 (`Unset13`), or with the shift amount of the raw
word (`RestaledWord`), or with the link for the base. `CallerAssumption` asks of the words presented that they have 32 bits
and name registers there are, which is so for all of them with the registers 0 to 31 of the code.

**Decoders.** `DistinctNames` follows from the two refusals of Add, and a word keeps its decoder because a
removal moves the others up without changing their order.

*Only model-checked.* Progress and Served are liveness, which needs fairness. Everything else the runs check is proved. The four
findings are violations, which TLC shows.

## Plan

In this order; the first two are done.

1. Renaming core, its proofs, the scoreboard alone; FIFO and GlobalCheckpointTable; CompressingMemory;
   hardware FIFOs; bypass buffers; cross buffers; pseudo LRU; memories, CAM, register file; RV64I, control
   registers and decoders; the proofs above.
2. Proofs of every size: the queues, memories, buffers, control registers and decoders, and the refinements of
   Renaming, BoundedQueue, FlowQueue, AgeQueue, DelayedReads and CsrMap; every word of 32 bits executes as it means; LRU trees of
   every depth. Done, as the section above tells.
3. The in-order reference pipeline against the O3 loop with values and executed instructions. Both
   halves of `vmc_core.hpp` need the interface of the tables it was written for.

## Not modelled

The components with status `not_modelled` in `PROJECT.json`, and most of the macros: the reference pipeline, the instruction
set extensions (constants and declarations without code), and the parts without a protocol of their
own (Verilog macros and standard cells but for those a modelled module instantiates, the console, build
scripts, test drivers).

Left out of modelled parts: textualizers, the RV32 normal forms and XLEN 32, which have no caller; `RV64IDecoder::Decode`
and the groups of loads, stores, fences and system instructions, which are declared only; memories of several write
ports, which are empty classes; RAMs and CAMs with a second query or write port; the binary address encodings of
the LRU modules; a copy of the register file taken with a Set pending, which
loses it (`core_issue.hpp:54`; `CopyRegisters` is called with nothing pending); that PseudoLRUPick reorders its subjects
in place (the model computes the order that results); copies of the tables (`core_dispatch.hpp:739` copies more checkpoints than there are);
`ShadowRegisterAliasTable::GetAliasPRF`, which nothing calls and which would find an older name, since nothing
clears `V` there; the re-order buffer of the test bench, which grows without bound, is bounded by `ROBSize`.
