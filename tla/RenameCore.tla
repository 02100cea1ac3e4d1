----------------------------- MODULE RenameCore -----------------------------
(***************************************************************************)
(* The renaming core of the out-of-order processor: RegisterAliasTable,    *)
(* Scoreboard and ShadowRegisterAliasTable under the calls the O3 core     *)
(* loop makes of them (EvalO3Fetch .. EvalO3Cycle of                       *)
(* test/emulated/core/vmc_core.hpp): at most one instruction is fetched    *)
(* and one committed in a cycle, in any order within the cycle.            *)
(*                                                                         *)
(* The re-order buffer is a sequence in program order.  A branch holds a   *)
(* checkpoint until it is resolved; a mispredicted one restores it and     *)
(* drops every younger instruction.                                        *)
(***************************************************************************)
EXTENDS ShadowRegisterAliasTable, Sequences

CONSTANTS
  ROBSize,       \* EMULATED_ROB_SIZE, the bound on instructions in flight
  Instructions,  \* the <<destination, source>> pairs the program may contain
  Branches       \* the sources its branches may have

ASSUME CoreAssumption ==
  /\ ROBSize \in Nat \ {0}
  /\ Instructions \subseteq ARFs \X ARFs
  /\ Branches \subseteq ARFs

VARIABLES
  rob,        \* the instructions in flight, oldest first
  arch,       \* the register that holds the committed value of every ARF
  fetched,    \* an instruction was fetched, or fetch is blocked, this cycle
  committed   \* an instruction was committed this cycle

coreVars == <<rob, arch, fetched, committed>>
vars == <<sbVars, ratVars, sratVars, coreVars>>

(* src is the register the instruction reads, None when it is ARF 0 or was *)
(* never written; gc is the checkpoint an unresolved branch holds.         *)
Status == {"new", "wait", "exec", "done"}

Instruction ==
  [arf : ARFs, prf : PRFs \cup {None}, src : PRFs \cup {None},
   gc : GCs \cup {None}, st : Status]

IsBranch(i) == i.gc # None

(* Mutant: only the youngest branch counts.                                *)
HeldCheckpointsYoungest ==
  IF rob = <<>> THEN {} ELSE {rob[Len(rob)].gc}

HeldCheckpoints == {rob[k].gc : k \in DOMAIN rob}

Init ==
  /\ ScoreboardInit /\ RATInit /\ SRATInit
  /\ rob = <<>>
  /\ arch = [a \in Renamed |-> None]
  /\ fetched = FALSE /\ committed = FALSE

-----------------------------------------------------------------------------
Entry(arf, prf, srcArf, gc) ==
  [arf |-> arf, prf |-> prf, src |-> GetAliasPRF(srcArf), gc |-> gc, st |-> "new"]

CanFetch == ~fetched /\ Len(rob) < ROBSize

(* An instruction that writes arf: the sources are renamed before Touch.   *)
Fetch(arf, srcArf) ==
  \E p \in PRFs :
    /\ CanFetch /\ arf # 0
    /\ Touch(p, arf)
    /\ TakeOff(p)
    /\ rob' = Append(rob, Entry(arf, p, srcArf, None))
    /\ fetched' = TRUE
    /\ UNCHANGED <<sbState, forwardMod, sbGCInput, ratState, ratGCInput,
                   sratVars, arch, committed>>

(* An instruction without a destination: Touch of ARF 0 does nothing.      *)
FetchNoDest(arf, srcArf) ==
  /\ CanFetch /\ arf = 0
  /\ rob' = Append(rob, Entry(0, None, srcArf, None))
  /\ fetched' = TRUE
  /\ UNCHANGED <<sbVars, ratVars, sratVars, arch, committed>>

(* A branch takes a free checkpoint.                                       *)
FetchBranch(srcArf) ==
  \E g \in GCs \ HeldCheckpoints :
    /\ CanFetch
    /\ AllocateBusyCheckpoint(g) /\ AllocateAliasCheckpoint(g)
    /\ rob' = Append(rob, Entry(0, None, srcArf, g))
    /\ fetched' = TRUE
    /\ UNCHANGED <<sbState, sbBusyMod, forwardMod, sbRestore, ratState,
                   ratMod, ratRestore, sratVars, arch, committed>>

(* The operand is read from the register file once its register has landed *)
(* (IN_ARF), before that from the re-order buffer once it is there (IN_ROB)*)
OperandReady(p) ==
  ~IsBusy(p) \/ \E j \in DOMAIN rob : rob[j].prf = p /\ rob[j].st = "done"

Issue(k) ==
  /\ rob[k].st = "wait"
  /\ rob[k].src # None => OperandReady(rob[k].src)
  /\ rob' = [rob EXCEPT ![k].st = "exec"]
  /\ UNCHANGED <<sbVars, ratVars, sratVars, arch, fetched, committed>>

(* The result goes to the re-order buffer; a correctly predicted branch    *)
(* gives its checkpoint back.                                              *)
Writeback(k) ==
  /\ rob[k].st = "exec"
  /\ rob' = [rob EXCEPT ![k].st = "done", ![k].gc = None]
  /\ UNCHANGED <<sbVars, ratVars, sratVars, arch, fetched, committed>>

(* A mispredicted branch: both tables restore its checkpoint, everything   *)
(* younger is dropped and nothing is fetched until the next cycle.         *)
Mispredict(k) ==
  /\ rob[k].st = "exec" /\ IsBranch(rob[k])
  /\ RestoreBusyCheckpoint(rob[k].gc) /\ RestoreAliasCheckpoint(rob[k].gc)
  /\ rob' = Append(SubSeq(rob, 1, k - 1), [rob[k] EXCEPT !.st = "done", !.gc = None])
  /\ fetched' = TRUE
  /\ UNCHANGED <<sbState, sbBusyMod, forwardMod, sbAllocate, ratState,
                 ratMod, ratAllocate, sratVars, arch, committed>>

(* The oldest instruction is done: its value is written, its register      *)
(* lands and the previous register of its ARF is released.                 *)
Commit ==
  /\ ~committed
  /\ rob # <<>> /\ Head(rob).st = "done"
  /\ rob' = Tail(rob)
  /\ committed' = TRUE
  /\ IF Head(rob).prf = None
     THEN UNCHANGED <<sbVars, ratVars, sratVars, arch, fetched>>
     ELSE LET h == Head(rob) IN
          /\ Land(h.prf)
          /\ LandAndRelease(h.prf)
          /\ ShadowCommit(h.prf, h.arf)
          /\ arch' = [arch EXCEPT ![h.arf] = h.prf]
          /\ UNCHANGED <<sbState, forwardMod, sbGCInput, ratState, ratGCInput,
                         sratState, fetched>>

(* Nothing is in flight and no commit is pending: the names squashed       *)
(* instructions left allocated are given back.  Nothing is fetched in the  *)
(* same cycle, SyncNRA has the highest priority.                           *)
Recover ==
  /\ rob = <<>> /\ ~fetched /\ ~committed
  /\ SyncNRA(sNRA)
  /\ fetched' = TRUE
  /\ UNCHANGED <<sbVars, ratState, ratGCInput, sratVars, rob, arch, committed>>

(* The console writes an architectural register between cycles.            *)
SetARF(arf) ==
  \E p \in PRFs :
    /\ rob = <<>> /\ ~fetched /\ ~committed
    /\ TouchAndCommit(p, arf)
    /\ ShadowCommit(p, arf)
    /\ arch' = [arch EXCEPT ![arf] = p]
    /\ fetched' = TRUE /\ committed' = TRUE
    /\ UNCHANGED <<sbVars, ratState, ratGCInput, sratState, rob>>

(* The clock edge.  A reservation of this cycle may issue from the next on.*)
Cycle ==
  /\ ScoreboardEval /\ RATEval /\ SRATEval
  /\ rob' = [k \in DOMAIN rob |->
               IF rob[k].st = "new" THEN [rob[k] EXCEPT !.st = "wait"] ELSE rob[k]]
  /\ fetched' = FALSE /\ committed' = FALSE
  /\ UNCHANGED arch

Next ==
  \/ \E i \in Instructions : Fetch(i[1], i[2])
  \/ \E i \in Instructions : FetchNoDest(i[1], i[2])
  \/ \E srcArf \in Branches : FetchBranch(srcArf)
  \/ \E k \in DOMAIN rob : Issue(k)
  \/ \E k \in DOMAIN rob : Writeback(k)
  \/ \E k \in DOMAIN rob : Mispredict(k)
  \/ Commit
  \/ Recover
  \/ \E arf \in Renamed : SetARF(arf)
  \/ Cycle

Spec == Init /\ [][Next]_vars

(* EvalO3 runs every stage in every step, so each of them goes on as long  *)
(* as it has something to do.                                              *)
Fairness ==
  /\ WF_vars(\E k \in DOMAIN rob : Issue(k))
  /\ WF_vars(\E k \in DOMAIN rob : Writeback(k))
  /\ WF_vars(Commit)
  /\ WF_vars(Cycle)

FairSpec == Spec /\ Fairness

-----------------------------------------------------------------------------
TypeOK ==
  /\ ScoreboardTypeOK /\ RATTypeOK /\ SRATTypeOK
  /\ rob \in Seq(Instruction)
  /\ arch \in [Renamed -> PRFs \cup {None}]
  /\ fetched \in BOOLEAN
  /\ committed \in BOOLEAN

(* The registers the first k instructions in flight write.                 *)
InFlight(k) == {p \in PRFs : \E j \in 1 .. k : rob[j].prf = p}

(* The registers that hold the committed values.                           *)
Committed == {p \in PRFs : \E arf \in Renamed : arch[arf] = p}

Live == InFlight(Len(rob)) \cup Committed

(* p holds the newest value of arf among the committed registers and the   *)
(* first k instructions in flight.                                         *)
Names(p, arf, k) ==
  \/ \E j \in 1 .. k :
       /\ rob[j].prf = p /\ rob[j].arf = arf
       /\ \A i \in j + 1 .. k : rob[i].arf # arf
  \/ /\ arch[arf] = p
     /\ \A i \in 1 .. k : rob[i].arf # arf

NameMap(k) == {p \in PRFs : \E arf \in Renamed : Names(p, arf, k)}

(* Touch never hands out a register that an instruction in flight will     *)
(* write or that holds a committed value, whatever was released, restored  *)
(* or synchronised before.                                                 *)
NoLiveReallocation == ~fetched /\ ~IsFull => GetNextEntry \notin Live

(* A lookup at fetch finds exactly the newest name in program order: no    *)
(* ARF has two valid names ("multiple V is fault"), none is lost.          *)
LookupFindsNewest ==
  ~fetched => \A arf \in Renamed :
                ValidNames(arf) = {p \in PRFs : Names(p, arf, Len(rob))}

(* From the next edge on the busy registers are the ones in flight: a      *)
(* squashed one does not stay busy, which would block its readers, and one *)
(* still to be written does not look ready.                                *)
BusyIsInFlight == BusyNext = InFlight(Len(rob))

(* Whatever has landed since, the checkpoint of a branch in flight gives   *)
(* back the names and the busy flags as of that branch.                    *)
CheckpointsCurrent ==
  \A k \in DOMAIN rob : IsBranch(rob[k]) =>
    /\ AliasCheckpointsNext[rob[k].gc] = NameMap(k)
    /\ BusyCheckpointsNext[rob[k].gc] = InFlight(k)

(* The register a waiting instruction renamed its source to still holds,   *)
(* or will hold, the value that is the newest before it in program order.  *)
OperandsIntact ==
  \A k \in DOMAIN rob : rob[k].st \in {"new", "wait"} /\ rob[k].src # None =>
    /\ rob[k].src \in NameMap(k - 1)
    /\ rob[k].src \in NRANext

(* The shadow table knows exactly the registers that hold committed        *)
(* values: what SyncNRA copies neither frees one nor keeps another.        *)
ShadowIsCommitted == SNRANext = Committed

(* Once the register of a committing instruction has landed, every other   *)
(* allocated register of its ARF holds a live value, except one that was   *)
(* squashed in that very cycle: it waits for the next commit of the ARF.   *)
ReleasedAtCommit ==
  [][committed /\ Cycle =>
       \A q \in landed \cap busy, p \in NRA' :
         ARF'[p] = ARF[q] => p \in Live \cup busy \cup nraSet]_vars

(* The contract of module Renaming, on the tables as the next edge leaves  *)
(* them.                                                                   *)
Abstract == INSTANCE Renaming WITH
  Registers <- PRFs,
  Architectural <- Renamed,
  Nil <- None,
  window <- [k \in DOMAIN rob |-> <<rob[k].arf, rob[k].prf>>],
  home <- arch,
  alias <- [a \in Renamed |->
              LET names == {p \in VNext : ARFNext[p] = a}
              IN  IF names = {} THEN None ELSE First(names)],
  ready <- PRFs \ BusyNext

ImplementsRenaming == Abstract!Spec

(* The core never stops on a register that stays busy: as long as          *)
(* instructions are in flight, one is committed again and again.           *)
Progress == []<>(rob = <<>> \/ committed)

-----------------------------------------------------------------------------
(* The inductive invariant.  The tables are related to the re-order buffer *)
(* as the next edge leaves them, so that Cycle changes nothing; the parts  *)
(* on pending modifications say what the tables before the edge are.       *)
Shape ==
  /\ \A k \in DOMAIN rob :
       /\ rob[k].arf = 0 <=> rob[k].prf = None
       /\ IsBranch(rob[k]) => rob[k].arf = 0 /\ rob[k].st # "done"
       /\ rob[k].st = "new" => k = Len(rob) /\ fetched
  /\ \A j, k \in DOMAIN rob : j # k =>
       /\ rob[j].prf # None => rob[j].prf # rob[k].prf
       /\ rob[j].gc # None => rob[j].gc # rob[k].gc
  /\ \A a, b \in Renamed : a # b /\ arch[a] # None => arch[a] # arch[b]
  /\ \A k \in DOMAIN rob, a \in Renamed :
       rob[k].prf # None => rob[k].prf # arch[a]

Allocated ==
  /\ Live \subseteq NRANext
  /\ \A k \in DOMAIN rob : rob[k].prf # None => ARFNext[rob[k].prf] = rob[k].arf
  /\ \A a \in Renamed : arch[a] # None => ARFNext[arch[a]] = a

Mapped ==
  /\ VNext = NameMap(Len(rob))
  /\ BusyIsInFlight
  /\ CheckpointsCurrent

Operands ==
  \A k \in DOMAIN rob : rob[k].st \in {"new", "wait"} /\ rob[k].src # None =>
    rob[k].src \in NameMap(k - 1)

Shadow ==
  /\ ShadowIsCommitted
  /\ \A a \in Renamed : arch[a] # None => SARFNext[arch[a]] = a

Pending ==
  /\ sbAllocate = ratAllocate /\ sbRestore = ratRestore
  /\ forwardMod = {} /\ busyClear \subseteq landed
  /\ ~fetched => /\ busySet = {} /\ nraSet = {} /\ vSet = {} /\ vClear = {}
                 /\ arfMod = [p \in PRFs |-> 0]
                 /\ ratAllocate = None /\ ratRestore = None
  /\ ~committed => /\ sNRASet = {} /\ sNRAClear = {}
                   /\ sARFMod = [p \in PRFs |-> 0]
                   /\ \A a \in Renamed : arch[a] # None => arfMod[arch[a]] = 0
  /\ \A k \in DOMAIN rob : rob[k].prf # None =>
       IF rob[k].st = "new"
       THEN rob[k].prf \in nraSet
       ELSE rob[k].prf \in busy /\ arfMod[rob[k].prf] = 0

IInv ==
  TypeOK /\ Shape /\ Allocated /\ Mapped /\ Operands /\ Shadow /\ Pending

=============================================================================
