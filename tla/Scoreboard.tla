----------------------------- MODULE Scoreboard -----------------------------
(***************************************************************************)
(* MEMU::Core::Issue::Scoreboard (main/emulated/core_dispatch.hpp): one    *)
(* busy and one forward flag for every physical register, and GCCount      *)
(* checkpoints of the busy flags.  The class is a clocked circuit: a call  *)
(* only records a modification, Eval applies what was recorded and clears  *)
(* the record.  A per-register flag is the set of the registers that have  *)
(* it; the per-register modification records are split the same way.       *)
(***************************************************************************)
EXTENDS Integers

CONSTANTS
  PRFSize,  \* EMULATED_PRF_SIZE: how many physical registers
  GCCount   \* EMULATED_GC_COUNT: how many global checkpoints

ASSUME ScoreboardAssumption ==
  /\ PRFSize \in Nat \ {0}
  /\ GCCount \in Nat \ {0}

PRFs == 0 .. PRFSize - 1
GCs  == 0 .. GCCount - 1
None == -1

VARIABLES
  busy,          \* registers whose value is still to be produced
  forward,       \* registers whose value is on the forwarding network
  busySet,       \* modified_busy, to be asserted
  busyClear,     \* modified_busy, to be de-asserted
  landed,        \* modified_land
  forwardMod,    \* modified_forward
  forwardValue,  \* EntryModification::forward is true; no Reset clears it
  sbCheckpoints, \* the busy flags every checkpoint holds
  sbAllocate,    \* checkpoint_allocate
  sbRestore      \* checkpoint_restore

sbState   == <<busy, forward, forwardValue, sbCheckpoints>>
sbBusyMod == <<busySet, busyClear, landed>>
sbGCInput == <<sbAllocate, sbRestore>>
sbVars    == <<sbState, sbBusyMod, forwardMod, sbGCInput>>

ScoreboardTypeOK ==
  /\ busy \in SUBSET PRFs
  /\ forward \in SUBSET PRFs
  /\ busySet \in SUBSET PRFs
  /\ busyClear \in SUBSET PRFs
  /\ landed \in SUBSET PRFs
  /\ forwardMod \in SUBSET PRFs
  /\ forwardValue \in SUBSET PRFs
  /\ sbCheckpoints \in [GCs -> SUBSET PRFs]
  /\ sbAllocate \in GCs \cup {None}
  /\ sbRestore \in GCs \cup {None}

-----------------------------------------------------------------------------
(* The constructor leaves modified_land uninitialised: whatever was in     *)
(* memory stays there until the first ResetInput.                          *)
ScoreboardInit ==
  /\ busy = {} /\ forward = {}
  /\ busySet = {} /\ busyClear = {}
  /\ landed \in SUBSET PRFs
  /\ forwardMod = {} /\ forwardValue = {}
  /\ sbCheckpoints = [g \in GCs |-> {}]
  /\ sbAllocate = None /\ sbRestore = None

IsBusy(prf) == prf \in busy

IsForward(prf) == prf \in forward

SetBusy(prf, val) ==
  /\ busySet'   = IF val THEN busySet \cup {prf} ELSE busySet \ {prf}
  /\ busyClear' = IF val THEN busyClear \ {prf} ELSE busyClear \cup {prf}

Land(prf) ==
  /\ SetBusy(prf, FALSE)
  /\ landed' = landed \cup {prf}

TakeOff(prf) ==
  /\ SetBusy(prf, TRUE)
  /\ UNCHANGED landed

SetForward(prf, val) ==
  /\ forwardMod'   = forwardMod \cup {prf}
  /\ forwardValue' = IF val THEN forwardValue \cup {prf} ELSE forwardValue \ {prf}

(* Mutant: the checkpoint index is off by one.                             *)
AllocateBusyCheckpointOffByOne(g) == sbAllocate' = g + 1

AllocateBusyCheckpoint(g) == sbAllocate' = g

RestoreBusyCheckpoint(g) == sbRestore' = g

-----------------------------------------------------------------------------
Modified == busySet \cup busyClear \cup forwardMod

(* Mutant: a landing register is not written through.                      *)
BusyCheckpointsNoLand ==
  [g \in GCs |-> IF g = sbAllocate THEN busy ELSE sbCheckpoints[g]]

(* The checkpoints after the clock edge: one may be allocated from the     *)
(* flags before the edge, and a landing register is written through to     *)
(* all of them.                                                            *)
BusyCheckpointsNext ==
  [g \in GCs |->
     (IF g = sbAllocate THEN busy ELSE sbCheckpoints[g]) \ (landed \cap Modified)]

(* Mutant: modifications of the cycle are applied on top of the restored   *)
(* flags.                                                                  *)
BusyNextModifyLast ==
  ((IF sbRestore = None THEN busy ELSE BusyCheckpointsNext[sbRestore])
     \ busyClear) \cup busySet

BusyNext ==
  IF sbRestore = None
  THEN (busy \ busyClear) \cup busySet
  ELSE BusyCheckpointsNext[sbRestore]

(* EntryModification::Apply writes the recorded forward flag when          *)
(* SetForward was NOT called in this cycle.                                *)
ForwardNext == (Modified \ forwardMod) \cap forwardValue

ScoreboardEval ==
  /\ busy' = BusyNext
  /\ forward' = ForwardNext
  /\ sbCheckpoints' = BusyCheckpointsNext
  /\ busySet' = {} /\ busyClear' = {} /\ landed' = {} /\ forwardMod' = {}
  /\ sbAllocate' = None /\ sbRestore' = None
  /\ UNCHANGED forwardValue

ScoreboardResetInput ==
  /\ busySet' = {} /\ busyClear' = {} /\ landed' = {} /\ forwardMod' = {}
  /\ sbAllocate' = None /\ sbRestore' = None
  /\ UNCHANGED sbState

ScoreboardClear ==
  /\ busy' = {} /\ forward' = {}
  /\ UNCHANGED <<forwardValue, sbCheckpoints, sbBusyMod, forwardMod, sbGCInput>>

-----------------------------------------------------------------------------
(* The Scoreboard alone, under every sequence of its public calls: any     *)
(* number of modifications of any registers in a cycle, in any order.      *)
CallSetBusy(prf, val) ==
  /\ SetBusy(prf, val)
  /\ UNCHANGED <<sbState, landed, forwardMod, sbGCInput>>

CallLand(prf) ==
  /\ Land(prf)
  /\ UNCHANGED <<sbState, forwardMod, sbGCInput>>

CallTakeOff(prf) ==
  /\ TakeOff(prf)
  /\ UNCHANGED <<sbState, forwardMod, sbGCInput>>

CallSetForward(prf, val) ==
  /\ SetForward(prf, val)
  /\ UNCHANGED <<busy, forward, sbCheckpoints, sbBusyMod, sbGCInput>>

CallAllocateCheckpoint(g) ==
  /\ AllocateBusyCheckpoint(g)
  /\ UNCHANGED <<sbState, sbBusyMod, forwardMod, sbRestore>>

CallRestoreCheckpoint(g) ==
  /\ RestoreBusyCheckpoint(g)
  /\ UNCHANGED <<sbState, sbBusyMod, forwardMod, sbAllocate>>

CallsNext ==
  \/ \E prf \in PRFs, val \in BOOLEAN : CallSetBusy(prf, val)
  \/ \E prf \in PRFs : CallLand(prf)
  \/ \E prf \in PRFs : CallTakeOff(prf)
  \/ \E prf \in PRFs, val \in BOOLEAN : CallSetForward(prf, val)
  \/ \E g \in GCs : CallAllocateCheckpoint(g)
  \/ \E g \in GCs : CallRestoreCheckpoint(g)
  \/ ScoreboardResetInput
  \/ ScoreboardClear
  \/ ScoreboardEval

CallsSpec == ScoreboardInit /\ [][CallsNext]_sbVars

-----------------------------------------------------------------------------
(* "Clear forward flag at every clock cycle.  Data in forwarding network   *)
(* only holds for a cycle": after an edge only the registers SetForward    *)
(* asserted in the cycle that ends have the flag.                          *)
ForwardHoldsForOneCycle ==
  [][ScoreboardEval => forward' \subseteq forwardMod \cap forwardValue]_sbVars
=============================================================================
