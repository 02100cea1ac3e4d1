------------------------- MODULE RegisterAliasTable -------------------------
(***************************************************************************)
(* MEMU::Core::Issue::RegisterAliasTable (main/emulated/core_dispatch.hpp):*)
(* one entry per physical register.  NRA marks the entry not               *)
(* reallocate-able, V marks the newest name of the architectural register  *)
(* ARF.  The constant PRF field of entry i is i.  Calls are recorded and   *)
(* applied by Eval, like the Scoreboard's, which the table reads.          *)
(***************************************************************************)
EXTENDS Scoreboard

CONSTANT ARFSize  \* EMULATED_ARF_SIZE; register 0 is never renamed

ASSUME ARFAssumption == ARFSize \in Nat \ {0}

ARFs    == 0 .. ARFSize - 1
Renamed == ARFs \ {0}

VARIABLES
  NRA,             \* entries that must not be reallocated
  V,               \* entries that are the newest name of their ARF
  ARF,             \* the architectural register of every entry
  nraSet,          \* pending SetNRA(true)
  nraClear,        \* pending SetNRA(false)
  vSet,            \* pending SetValid(true)
  vClear,          \* pending SetValid(false)
  arfMod,          \* pending SetARF, 0 where there is none
  ratCheckpoints,  \* the V flags every checkpoint holds
  ratAllocate,     \* checkpoint_allocate
  ratRestore       \* checkpoint_restore

ratState   == <<NRA, V, ARF, ratCheckpoints>>
ratMod     == <<nraSet, nraClear, vSet, vClear, arfMod>>
ratGCInput == <<ratAllocate, ratRestore>>
ratVars    == <<ratState, ratMod, ratGCInput>>

RATTypeOK ==
  /\ NRA \in SUBSET PRFs
  /\ V \in SUBSET PRFs
  /\ ARF \in [PRFs -> ARFs]
  /\ nraSet \in SUBSET PRFs
  /\ nraClear \in SUBSET PRFs
  /\ vSet \in SUBSET PRFs
  /\ vClear \in SUBSET PRFs
  /\ arfMod \in [PRFs -> ARFs]
  /\ ratCheckpoints \in [GCs -> SUBSET PRFs]
  /\ ratAllocate \in GCs \cup {None}
  /\ ratRestore \in GCs \cup {None}

RATInit ==
  /\ NRA = {} /\ V = {}
  /\ ARF = [p \in PRFs |-> 0]
  /\ nraSet = {} /\ nraClear = {} /\ vSet = {} /\ vClear = {}
  /\ arfMod = [p \in PRFs |-> 0]
  /\ ratCheckpoints = [g \in GCs |-> {}]
  /\ ratAllocate = None /\ ratRestore = None

-----------------------------------------------------------------------------
(* The priority encoder both loops over the table are: the lowest index.   *)
First(S) == CHOOSE p \in S : \A q \in S : p <= q

ValidNames(arf) == {p \in V : ARF[p] = arf}

GetAliasPRF(arf) ==
  IF arf = 0 \/ ValidNames(arf) = {} THEN None ELSE First(ValidNames(arf))

IsFull == NRA = PRFs

GetNextEntry == First(PRFs \ NRA)

(* Invalidate stops at the first hit.                                      *)
Invalidated(arf) ==
  IF ValidNames(arf) = {} THEN {} ELSE {First(ValidNames(arf))}

(* Mutant: the busy flags are not looked at.                               *)
ReleasedIgnoringBusy(prf) ==
  {p \in PRFs \ (nraSet \cup nraClear) : ARF[p] = ARF[prf]}

(* Mutant: stops at the first entry.                                       *)
ReleasedFirstOnly(prf) ==
  LET S == {p \in PRFs \ (busy \cup nraSet \cup nraClear) :
              ARF[p] = ARF[prf] /\ p \in NRA}
  IN  IF S = {} THEN {} ELSE {First(S)}

(* What LandAndRelease frees: the entries of the landing register's ARF    *)
(* that are not busy, except those whose NRA this cycle already modified.  *)
Released(prf) ==
  {p \in PRFs \ (busy \cup nraSet \cup nraClear) : ARF[p] = ARF[prf]}

(* Touch(FV, ...): allocate an entry as the newest name of arf.  released  *)
(* is empty when FV, every entry of arf when not (InvalidateAndRelease).   *)
TouchEntry(index, arf, released) ==
  /\ nraSet'   = (nraSet \ released) \cup {index}
  /\ nraClear' = (nraClear \cup released) \ {index}
  /\ vSet'     = (vSet \ Invalidated(arf)) \cup {index}
  /\ vClear'   = (vClear \cup Invalidated(arf)) \ {index}
  /\ arfMod'   = [arfMod EXCEPT ![index] = arf]

Touch(index, arf) ==
  /\ ~IsFull /\ index = GetNextEntry
  /\ TouchEntry(index, arf, {})

TouchAndCommit(index, arf) ==
  /\ ~IsFull /\ index = GetNextEntry
  /\ TouchEntry(index, arf, {p \in PRFs : ARF[p] = arf})

LandAndRelease(prf) ==
  /\ nraClear' = nraClear \cup Released(prf)
  /\ UNCHANGED <<nraSet, vSet, vClear, arfMod>>

(* SyncNRA overwrites whatever NRA modification was pending.               *)
SyncNRA(shadowNRA) ==
  /\ nraSet' = shadowNRA
  /\ nraClear' = PRFs \ shadowNRA
  /\ UNCHANGED <<vSet, vClear, arfMod>>

AllocateAliasCheckpoint(g) == ratAllocate' = g

(* Mutant: a missing restore.                                              *)
RestoreAliasCheckpointNot(g) == UNCHANGED ratRestore

RestoreAliasCheckpoint(g) == ratRestore' = g

-----------------------------------------------------------------------------
(* The table after the clock edge: checkpoints are allocated from the      *)
(* flags before the edge, modifications applied, V restored last.          *)
AliasCheckpointsNext ==
  [g \in GCs |-> IF g = ratAllocate THEN V ELSE ratCheckpoints[g]]

NRANext == (NRA \ nraClear) \cup nraSet

ARFNext == [p \in PRFs |-> IF arfMod[p] = 0 THEN ARF[p] ELSE arfMod[p]]

(* Mutant: the restore comes before the modifications of the cycle.        *)
VNextModifyLast ==
  ((IF ratRestore = None THEN V ELSE AliasCheckpointsNext[ratRestore])
     \ vClear) \cup vSet

VNext ==
  IF ratRestore = None
  THEN (V \ vClear) \cup vSet
  ELSE AliasCheckpointsNext[ratRestore]

RATEval ==
  /\ NRA' = NRANext
  /\ V' = VNext
  /\ ARF' = ARFNext
  /\ ratCheckpoints' = AliasCheckpointsNext
  /\ nraSet' = {} /\ nraClear' = {} /\ vSet' = {} /\ vClear' = {}
  /\ arfMod' = [p \in PRFs |-> 0]
  /\ ratAllocate' = None /\ ratRestore' = None

=============================================================================
