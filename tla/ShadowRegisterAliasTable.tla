---------------------- MODULE ShadowRegisterAliasTable ----------------------
(***************************************************************************)
(* MEMU::Core::Issue::ShadowRegisterAliasTable                             *)
(* (main/emulated/core_dispatch.hpp): the alias table as the committed     *)
(* instructions see it.  Its NRA flags are what RegisterAliasTable::SyncNRA*)
(* copies to get rid of the names squashed instructions left allocated.    *)
(***************************************************************************)
EXTENDS RegisterAliasTable

VARIABLES
  sNRA,       \* entries that hold a committed value
  sV,         \* entries that were ever committed: nothing clears the flag
  sARF,       \* the architectural register of every entry
  sNRASet,    \* pending SetNRA(true)
  sNRAClear,  \* pending SetNRA(false)
  sVSet,      \* pending SetValid(true)
  sARFMod     \* pending SetARF, 0 where there is none

sratState == <<sNRA, sV, sARF>>
sratMod   == <<sNRASet, sNRAClear, sVSet, sARFMod>>
sratVars  == <<sratState, sratMod>>

SRATTypeOK ==
  /\ sNRA \in SUBSET PRFs
  /\ sV \in SUBSET PRFs
  /\ sARF \in [PRFs -> ARFs]
  /\ sNRASet \in SUBSET PRFs
  /\ sNRAClear \in SUBSET PRFs
  /\ sVSet \in SUBSET PRFs
  /\ sARFMod \in [PRFs -> ARFs]

SRATInit ==
  /\ sNRA = {} /\ sV = {}
  /\ sARF = [p \in PRFs |-> 0]
  /\ sNRASet = {} /\ sNRAClear = {} /\ sVSet = {}
  /\ sARFMod = [p \in PRFs |-> 0]

ShadowNames(arf) == {p \in sV : sARF[p] = arf}

ShadowGetAliasPRF(arf) ==
  IF arf = 0 \/ ShadowNames(arf) = {} THEN None ELSE First(ShadowNames(arf))

(* Mutant: the other entries of arf keep NRA.                              *)
ShadowCommitKeeping(prf, arf) ==
  /\ sARFMod' = [sARFMod EXCEPT ![prf] = arf]
  /\ sVSet' = sVSet \cup {prf}
  /\ sNRASet' = sNRASet \cup {prf}
  /\ UNCHANGED sNRAClear

(* Commit: the entry becomes the committed name of arf, the other entries  *)
(* of arf lose NRA unless this cycle already modified it.                  *)
ShadowCommit(prf, arf) ==
  /\ sARFMod' = [sARFMod EXCEPT ![prf] = arf]
  /\ sVSet' = sVSet \cup {prf}
  /\ sNRASet' = sNRASet \cup {prf}
  /\ sNRAClear' = (sNRAClear \ {prf}) \cup
                  ({p \in PRFs : sARF[p] = arf} \ (sNRASet \cup {prf}))

SNRANext == (sNRA \ sNRAClear) \cup sNRASet

SARFNext == [p \in PRFs |-> IF sARFMod[p] = 0 THEN sARF[p] ELSE sARFMod[p]]

SRATEval ==
  /\ sNRA' = SNRANext
  /\ sV' = sV \cup sVSet
  /\ sARF' = SARFNext
  /\ sNRASet' = {} /\ sNRAClear' = {} /\ sVSet' = {}
  /\ sARFMod' = [p \in PRFs |-> 0]

=============================================================================
