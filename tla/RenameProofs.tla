---------------------------- MODULE RenameProofs ----------------------------
(***************************************************************************)
(* Proofs about RenameCore, for every size of the core: type correctness,  *)
(* and the inductive invariant IInv, from which the safety properties the  *)
(* runs check follow.                                                      *)
(*                                                                         *)
(* IInv relates the tables as the next clock edge leaves them (BusyNext,   *)
(* VNext, NRANext, ..) to the re-order buffer, because the calls of a      *)
(* cycle may come in any order: a call then changes the next view and the  *)
(* buffer together, and Cycle changes neither.                             *)
(***************************************************************************)
EXTENDS RenameCore, TLAPS, WellFoundedInduction, FiniteSetTheorems

(* The priority encoder finds the lowest index of a non-empty set.         *)
LEMMA FirstIsMinimum ==
  ASSUME NEW S \in SUBSET PRFs, S # {}
  PROVE  First(S) \in S /\ \A q \in S : First(S) <= q
<1> DEFINE LT == {ss \in Nat \X Nat : ss[1] < ss[2]}
<1>1. IsWellFoundedOn(LT, Nat)
  BY NatLessThanWellFounded DEF OpToRel
<1>2. S \subseteq Nat
  BY ScoreboardAssumption DEF PRFs
<1> HIDE DEF LT
<1>3. \E x \in S : \A y \in S : ~(<<y, x>> \in LT)
  BY <1>1, <1>2, WFMin
<1>4. PICK x \in S : \A y \in S : ~(y < x)
  BY <1>2, <1>3 DEF LT
<1>5. \A y \in S : x <= y
  BY <1>2, <1>4
<1> QED
  BY <1>5 DEF First

-----------------------------------------------------------------------------
(* Type correctness.                                                       *)

(* Registers, checkpoints and ARFs are numbers, and None is none of them.  *)
LEMMA ConstantFacts ==
  /\ PRFs \subseteq Nat /\ GCs \subseteq Nat /\ ARFs \subseteq Nat
  /\ 0 \in ARFs /\ Renamed \subseteq ARFs
  /\ None \notin PRFs /\ None \notin GCs
BY ScoreboardAssumption, ARFAssumption DEF PRFs, GCs, ARFs, Renamed, None

(* GetAliasPRF returns a register or None.                                 *)
LEMMA AliasType ==
  ASSUME TypeOK, NEW arf \in ARFs
  PROVE  GetAliasPRF(arf) \in PRFs \cup {None}
<1>1. ValidNames(arf) \in SUBSET PRFs
  BY DEF ValidNames, TypeOK, RATTypeOK
<1> QED
  BY <1>1, FirstIsMinimum DEF GetAliasPRF

(* What a fetch puts into the re-order buffer is an instruction.           *)
LEMMA EntryType ==
  ASSUME TypeOK, NEW arf \in ARFs, NEW prf \in PRFs \cup {None},
         NEW srcArf \in ARFs, NEW gc \in GCs \cup {None}
  PROVE  Entry(arf, prf, srcArf, gc) \in Instruction
BY AliasType DEF Entry, Instruction, Status

(* Every variable has its type in the initial states.                      *)
LEMMA TypeInit == Init => TypeOK
<1> SUFFICES ASSUME Init PROVE TypeOK
  OBVIOUS
<1>1. ScoreboardTypeOK
  BY DEF Init, ScoreboardInit, ScoreboardTypeOK
<1>2. RATTypeOK
  BY ConstantFacts DEF Init, RATInit, RATTypeOK
<1>3. SRATTypeOK
  BY ConstantFacts DEF Init, SRATInit, SRATTypeOK
<1>4. rob \in Seq(Instruction)
  BY DEF Init
<1>5. arch \in [Renamed -> PRFs \cup {None}]
  BY DEF Init
<1> QED
  BY <1>1, <1>2, <1>3, <1>4, <1>5 DEF Init, TypeOK

(* Every fetch keeps the types.                                            *)
LEMMA TypeFetch ==
  ASSUME TypeOK, NEW i \in Instructions, Fetch(i[1], i[2]) PROVE TypeOK'
<1>1. i[1] \in ARFs /\ i[2] \in ARFs
  BY CoreAssumption
<1>2. PICK p \in PRFs :
        /\ Touch(p, i[1]) /\ TakeOff(p)
        /\ rob' = Append(rob, Entry(i[1], p, i[2], None))
        /\ fetched' = TRUE
        /\ UNCHANGED <<sbState, forwardMod, sbGCInput, ratState, ratGCInput,
                       sratVars, arch, committed>>
  BY DEF Fetch
<1>3. rob' \in Seq(Instruction)
  BY <1>1, <1>2, EntryType DEF TypeOK
<1>4. Invalidated(i[1]) \subseteq PRFs
  <2>1. ValidNames(i[1]) \in SUBSET PRFs
    BY DEF ValidNames, TypeOK, RATTypeOK
  <2> QED
    BY <2>1, FirstIsMinimum DEF Invalidated
<1>5. ScoreboardTypeOK'
  BY <1>2 DEF TypeOK, ScoreboardTypeOK, TakeOff, SetBusy, sbState, sbGCInput
<1>6. RATTypeOK'
  BY <1>1, <1>2, <1>4 DEF TypeOK, RATTypeOK, Touch, TouchEntry, ratState, ratGCInput
<1>7. SRATTypeOK'
  BY <1>2 DEF TypeOK, SRATTypeOK, sratVars, sratState, sratMod
<1> QED
  BY <1>2, <1>3, <1>5, <1>6, <1>7 DEF TypeOK

(* Every step keeps the types, one case per action.                        *)
LEMMA TypeStep == TypeOK /\ [Next]_vars => TypeOK'
<1> SUFFICES ASSUME TypeOK, [Next]_vars PROVE TypeOK'
  OBVIOUS
<1> USE DEF TypeOK
<1>1. ASSUME NEW i \in Instructions, Fetch(i[1], i[2]) PROVE TypeOK'
  BY <1>1, TypeFetch
<1>2. ASSUME NEW i \in Instructions, FetchNoDest(i[1], i[2]) PROVE TypeOK'
  <2>1. i[2] \in ARFs
    BY CoreAssumption
  <2>2. Entry(0, None, i[2], None) \in Instruction
    BY <2>1, EntryType, ConstantFacts
  <2>3. rob' \in Seq(Instruction)
    BY <1>2, <2>2 DEF FetchNoDest
  <2> QED
    BY <1>2, <2>3
       DEF FetchNoDest, ScoreboardTypeOK, RATTypeOK, SRATTypeOK, sbVars,
           sbState, sbBusyMod, sbGCInput, ratVars, ratState, ratMod, ratGCInput,
           sratVars, sratState, sratMod
<1>3. ASSUME NEW srcArf \in Branches, FetchBranch(srcArf) PROVE TypeOK'
  <2>1. PICK g \in GCs :
          /\ sbAllocate' = g /\ ratAllocate' = g
          /\ rob' = Append(rob, Entry(0, None, srcArf, g))
          /\ fetched' = TRUE
          /\ UNCHANGED <<sbState, sbBusyMod, forwardMod, sbRestore, ratState,
                         ratMod, ratRestore, sratVars, arch, committed>>
    BY <1>3 DEF FetchBranch, AllocateBusyCheckpoint, AllocateAliasCheckpoint
  <2>2. srcArf \in ARFs
    BY CoreAssumption
  <2>3. Entry(0, None, srcArf, g) \in Instruction
    BY <2>2, EntryType, ConstantFacts
  <2>4. rob' \in Seq(Instruction)
    BY <2>1, <2>3
  <2> QED
    BY <2>1, <2>4
       DEF ScoreboardTypeOK, RATTypeOK, SRATTypeOK, sbState, sbBusyMod,
           ratState, ratMod, sratVars, sratState, sratMod
<1>4. ASSUME NEW k \in DOMAIN rob, Issue(k) PROVE TypeOK'
  <2>1. rob' \in Seq(Instruction)
    <3>1. rob[k] \in Instruction
      OBVIOUS
    <3>2. [rob[k] EXCEPT !.st = "exec"] \in Instruction
      BY <3>1 DEF Instruction, Status
    <3>3. rob' = [rob EXCEPT ![k] = [rob[k] EXCEPT !.st = "exec"]]
      BY <1>4 DEF Issue
    <3> QED
      BY <3>2, <3>3
  <2> QED
    BY <1>4, <2>1
       DEF Issue, ScoreboardTypeOK, RATTypeOK, SRATTypeOK, sbVars,
           sbState, sbBusyMod, sbGCInput, ratVars, ratState, ratMod, ratGCInput,
           sratVars, sratState, sratMod
<1>5. ASSUME NEW k \in DOMAIN rob, Writeback(k) PROVE TypeOK'
  <2>1. rob' \in Seq(Instruction)
    <3>1. rob[k] \in Instruction
      OBVIOUS
    <3>2. [rob[k] EXCEPT !.st = "done", !.gc = None] \in Instruction
      BY <3>1 DEF Instruction, Status
    <3>3. rob' = [rob EXCEPT ![k] = [rob[k] EXCEPT !.st = "done", !.gc = None]]
      BY <1>5 DEF Writeback
    <3> QED
      BY <3>2, <3>3
  <2> QED
    BY <1>5, <2>1
       DEF Writeback, ScoreboardTypeOK, RATTypeOK, SRATTypeOK, sbVars,
           sbState, sbBusyMod, sbGCInput, ratVars, ratState, ratMod, ratGCInput,
           sratVars, sratState, sratMod
<1>6. ASSUME NEW k \in DOMAIN rob, Mispredict(k) PROVE TypeOK'
  <2>1. rob[k] \in Instruction
    OBVIOUS
  <2>2. [rob[k] EXCEPT !.st = "done", !.gc = None] \in Instruction
    BY <2>1 DEF Instruction, Status
  <2>3. SubSeq(rob, 1, k - 1) \in Seq(Instruction)
    OBVIOUS
  <2>4. rob' \in Seq(Instruction)
    BY <1>6, <2>2, <2>3 DEF Mispredict
  <2> QED
    BY <1>6, <2>1, <2>4
       DEF Mispredict, RestoreBusyCheckpoint, RestoreAliasCheckpoint, Instruction,
           ScoreboardTypeOK, RATTypeOK, SRATTypeOK, sbState, sbBusyMod, ratState,
           ratMod, sratVars, sratState, sratMod
<1>7. CASE Commit
  <2>1. rob # <<>> /\ rob' = Tail(rob) /\ Head(rob) \in Instruction /\ committed' = TRUE
    BY <1>7 DEF Commit
  <2>2. rob' \in Seq(Instruction)
    BY <2>1
  <2>3. CASE Head(rob).prf = None
    BY <1>7, <2>2, <2>3
       DEF Commit, ScoreboardTypeOK, RATTypeOK, SRATTypeOK, sbVars,
           sbState, sbBusyMod, sbGCInput, ratVars, ratState, ratMod, ratGCInput,
           sratVars, sratState, sratMod
  <2>4. CASE Head(rob).prf # None
    <3> DEFINE h == Head(rob)
    <3>1. h.prf \in PRFs /\ h.arf \in ARFs
      BY <2>1, <2>4 DEF Instruction
    <3> HIDE DEF h
    <3>2. /\ Land(h.prf) /\ LandAndRelease(h.prf) /\ ShadowCommit(h.prf, h.arf)
          /\ arch' = [arch EXCEPT ![h.arf] = h.prf]
          /\ UNCHANGED <<sbState, forwardMod, sbGCInput, ratState, ratGCInput,
                         sratState, fetched>>
      BY <1>7, <2>4 DEF Commit, h
    <3>3. ScoreboardTypeOK'
      BY <3>1, <3>2 DEF ScoreboardTypeOK, Land, SetBusy, sbState, sbGCInput
    <3>4. RATTypeOK'
      BY <3>1, <3>2 DEF RATTypeOK, LandAndRelease, Released, ratState, ratGCInput
    <3>5. SRATTypeOK'
      BY <3>1, <3>2 DEF SRATTypeOK, ShadowCommit, sratState
    <3> QED
      BY <2>1, <2>2, <3>1, <3>2, <3>3, <3>4, <3>5
  <2> QED
    BY <2>3, <2>4
<1>8. CASE Recover
  BY <1>8
     DEF Recover, SyncNRA, ScoreboardTypeOK, RATTypeOK, SRATTypeOK, sbVars,
         sbState, sbBusyMod, sbGCInput, ratState, ratGCInput,
         sratVars, sratState, sratMod
<1>9. ASSUME NEW arf \in Renamed, SetARF(arf) PROVE TypeOK'
  <2>1. PICK p \in PRFs :
          /\ TouchEntry(p, arf, {q \in PRFs : ARF[q] = arf})
          /\ ShadowCommit(p, arf)
          /\ arch' = [arch EXCEPT ![arf] = p]
          /\ fetched' = TRUE /\ committed' = TRUE
          /\ UNCHANGED <<sbVars, ratState, ratGCInput, sratState, rob>>
    BY <1>9 DEF SetARF, TouchAndCommit
  <2>2. arf \in ARFs
    BY ConstantFacts
  <2>3. Invalidated(arf) \subseteq PRFs
    <3>1. ValidNames(arf) \in SUBSET PRFs
      BY DEF ValidNames, RATTypeOK
    <3> QED
      BY <3>1, FirstIsMinimum DEF Invalidated
  <2>4. RATTypeOK'
    BY <2>1, <2>2, <2>3 DEF RATTypeOK, TouchEntry, ratState, ratGCInput
  <2>5. SRATTypeOK'
    BY <2>1, <2>2 DEF SRATTypeOK, ShadowCommit, sratState
  <2>6. ScoreboardTypeOK'
    BY <2>1 DEF ScoreboardTypeOK, sbVars, sbState, sbBusyMod, sbGCInput
  <2> QED
    BY <2>1, <2>4, <2>5, <2>6
<1>10. CASE Cycle
  <2>1. AliasCheckpointsNext \in [GCs -> SUBSET PRFs]
    BY DEF AliasCheckpointsNext, RATTypeOK
  <2>2. BusyCheckpointsNext \in [GCs -> SUBSET PRFs]
    BY DEF BusyCheckpointsNext, ScoreboardTypeOK
  <2>3. ScoreboardTypeOK'
    BY <1>10, <2>2
       DEF Cycle, ScoreboardEval, ScoreboardTypeOK, BusyNext, ForwardNext, Modified
  <2>4. RATTypeOK'
    BY <1>10, <2>1, ConstantFacts
       DEF Cycle, RATEval, RATTypeOK, NRANext, VNext, ARFNext
  <2>5. SRATTypeOK'
    BY <1>10, ConstantFacts DEF Cycle, SRATEval, SRATTypeOK, SNRANext, SARFNext
  <2>6. rob' \in Seq(Instruction)
    <3>1. rob' = [k \in 1 .. Len(rob) |->
                    IF rob[k].st = "new" THEN [rob[k] EXCEPT !.st = "wait"] ELSE rob[k]]
      BY <1>10 DEF Cycle
    <3>2. ASSUME NEW k \in 1 .. Len(rob) PROVE rob'[k] \in Instruction
      <4>1. rob[k] \in Instruction
        OBVIOUS
      <4>2. [rob[k] EXCEPT !.st = "wait"] \in Instruction
        BY <4>1 DEF Instruction, Status
      <4> QED
        BY <3>1, <4>1, <4>2
    <3> QED
      BY <3>1, <3>2
  <2> QED
    BY <1>10, <2>3, <2>4, <2>5, <2>6 DEF Cycle
<1>11. CASE UNCHANGED vars
  BY <1>11
     DEF vars, coreVars, ScoreboardTypeOK, RATTypeOK, SRATTypeOK, sbVars,
         sbState, sbBusyMod, sbGCInput, ratVars, ratState, ratMod, ratGCInput,
         sratVars, sratState, sratMod
<1> QED
  BY <1>1, <1>2, <1>3, <1>4, <1>5, <1>6, <1>7, <1>8, <1>9, <1>10, <1>11 DEF Next

(* Every variable keeps its type, for every size of the core.              *)
THEOREM TypeCorrect == Spec => []TypeOK
<1> QED
  BY TypeInit, TypeStep, PTL DEF Spec

-----------------------------------------------------------------------------
(* Facts about the names a state gives.                                    *)

(* Destinations and checkpoints in flight are registers and checkpoints.   *)
LEMMA RobFacts ==
  ASSUME TypeOK
  PROVE  /\ Len(rob) \in Nat /\ DOMAIN rob = 1 .. Len(rob)
         /\ \A k \in 1 .. Len(rob) :
              /\ rob[k] \in Instruction
              /\ rob[k].arf \in ARFs /\ rob[k].prf \in PRFs \cup {None}
              /\ rob[k].src \in PRFs \cup {None} /\ rob[k].gc \in GCs \cup {None}
              /\ rob[k].st \in Status
<1>1. rob \in Seq(Instruction)
  BY DEF TypeOK
<1>2. \A k \in 1 .. Len(rob) : rob[k] \in Instruction
  BY <1>1
<1> QED
  BY <1>1, <1>2 DEF Instruction

(* The newest name of an architectural register is unique.                 *)
LEMMA NamesUnique ==
  ASSUME TypeOK, NEW arf \in Renamed, NEW n \in 0 .. Len(rob), NEW p, NEW q,
         Names(p, arf, n), Names(q, arf, n)
  PROVE  p = q
<1>1. CASE \A i \in 1 .. n : rob[i].arf # arf
  BY <1>1, RobFacts DEF Names
<1>2. CASE \E i \in 1 .. n : rob[i].arf = arf
  <2>1. PICK j \in 1 .. n : /\ rob[j].prf = p /\ rob[j].arf = arf
                            /\ \A i \in j + 1 .. n : rob[i].arf # arf
    BY <1>2 DEF Names
  <2>2. PICK l \in 1 .. n : /\ rob[l].prf = q /\ rob[l].arf = arf
                            /\ \A i \in l + 1 .. n : rob[i].arf # arf
    BY <1>2 DEF Names
  <2>3. ~(j < l) /\ ~(l < j)
    BY <2>1, <2>2, RobFacts
  <2> QED
    BY <2>1, <2>2, <2>3
<1> QED
  BY <1>1, <1>2

(* A newest name is in flight or committed.                                *)
LEMMA NamesAreLive ==
  ASSUME IInv, NEW arf \in Renamed, NEW n \in 0 .. Len(rob), NEW p \in PRFs,
         Names(p, arf, n)
  PROVE  p \in Live /\ ARFNext[p] = arf /\ (p \in InFlight(n) \/ arch[arf] = p)
<1>1. CASE \E j \in 1 .. n : rob[j].prf = p /\ rob[j].arf = arf
  <2>1. PICK j \in 1 .. n : rob[j].prf = p /\ rob[j].arf = arf
    BY <1>1
  <2>2. j \in 1 .. Len(rob) /\ j \in DOMAIN rob
    BY RobFacts DEF IInv
  <2>3. p # None
    BY ConstantFacts
  <2> QED
    BY <2>1, <2>2, <2>3 DEF IInv, Allocated, Live, InFlight
<1>2. CASE arch[arf] = p
  BY <1>2, ConstantFacts DEF IInv, Allocated, Live, Committed
<1> QED
  BY <1>1, <1>2 DEF Names

(* So is every register of a name map.                                     *)
LEMMA NameMapIsLive ==
  ASSUME IInv, NEW n \in 0 .. Len(rob) PROVE NameMap(n) \subseteq Live
BY NamesAreLive DEF NameMap

(* What LookupFindsNewest states, from the inductive invariant.            *)
LEMMA Lookup ==
  ASSUME IInv, ~fetched, NEW arf \in Renamed
  PROVE  ValidNames(arf) = {p \in PRFs : Names(p, arf, Len(rob))}
<1>1. ARFNext = ARF /\ VNext = V
  BY DEF IInv, Pending, ARFNext, VNext, TypeOK, RATTypeOK
<1>2. V = NameMap(Len(rob))
  BY <1>1 DEF IInv, Mapped
<1>3. Len(rob) \in 0 .. Len(rob)
  BY RobFacts DEF IInv
<1>4. ASSUME NEW p \in PRFs, Names(p, arf, Len(rob)) PROVE p \in ValidNames(arf)
  BY <1>1, <1>2, <1>3, <1>4, NamesAreLive DEF ValidNames, NameMap
<1>5. ASSUME NEW p \in ValidNames(arf) PROVE p \in PRFs /\ Names(p, arf, Len(rob))
  <2>1. p \in PRFs /\ ARF[p] = arf /\ \E b \in Renamed : Names(p, b, Len(rob))
    BY <1>2, <1>5 DEF ValidNames, NameMap
  <2> QED
    BY <1>1, <1>3, <2>1, NamesAreLive
<1> QED
  BY <1>4, <1>5

(* Names depend on the destinations of the first n instructions only.      *)
LEMMA NamesFrame ==
  ASSUME TypeOK, NEW m \in Nat, arch' = arch,
         \A j \in 1 .. m : rob'[j].arf = rob[j].arf /\ rob'[j].prf = rob[j].prf
  PROVE  /\ \A n \in 0 .. m : \A p, arf : Names(p, arf, n)' <=> Names(p, arf, n)
         /\ \A n \in 0 .. m : NameMap(n)' = NameMap(n) /\ InFlight(n)' = InFlight(n)
<1>1. ASSUME NEW n \in 0 .. m, NEW p, NEW arf
      PROVE  Names(p, arf, n)' <=> Names(p, arf, n)
  <2>1. \A j \in 1 .. n : rob'[j].arf = rob[j].arf /\ rob'[j].prf = rob[j].prf
    OBVIOUS
  <2>2. \A j \in 1 .. n : \A i \in j + 1 .. n : i \in 1 .. n
    OBVIOUS
  <2> QED
    BY <2>1, <2>2 DEF Names
<1>2. \A n \in 0 .. m : NameMap(n)' = NameMap(n)
  BY <1>1 DEF NameMap
<1>3. \A n \in 0 .. m : InFlight(n)' = InFlight(n)
  BY DEF InFlight
<1> QED
  BY <1>1, <1>2, <1>3

(* What the next edge leaves depends on the tables and their inputs only.  *)
LEMMA TablesFrame ==
  ASSUME UNCHANGED <<sbVars, ratVars, sratVars>>
  PROVE  /\ BusyNext' = BusyNext /\ BusyCheckpointsNext' = BusyCheckpointsNext
         /\ NRANext' = NRANext /\ VNext' = VNext /\ ARFNext' = ARFNext
         /\ AliasCheckpointsNext' = AliasCheckpointsNext
         /\ SNRANext' = SNRANext /\ SARFNext' = SARFNext
BY DEF sbVars, sbState, sbBusyMod, sbGCInput, ratVars, ratState, ratMod,
       ratGCInput, sratVars, sratState, sratMod, BusyNext, BusyCheckpointsNext,
       Modified, NRANext, VNext, ARFNext, AliasCheckpointsNext, SNRANext, SARFNext

-----------------------------------------------------------------------------
(* The inductive invariant, action by action.                              *)

(* The inductive invariant holds initially.                                *)
LEMMA InvInit == Init => IInv
<1> SUFFICES ASSUME Init PROVE IInv
  OBVIOUS
<1>1. TypeOK
  BY TypeInit
<1>2. Len(rob) = 0 /\ DOMAIN rob = {} /\ rob = <<>>
  BY DEF Init
<1>3. \A a \in Renamed : arch[a] = None
  BY DEF Init
<1>4. Shape
  BY <1>2, <1>3 DEF Shape
<1>5. Live = {} /\ InFlight(Len(rob)) = {} /\ Committed = {}
  BY <1>2, <1>3, ConstantFacts DEF Live, InFlight, Committed
<1>6. NameMap(Len(rob)) = {}
  BY <1>2, <1>3, ConstantFacts DEF NameMap, Names
<1>7. Allocated
  BY <1>2, <1>3, <1>5 DEF Allocated
<1>8. Mapped
  BY <1>2, <1>5, <1>6
     DEF Mapped, BusyIsInFlight, CheckpointsCurrent, VNext, BusyNext, Init,
         ScoreboardInit, RATInit
<1>9. Operands /\ Shadow
  BY <1>2, <1>3, <1>5 DEF Operands, Shadow, ShadowIsCommitted, SNRANext, Init, SRATInit
<1>10. Pending
  <2>1. \A a \in Renamed : arch[a] # None => arfMod[arch[a]] = 0
    BY <1>3
  <2> QED
    BY <1>2, <2>1 DEF Pending, Init, ScoreboardInit, RATInit, SRATInit
<1> QED
  BY <1>1, <1>4, <1>7, <1>8, <1>9, <1>10 DEF IInv

(* Only the status of an instruction moves on, perhaps giving its          *)
(* checkpoint back: Issue, Writeback, and the stuttering step.             *)
LEMMA InvStatus ==
  ASSUME IInv, TypeOK', UNCHANGED <<sbVars, ratVars, sratVars, arch, fetched, committed>>,
         Len(rob') = Len(rob),
         \A j \in 1 .. Len(rob) :
           /\ rob'[j].arf = rob[j].arf /\ rob'[j].prf = rob[j].prf
           /\ rob'[j].src = rob[j].src
           /\ rob'[j].gc \in {rob[j].gc, None}
           /\ \/ rob'[j].st = rob[j].st
              \/ /\ rob[j].st # "new"
                 /\ \/ rob'[j].st = "exec"
                    \/ rob'[j].st = "done" /\ rob'[j].gc = None
  PROVE  IInv'
<1>1. DOMAIN rob = 1 .. Len(rob) /\ Len(rob) \in Nat /\ DOMAIN rob' = 1 .. Len(rob)
  BY RobFacts DEF IInv, TypeOK
<1>2. /\ \A n \in 0 .. Len(rob) : \A p, arf : Names(p, arf, n)' <=> Names(p, arf, n)
      /\ \A n \in 0 .. Len(rob) : NameMap(n)' = NameMap(n) /\ InFlight(n)' = InFlight(n)
  BY <1>1, NamesFrame DEF IInv
<1>3. Committed' = Committed /\ Live' = Live
  BY <1>1, <1>2 DEF Committed, Live
<1>4. Shape'
  BY <1>1 DEF IInv, Shape, IsBranch
<1>5. Allocated'
  BY <1>1, <1>3, TablesFrame DEF IInv, Allocated
<1>6. Mapped'
  <2>1. VNext' = NameMap(Len(rob))' /\ BusyNext' = InFlight(Len(rob))'
    BY <1>1, <1>2, TablesFrame DEF IInv, Mapped, BusyIsInFlight
  <2>2. ASSUME NEW k \in 1 .. Len(rob), rob'[k].gc # None
        PROVE  /\ AliasCheckpointsNext'[rob'[k].gc] = NameMap(k)'
               /\ BusyCheckpointsNext'[rob'[k].gc] = InFlight(k)'
    BY <1>1, <1>2, <2>2, TablesFrame DEF IInv, Mapped, CheckpointsCurrent, IsBranch
  <2> QED
    BY <1>1, <2>1, <2>2 DEF Mapped, BusyIsInFlight, CheckpointsCurrent, IsBranch
<1>7. Operands'
  BY <1>1, <1>2 DEF IInv, Operands
<1>8. Shadow'
  BY <1>3, TablesFrame DEF IInv, Shadow, ShadowIsCommitted
<1>9. Pending'
  BY <1>1
     DEF IInv, Pending, sbVars, sbState, sbBusyMod, sbGCInput, ratVars, ratState,
         ratMod, ratGCInput, sratVars, sratState, sratMod
<1> QED
  BY <1>4, <1>5, <1>6, <1>7, <1>8, <1>9 DEF IInv

(* An instruction without a destination joins: no name changes.            *)
LEMMA AppendNoDest ==
  ASSUME TypeOK, NEW e, rob' = Append(rob, e), e.arf = 0, e.prf = None, arch' = arch,
         NEW n, n = Len(rob)
  PROVE  /\ n \in Nat /\ Len(rob') = n + 1 /\ DOMAIN rob' = 1 .. n + 1
         /\ \A k \in 1 .. n : rob'[k] = rob[k]
         /\ rob'[n + 1] = e
         /\ \A m \in 0 .. n : NameMap(m)' = NameMap(m) /\ InFlight(m)' = InFlight(m)
         /\ NameMap(n + 1)' = NameMap(n)
         /\ InFlight(n + 1)' = InFlight(n)
         /\ Committed' = Committed /\ Live' = Live
<1>1. /\ n \in Nat /\ Len(rob') = n + 1 /\ DOMAIN rob' = 1 .. n + 1
      /\ \A k \in 1 .. n : rob'[k] = rob[k]
      /\ rob'[n + 1] = e
  BY DEF TypeOK
<1>2. \A m \in 0 .. n : NameMap(m)' = NameMap(m) /\ InFlight(m)' = InFlight(m)
  BY <1>1, NamesFrame
<1>3. InFlight(n + 1)' = InFlight(n)
  <2>1. ASSUME NEW p \in PRFs
        PROVE  (\E j \in 1 .. n + 1 : rob'[j].prf = p) <=> (\E j \in 1 .. n : rob[j].prf = p)
    BY <1>1, ConstantFacts
  <2> QED
    BY <2>1 DEF InFlight
<1>4. ASSUME NEW p \in PRFs, NEW arf \in Renamed
      PROVE  Names(p, arf, n + 1)' <=> Names(p, arf, n)
  <2>1. arf # 0 /\ p # None
    BY ConstantFacts DEF Renamed
  <2>2. \A i \in 1 .. n + 1 : rob'[i].arf = arf <=> (i \in 1 .. n /\ rob[i].arf = arf)
    BY <1>1, <2>1
  <2>3. ASSUME NEW j \in 1 .. n
        PROVE  (\A i \in j + 1 .. n + 1 : rob'[i].arf # arf)
                 <=> (\A i \in j + 1 .. n : rob[i].arf # arf)
    BY <1>1, <2>2
  <2>4. (\A i \in 1 .. n + 1 : rob'[i].arf # arf) <=> (\A i \in 1 .. n : rob[i].arf # arf)
    BY <1>1, <2>2
  <2>5. \A j \in 1 .. n + 1 : rob'[j].prf = p /\ rob'[j].arf = arf
                                <=> j \in 1 .. n /\ rob[j].prf = p /\ rob[j].arf = arf
    BY <1>1, <2>1
  <2>6. \A j \in 1 .. n : j \in 1 .. n + 1
    BY <1>1
  <2>7. (\E j \in 1 .. n + 1 : /\ rob'[j].prf = p /\ rob'[j].arf = arf
                               /\ \A i \in j + 1 .. n + 1 : rob'[i].arf # arf)
          <=> (\E j \in 1 .. n : /\ rob[j].prf = p /\ rob[j].arf = arf
                                 /\ \A i \in j + 1 .. n : rob[i].arf # arf)
    BY <2>3, <2>5, <2>6
  <2> QED
    BY <2>4, <2>7 DEF Names
<1>5. NameMap(n + 1)' = NameMap(n)
  BY <1>4 DEF NameMap
<1>6. Committed' = Committed
  BY DEF Committed
<1>7. Live' = Live
  BY <1>1, <1>3, <1>6 DEF Live
<1> QED
  BY <1>1, <1>2, <1>3, <1>5, <1>6, <1>7

(* A renamed source is the newest name of its register.                    *)
LEMMA SourceIsNamed ==
  ASSUME IInv, ~fetched, NEW arf \in ARFs, GetAliasPRF(arf) # None
  PROVE  GetAliasPRF(arf) \in NameMap(Len(rob))
<1>1. ValidNames(arf) \in SUBSET PRFs /\ ValidNames(arf) # {}
  BY DEF IInv, TypeOK, RATTypeOK, ValidNames, GetAliasPRF
<1>2. GetAliasPRF(arf) \in V
  BY <1>1, FirstIsMinimum DEF GetAliasPRF, ValidNames
<1> QED
  BY <1>2 DEF IInv, Mapped, Pending, VNext

(* FetchNoDest and FetchBranch.                                            *)
LEMMA InvJoin ==
  ASSUME IInv, TypeOK', CanFetch, NEW srcArf \in ARFs,
         NEW g \in GCs \cup {None}, g \notin HeldCheckpoints \/ g = None,
         sbAllocate' = g, ratAllocate' = g,
         rob' = Append(rob, Entry(0, None, srcArf, g)), fetched' = TRUE,
         UNCHANGED <<sbState, sbBusyMod, forwardMod, sbRestore, ratState,
                     ratMod, ratRestore, sratVars, arch, committed>>
  PROVE  IInv'
<1>1. ~fetched /\ TypeOK
  BY DEF CanFetch, IInv
<1>2. PICK e : /\ e = Entry(0, None, srcArf, g)
               /\ e.arf = 0 /\ e.prf = None /\ e.gc = g /\ e.st = "new"
               /\ e.src = GetAliasPRF(srcArf)
  BY DEF Entry
<1>3. rob' = Append(rob, e)
  BY <1>2
<1>4. PICK n : n = Len(rob)
  OBVIOUS
<1>5. /\ n \in Nat /\ Len(rob') = n + 1 /\ DOMAIN rob' = 1 .. n + 1
      /\ \A k \in 1 .. n : rob'[k] = rob[k]
      /\ rob'[n + 1] = e
      /\ \A m \in 0 .. n : NameMap(m)' = NameMap(m) /\ InFlight(m)' = InFlight(m)
      /\ NameMap(n + 1)' = NameMap(n)
      /\ InFlight(n + 1)' = InFlight(n)
      /\ Committed' = Committed /\ Live' = Live
  BY <1>1, <1>2, <1>3, <1>4, AppendNoDest
<1>6. DOMAIN rob = 1 .. n
  BY <1>1, <1>4, RobFacts
<1>7. /\ sbAllocate = None /\ ratAllocate = None /\ sbRestore = None /\ ratRestore = None
      /\ busySet = {} /\ vSet = {} /\ vClear = {} /\ forwardMod = {} /\ busyClear \subseteq landed
  BY <1>1 DEF IInv, Pending
<1>8. /\ NRANext' = NRANext /\ ARFNext' = ARFNext /\ VNext' = VNext /\ BusyNext' = BusyNext
      /\ SNRANext' = SNRANext /\ SARFNext' = SARFNext /\ VNext = V
  BY <1>7 DEF sbState, sbBusyMod, ratState, ratMod, sratVars, sratState, sratMod, NRANext,
              ARFNext, VNext, BusyNext, SNRANext, SARFNext
<1>9. \A k \in 1 .. n : rob[k].gc # None => rob[k].gc \in GCs /\ rob[k].gc # g
  BY <1>1, <1>4, <1>6, RobFacts DEF HeldCheckpoints
<1>10. Shape'
  <2>1. ASSUME NEW k \in 1 .. n + 1
        PROVE  /\ rob'[k].arf = 0 <=> rob'[k].prf = None
               /\ rob'[k].gc # None => rob'[k].arf = 0 /\ rob'[k].st # "done"
               /\ rob'[k].st = "new" => k = n + 1
               /\ \A a \in Renamed : rob'[k].prf # None => rob'[k].prf # arch[a]
    <3>1. CASE k \in 1 .. n
      BY <1>1, <1>5, <1>6, <3>1 DEF IInv, Shape, IsBranch
    <3>2. CASE k = n + 1
      BY <1>2, <1>5, <3>2
    <3> QED
      BY <1>5, <3>1, <3>2
  <2>2. ASSUME NEW j \in 1 .. n + 1, NEW k \in 1 .. n + 1, j # k
        PROVE  /\ rob'[j].prf # None => rob'[j].prf # rob'[k].prf
               /\ rob'[j].gc # None => rob'[j].gc # rob'[k].gc
    <3>1. CASE j \in 1 .. n /\ k \in 1 .. n
      BY <1>5, <1>6, <2>2, <3>1 DEF IInv, Shape
    <3>2. CASE j = n + 1
      <4>1. k \in 1 .. n
        BY <1>5, <2>2, <3>2
      <4> QED
        BY <1>2, <1>5, <1>9, <3>2, <4>1
    <3>3. CASE k = n + 1
      <4>1. j \in 1 .. n
        BY <1>5, <2>2, <3>3
      <4> QED
        BY <1>2, <1>5, <1>9, <3>3, <4>1
    <3> QED
      BY <1>5, <2>2, <3>1, <3>2, <3>3
  <2> QED
    BY <1>5, <2>1, <2>2 DEF IInv, Shape, IsBranch
<1>11. Allocated'
  BY <1>2, <1>5, <1>6, <1>8 DEF IInv, Allocated
<1>12. Mapped'
  <2>1. VNext' = NameMap(n + 1)' /\ BusyNext' = InFlight(n + 1)'
    BY <1>4, <1>5, <1>8 DEF IInv, Mapped, BusyIsInFlight
  <2>2. ASSUME NEW k \in 1 .. n, rob[k].gc # None
        PROVE  /\ AliasCheckpointsNext'[rob[k].gc] = NameMap(k)'
               /\ BusyCheckpointsNext'[rob[k].gc] = InFlight(k)'
    <3>1. rob[k].gc \in GCs /\ rob[k].gc # g
      BY <1>9, <2>2
    <3>2. /\ AliasCheckpointsNext'[rob[k].gc] = AliasCheckpointsNext[rob[k].gc]
          /\ BusyCheckpointsNext'[rob[k].gc] = BusyCheckpointsNext[rob[k].gc]
      BY <1>7, <3>1, ConstantFacts
         DEF AliasCheckpointsNext, BusyCheckpointsNext, Modified, sbState, sbBusyMod, ratState
    <3> QED
      BY <1>5, <1>6, <2>2, <3>2 DEF IInv, Mapped, CheckpointsCurrent, IsBranch
  <2>3. ASSUME g # None
        PROVE  AliasCheckpointsNext'[g] = V /\ BusyCheckpointsNext'[g] = BusyNext
    <3>1. g \in GCs
      BY <2>3
    <3> QED
      BY <1>7, <3>1
         DEF AliasCheckpointsNext, BusyCheckpointsNext, BusyNext, Modified, sbState,
             sbBusyMod, ratState
  <2>4. ASSUME g # None
        PROVE  AliasCheckpointsNext'[g] = NameMap(n + 1)' /\ BusyCheckpointsNext'[g] = InFlight(n + 1)'
    BY <1>8, <2>1, <2>3, <2>4
  <2>5. CheckpointsCurrent'
    BY <1>2, <1>5, <2>2, <2>4 DEF CheckpointsCurrent, IsBranch
  <2> QED
    BY <1>5, <2>1, <2>5 DEF Mapped, BusyIsInFlight
<1>13. Operands'
  <2>1. ASSUME NEW k \in 1 .. n, rob[k].st \in {"new", "wait"}, rob[k].src # None
        PROVE  rob[k].src \in NameMap(k - 1)'
    BY <1>5, <1>6, <2>1 DEF IInv, Operands
  <2>2. e.src # None => e.src \in NameMap(n)'
    BY <1>1, <1>2, <1>4, <1>5, SourceIsNamed
  <2>3. (n + 1) - 1 = n
    BY <1>5
  <2> QED
    BY <1>5, <2>1, <2>2, <2>3 DEF Operands
<1>14. Shadow'
  BY <1>5, <1>8 DEF IInv, Shadow, ShadowIsCommitted
<1>15. Pending'
  BY <1>2, <1>5, <1>6, <1>7
     DEF IInv, Pending, sbState, sbBusyMod, ratState, ratMod, sratVars, sratState, sratMod
<1> QED
  BY <1>10, <1>11, <1>12, <1>13, <1>14, <1>15 DEF IInv

(* An instruction that writes e.arf joins: e.prf is its newest name.       *)
LEMMA AppendDest ==
  ASSUME TypeOK, NEW e, rob' = Append(rob, e), e.arf \in Renamed, e.prf \in PRFs,
         arch' = arch, NEW n, n = Len(rob)
  PROVE  /\ n \in Nat /\ Len(rob') = n + 1 /\ DOMAIN rob' = 1 .. n + 1
         /\ \A k \in 1 .. n : rob'[k] = rob[k]
         /\ rob'[n + 1] = e
         /\ \A m \in 0 .. n : NameMap(m)' = NameMap(m) /\ InFlight(m)' = InFlight(m)
         /\ \A q \in PRFs, b \in Renamed :
              Names(q, b, n + 1)' <=> IF b = e.arf THEN q = e.prf ELSE Names(q, b, n)
         /\ InFlight(n + 1)' = InFlight(n) \cup {e.prf}
         /\ Committed' = Committed /\ Live' = Live \cup {e.prf}
<1>1. /\ n \in Nat /\ Len(rob') = n + 1 /\ DOMAIN rob' = 1 .. n + 1
      /\ \A k \in 1 .. n : rob'[k] = rob[k]
      /\ rob'[n + 1] = e
  BY DEF TypeOK
<1>2. \A m \in 0 .. n : NameMap(m)' = NameMap(m) /\ InFlight(m)' = InFlight(m)
  BY <1>1, NamesFrame
<1>3. InFlight(n + 1)' = InFlight(n) \cup {e.prf}
  <2>1. ASSUME NEW p \in PRFs
        PROVE  (\E j \in 1 .. n + 1 : rob'[j].prf = p)
                 <=> (\E j \in 1 .. n : rob[j].prf = p) \/ p = e.prf
    BY <1>1
  <2> QED
    BY <2>1 DEF InFlight
<1>4. ASSUME NEW q \in PRFs, NEW b \in Renamed, b = e.arf
      PROVE  Names(q, b, n + 1)' <=> q = e.prf
  <2>1. rob'[n + 1].arf = b /\ rob'[n + 1].prf = e.prf /\ n + 1 \in 1 .. n + 1
    BY <1>1, <1>4
  <2>2. ASSUME NEW j \in 1 .. n + 1, \A i \in j + 1 .. n + 1 : rob'[i].arf # b
        PROVE  j = n + 1
    BY <1>1, <2>1, <2>2
  <2>3. \A i \in (n + 1) + 1 .. n + 1 : rob'[i].arf # b
    BY <1>1
  <2> QED
    BY <2>1, <2>2, <2>3 DEF Names
<1>5. ASSUME NEW q \in PRFs, NEW b \in Renamed, b # e.arf
      PROVE  Names(q, b, n + 1)' <=> Names(q, b, n)
  <2>1. ASSUME NEW j \in 1 .. n
        PROVE  (\A i \in j + 1 .. n + 1 : rob'[i].arf # b)
                 <=> (\A i \in j + 1 .. n : rob[i].arf # b)
    BY <1>1, <1>5
  <2>2. (\A i \in 1 .. n + 1 : rob'[i].arf # b) <=> (\A i \in 1 .. n : rob[i].arf # b)
    BY <1>1, <1>5
  <2>3. \A j \in 1 .. n + 1 : rob'[j].prf = q /\ rob'[j].arf = b
                                <=> j \in 1 .. n /\ rob[j].prf = q /\ rob[j].arf = b
    BY <1>1, <1>5
  <2>4. \A j \in 1 .. n : j \in 1 .. n + 1
    BY <1>1
  <2>5. (\E j \in 1 .. n + 1 : /\ rob'[j].prf = q /\ rob'[j].arf = b
                               /\ \A i \in j + 1 .. n + 1 : rob'[i].arf # b)
          <=> (\E j \in 1 .. n : /\ rob[j].prf = q /\ rob[j].arf = b
                                 /\ \A i \in j + 1 .. n : rob[i].arf # b)
    BY <2>1, <2>3, <2>4
  <2> QED
    BY <2>2, <2>5 DEF Names
<1>6. Committed' = Committed
  BY DEF Committed
<1>7. Live' = Live \cup {e.prf}
  BY <1>1, <1>3, <1>6 DEF Live
<1> QED
  BY <1>1, <1>2, <1>3, <1>4, <1>5, <1>6, <1>7

(* Invalidate finds the one newest name there is.                          *)
LEMMA InvalidatedIsNewest ==
  ASSUME IInv, ~fetched, NEW arf \in Renamed
  PROVE  Invalidated(arf) = {q \in PRFs : Names(q, arf, Len(rob))}
<1>1. ValidNames(arf) = {q \in PRFs : Names(q, arf, Len(rob))}
  BY Lookup
<1>2. CASE ValidNames(arf) = {}
  BY <1>1, <1>2 DEF Invalidated
<1>3. CASE ValidNames(arf) # {}
  <2>1. ValidNames(arf) \in SUBSET PRFs
    BY <1>1
  <2>2. First(ValidNames(arf)) \in ValidNames(arf)
    BY <1>3, <2>1, FirstIsMinimum
  <2>3. TypeOK /\ Len(rob) \in 0 .. Len(rob)
    BY RobFacts DEF IInv
  <2>4. \A p, q \in ValidNames(arf) : p = q
    BY <1>1, <2>3, NamesUnique
  <2> QED
    BY <1>1, <1>3, <2>2, <2>4 DEF Invalidated
<1> QED
  BY <1>2, <1>3

(* The entry Touch takes is free.                                          *)
LEMMA NextEntryIsFree ==
  ASSUME IInv, ~fetched, ~IsFull
  PROVE  GetNextEntry \in PRFs \ NRA /\ GetNextEntry \notin Live
<1>1. PRFs \ NRA \in SUBSET PRFs /\ PRFs \ NRA # {}
  BY DEF IInv, TypeOK, RATTypeOK, IsFull
<1>2. GetNextEntry \in PRFs \ NRA
  BY <1>1, FirstIsMinimum DEF GetNextEntry
<1>3. Live \subseteq NRA
  BY DEF IInv, Allocated, Pending, NRANext
<1> QED
  BY <1>2, <1>3

(* Fetch of an instruction that writes arf, with p as its register.        *)
LEMMA InvTouch ==
  ASSUME IInv, TypeOK', CanFetch, NEW arf \in Renamed, NEW srcArf \in ARFs,
         NEW p \in PRFs, Touch(p, arf), TakeOff(p),
         rob' = Append(rob, Entry(arf, p, srcArf, None)), fetched' = TRUE,
         UNCHANGED <<sbState, forwardMod, sbGCInput, ratState, ratGCInput,
                     sratVars, arch, committed>>
  PROVE  IInv'
<1>1. ~fetched /\ TypeOK
  BY DEF CanFetch, IInv
<1>2. PICK e : /\ e = Entry(arf, p, srcArf, None)
               /\ e.arf = arf /\ e.prf = p /\ e.gc = None /\ e.st = "new"
               /\ e.src = GetAliasPRF(srcArf)
  BY DEF Entry
<1>3. rob' = Append(rob, e)
  BY <1>2
<1>4. PICK n : n = Len(rob)
  OBVIOUS
<1>5. /\ n \in Nat /\ Len(rob') = n + 1 /\ DOMAIN rob' = 1 .. n + 1
      /\ \A k \in 1 .. n : rob'[k] = rob[k]
      /\ rob'[n + 1] = e
      /\ \A m \in 0 .. n : NameMap(m)' = NameMap(m) /\ InFlight(m)' = InFlight(m)
      /\ \A q \in PRFs, b \in Renamed :
           Names(q, b, n + 1)' <=> IF b = arf THEN q = p ELSE Names(q, b, n)
      /\ InFlight(n + 1)' = InFlight(n) \cup {p}
      /\ Committed' = Committed /\ Live' = Live \cup {p}
  BY <1>1, <1>2, <1>3, <1>4, AppendDest
<1>6. DOMAIN rob = 1 .. n
  BY <1>1, <1>4, RobFacts
<1>7. p \in PRFs \ NRA /\ p \notin Live
  BY <1>1, NextEntryIsFree DEF Touch
<1>8. /\ sbAllocate = None /\ ratAllocate = None /\ sbRestore = None /\ ratRestore = None
      /\ busySet = {} /\ nraSet = {} /\ vSet = {} /\ vClear = {}
      /\ arfMod = [q \in PRFs |-> 0] /\ forwardMod = {} /\ busyClear \subseteq landed
  BY <1>1 DEF IInv, Pending
<1>9. arf # 0 /\ p # None /\ arf \in ARFs
  BY ConstantFacts DEF Renamed
<1>10. /\ BusyNext' = BusyNext \cup {p}
       /\ \A x \in GCs : BusyCheckpointsNext'[x] = BusyCheckpointsNext[x] \ (landed \cap {p})
  BY <1>8 DEF BusyNext, BusyCheckpointsNext, Modified, TakeOff, SetBusy, sbState, sbGCInput
<1>11. /\ NRANext' = NRANext \cup {p}
       /\ VNext' = (V \ Invalidated(arf)) \cup {p} /\ VNext = V
       /\ AliasCheckpointsNext' = AliasCheckpointsNext
  BY <1>8
     DEF NRANext, VNext, AliasCheckpointsNext, Touch, TouchEntry, ratState, ratGCInput
<1>12. ARFNext' = [ARFNext EXCEPT ![p] = arf] /\ ARFNext \in [PRFs -> ARFs]
  BY <1>1, <1>8, <1>9 DEF ARFNext, Touch, TouchEntry, ratState, TypeOK, RATTypeOK
<1>13. SNRANext' = SNRANext /\ SARFNext' = SARFNext
  BY DEF sratVars, sratState, sratMod, SNRANext, SARFNext
<1>14. /\ \A k \in 1 .. n : rob[k].prf # p
       /\ \A a \in Renamed : arch[a] # p
  <2>1. ASSUME NEW k \in 1 .. n, rob[k].prf = p PROVE FALSE
    BY <1>4, <1>7, <2>1 DEF Live, InFlight
  <2>2. ASSUME NEW a \in Renamed, arch[a] = p PROVE FALSE
    BY <1>7, <2>2 DEF Live, Committed
  <2> QED
    BY <2>1, <2>2
<1>15. Shape'
  <2>1. ASSUME NEW k \in 1 .. n + 1
        PROVE  /\ rob'[k].arf = 0 <=> rob'[k].prf = None
               /\ rob'[k].gc # None => rob'[k].arf = 0 /\ rob'[k].st # "done"
               /\ rob'[k].st = "new" => k = n + 1
               /\ \A a \in Renamed : rob'[k].prf # None => rob'[k].prf # arch[a]
    <3>1. CASE k \in 1 .. n
      BY <1>1, <1>5, <1>6, <3>1 DEF IInv, Shape, IsBranch
    <3>2. CASE k = n + 1
      BY <1>2, <1>5, <1>9, <1>14, <3>2
    <3> QED
      BY <1>5, <3>1, <3>2
  <2>2. ASSUME NEW j \in 1 .. n + 1, NEW k \in 1 .. n + 1, j # k
        PROVE  /\ rob'[j].prf # None => rob'[j].prf # rob'[k].prf
               /\ rob'[j].gc # None => rob'[j].gc # rob'[k].gc
    <3>1. CASE j \in 1 .. n /\ k \in 1 .. n
      BY <1>5, <1>6, <2>2, <3>1 DEF IInv, Shape
    <3>2. CASE j = n + 1
      <4>1. k \in 1 .. n
        BY <1>5, <2>2, <3>2
      <4> QED
        BY <1>2, <1>5, <1>14, <3>2, <4>1
    <3>3. CASE k = n + 1
      <4>1. j \in 1 .. n
        BY <1>5, <2>2, <3>3
      <4> QED
        BY <1>2, <1>5, <1>14, <3>3, <4>1
    <3> QED
      BY <1>5, <2>2, <3>1, <3>2, <3>3
  <2> QED
    BY <1>5, <2>1, <2>2 DEF IInv, Shape, IsBranch
<1>16. Allocated'
  <2>1. Live' \subseteq NRANext'
    BY <1>5, <1>11 DEF IInv, Allocated
  <2>2. ASSUME NEW k \in 1 .. n + 1, rob'[k].prf # None
        PROVE  ARFNext'[rob'[k].prf] = rob'[k].arf
    <3>1. CASE k \in 1 .. n
      <4>1. rob[k].prf \in PRFs \ {p} /\ rob'[k] = rob[k]
        BY <1>1, <1>4, <1>5, <1>14, <2>2, <3>1, RobFacts
      <4> QED
        BY <1>6, <1>12, <2>2, <3>1, <4>1 DEF IInv, Allocated
    <3>2. CASE k = n + 1
      BY <1>2, <1>5, <1>12, <3>2
    <3> QED
      BY <1>5, <3>1, <3>2
  <2>3. ASSUME NEW a \in Renamed, arch[a] # None PROVE ARFNext'[arch[a]] = a
    <3>1. arch[a] \in PRFs \ {p}
      BY <1>1, <1>14, <2>3 DEF TypeOK
    <3> QED
      BY <1>12, <2>3, <3>1 DEF IInv, Allocated
  <2> QED
    BY <1>5, <2>1, <2>2, <2>3 DEF Allocated
<1>17. Mapped'
  <2>1. BusyNext' = InFlight(n + 1)'
    BY <1>4, <1>5, <1>10 DEF IInv, Mapped, BusyIsInFlight
  <2>2. V = NameMap(n) /\ Invalidated(arf) = {q \in PRFs : Names(q, arf, n)}
    BY <1>1, <1>4, <1>11, InvalidatedIsNewest DEF IInv, Mapped
  <2>3. ASSUME NEW q \in PRFs
        PROVE  q \in VNext' <=> \E b \in Renamed : Names(q, b, n + 1)'
    <3>1. CASE q = p
      BY <1>5, <1>11, <3>1
    <3>2. CASE q # p
      <4>1. q \in VNext' <=> (\E b \in Renamed : Names(q, b, n)) /\ ~Names(q, arf, n)
        BY <1>11, <2>2, <3>2 DEF NameMap
      <4>2. ASSUME NEW b \in Renamed, Names(q, b, n), Names(q, arf, n) PROVE b = arf
        <5>1. n \in 0 .. Len(rob)
          BY <1>4, <1>5
        <5>2. ARFNext[q] = b /\ ARFNext[q] = arf
          BY <4>2, <5>1, NamesAreLive
        <5> QED
          BY <5>2
      <4> QED
        BY <1>5, <3>2, <4>1, <4>2
    <3> QED
      BY <3>1, <3>2
  <2>4. VNext' \subseteq PRFs
    BY <1>1, <1>11 DEF TypeOK, RATTypeOK
  <2>5. VNext' = NameMap(n + 1)'
    BY <2>3, <2>4 DEF NameMap
  <2>6. ASSUME NEW k \in 1 .. n + 1, rob'[k].gc # None
        PROVE  /\ AliasCheckpointsNext'[rob'[k].gc] = NameMap(k)'
               /\ BusyCheckpointsNext'[rob'[k].gc] = InFlight(k)'
    <3>1. k \in 1 .. n /\ rob'[k] = rob[k]
      BY <1>2, <1>5, <2>6
    <3>2. rob[k].gc \in GCs
      BY <1>1, <1>4, <2>6, <3>1, RobFacts
    <3>3. AliasCheckpointsNext[rob[k].gc] = NameMap(k) /\ BusyCheckpointsNext[rob[k].gc] = InFlight(k)
      BY <1>6, <2>6, <3>1 DEF IInv, Mapped, CheckpointsCurrent, IsBranch
    <3>4. p \notin InFlight(k)
      BY <1>5, <1>14, <3>1 DEF InFlight
    <3>5. NameMap(k)' = NameMap(k) /\ InFlight(k)' = InFlight(k)
      BY <1>5, <3>1
    <3>6. BusyCheckpointsNext'[rob[k].gc] = BusyCheckpointsNext[rob[k].gc] \ (landed \cap {p})
      BY <1>10, <3>2
    <3>7. BusyCheckpointsNext'[rob[k].gc] = InFlight(k)
      BY <3>3, <3>4, <3>6
    <3> QED
      BY <1>11, <3>1, <3>3, <3>5, <3>7
  <2> QED
    BY <1>5, <2>1, <2>5, <2>6 DEF Mapped, BusyIsInFlight, CheckpointsCurrent, IsBranch
<1>18. Operands'
  <2>1. ASSUME NEW k \in 1 .. n, rob[k].st \in {"new", "wait"}, rob[k].src # None
        PROVE  rob[k].src \in NameMap(k - 1)'
    BY <1>5, <1>6, <2>1 DEF IInv, Operands
  <2>2. e.src # None => e.src \in NameMap(n)'
    BY <1>1, <1>2, <1>4, <1>5, SourceIsNamed
  <2>3. (n + 1) - 1 = n
    BY <1>5
  <2> QED
    BY <1>5, <2>1, <2>2, <2>3 DEF Operands
<1>19. Shadow'
  BY <1>5, <1>13 DEF IInv, Shadow, ShadowIsCommitted
<1>20. Pending'
  <2>1. nraSet' = {p} /\ arfMod' = [arfMod EXCEPT ![p] = arf]
    BY <1>8 DEF Touch, TouchEntry
  <2>2. ASSUME NEW k \in 1 .. n + 1, rob'[k].prf # None
        PROVE  IF rob'[k].st = "new"
               THEN rob'[k].prf \in nraSet'
               ELSE rob'[k].prf \in busy' /\ arfMod'[rob'[k].prf] = 0
    <3>1. CASE k = n + 1
      BY <1>2, <1>5, <2>1, <3>1
    <3>2. CASE k \in 1 .. n
      <4>1. rob[k].prf \in PRFs \ {p} /\ rob'[k] = rob[k] /\ rob[k].st # "new"
        BY <1>1, <1>4, <1>5, <1>6, <1>14, <2>2, <3>2, RobFacts DEF IInv, Shape
      <4>2. rob[k].prf \in busy
        BY <1>6, <2>2, <3>2, <4>1 DEF IInv, Pending
      <4> QED
        BY <1>8, <2>1, <4>1, <4>2 DEF sbState
    <3> QED
      BY <1>5, <3>1, <3>2
  <2>3. ASSUME NEW a \in Renamed, arch[a] # None PROVE arfMod'[arch[a]] = 0
    <3>1. arch[a] \in PRFs \ {p}
      BY <1>1, <1>14, <2>3 DEF TypeOK
    <3> QED
      BY <1>8, <2>1, <3>1
  <2>4. busyClear' \subseteq landed'
    BY <1>8 DEF TakeOff, SetBusy
  <2>5. /\ sbAllocate' = ratAllocate' /\ sbRestore' = ratRestore' /\ forwardMod' = {}
        /\ fetched'
    BY <1>8 DEF sbGCInput, ratGCInput
  <2>6. ~committed' => /\ sNRASet' = {} /\ sNRAClear' = {}
                       /\ sARFMod' = [q \in PRFs |-> 0]
    BY DEF IInv, Pending, sratVars, sratMod
  <2> QED
    BY <1>5, <2>2, <2>3, <2>4, <2>5, <2>6 DEF Pending
<1> QED
  BY <1>15, <1>16, <1>17, <1>18, <1>19, <1>20 DEF IInv

(* A mispredicted branch: the tables after the edge are its checkpoint's.  *)
LEMMA InvMispredict ==
  ASSUME IInv, TypeOK', NEW k \in DOMAIN rob, Mispredict(k)
  PROVE  IInv'
<1>1. /\ rob \in Seq(Instruction) /\ Len(rob) \in Nat /\ k \in 1 .. Len(rob)
      /\ DOMAIN rob = 1 .. Len(rob) /\ rob[k] \in Instruction
  BY RobFacts DEF IInv, TypeOK
<1>2. PICK g : g = rob[k].gc /\ g \in GCs
  BY <1>1 DEF Mispredict, IsBranch, Instruction
<1>3. PICK e : e = [rob[k] EXCEPT !.st = "done", !.gc = None]
  OBVIOUS
<1>4. /\ e.arf = rob[k].arf /\ e.prf = rob[k].prf /\ e.src = rob[k].src
      /\ e.gc = None /\ e.st = "done"
  BY <1>1, <1>3 DEF Instruction
<1>5. /\ rob' = Append(SubSeq(rob, 1, k - 1), e) /\ sbRestore' = g /\ ratRestore' = g
      /\ fetched' = TRUE
      /\ UNCHANGED <<sbState, sbBusyMod, forwardMod, sbAllocate, ratState,
                     ratMod, ratAllocate, sratVars, arch, committed>>
  BY <1>2, <1>3 DEF Mispredict, RestoreBusyCheckpoint, RestoreAliasCheckpoint
<1>6. /\ Len(rob') = k /\ DOMAIN rob' = 1 .. k /\ rob'[k] = e
      /\ \A j \in 1 .. k : j # k => rob'[j] = rob[j]
  <2>1. /\ SubSeq(rob, 1, k - 1) \in Seq(Instruction) /\ Len(SubSeq(rob, 1, k - 1)) = k - 1
        /\ \A j \in 1 .. k - 1 : SubSeq(rob, 1, k - 1)[j] = rob[j]
    BY <1>1
  <2> QED
    BY <1>1, <1>5, <2>1
<1>7. \A m \in 0 .. k : NameMap(m)' = NameMap(m) /\ InFlight(m)' = InFlight(m)
  <2>1. \A j \in 1 .. k : rob'[j].arf = rob[j].arf /\ rob'[j].prf = rob[j].prf
    BY <1>4, <1>6
  <2>2. TypeOK /\ k \in Nat /\ arch' = arch
    BY <1>1, <1>5 DEF IInv
  <2> HIDE DEF Mispredict
  <2> QED
    BY <2>1, <2>2, NamesFrame
<1>8. /\ BusyCheckpointsNext' = BusyCheckpointsNext /\ AliasCheckpointsNext' = AliasCheckpointsNext
      /\ NRANext' = NRANext /\ ARFNext' = ARFNext
      /\ SNRANext' = SNRANext /\ SARFNext' = SARFNext
  BY <1>5
     DEF BusyCheckpointsNext, Modified, AliasCheckpointsNext, NRANext, ARFNext, SNRANext,
         SARFNext, sbState, sbBusyMod, ratState, ratMod, sratVars, sratState, sratMod
<1>9. BusyNext' = BusyCheckpointsNext[g] /\ VNext' = AliasCheckpointsNext[g]
  BY <1>2, <1>5, <1>8, ConstantFacts DEF BusyNext, VNext
<1>10. BusyCheckpointsNext[g] = InFlight(k) /\ AliasCheckpointsNext[g] = NameMap(k)
  BY <1>2, ConstantFacts DEF IInv, Mapped, CheckpointsCurrent, IsBranch
<1>11. Committed' = Committed /\ Live' \subseteq Live
  <2>1. Committed' = Committed
    BY <1>5 DEF Committed
  <2>2. InFlight(k) \subseteq InFlight(Len(rob))
    BY <1>1 DEF InFlight
  <2>3. InFlight(Len(rob))' = InFlight(k)
    BY <1>1, <1>6, <1>7
  <2> QED
    BY <2>1, <2>2, <2>3 DEF Live
<1>12. \A j \in 1 .. k : /\ rob'[j].arf = rob[j].arf /\ rob'[j].prf = rob[j].prf
                         /\ rob'[j].src = rob[j].src
                         /\ rob'[j].gc # None => j # k /\ rob'[j].gc = rob[j].gc
                         /\ rob'[j].st # "new"
                         /\ rob'[j].st # "done" => rob'[j].st = rob[j].st
                         /\ j # k => rob'[j].st = rob[j].st
                         /\ j \in 1 .. Len(rob)
  <2>1. ASSUME NEW j \in 1 .. k, j # k PROVE rob[j].st # "new" /\ j \in 1 .. Len(rob)
    BY <1>1, <2>1 DEF IInv, Shape
  <2> QED
    BY <1>1, <1>4, <1>6, <2>1
<1>13. Shape'
  <2>1. ASSUME NEW j \in 1 .. k
        PROVE  /\ rob'[j].arf = 0 <=> rob'[j].prf = None
               /\ rob'[j].gc # None => rob'[j].arf = 0 /\ rob'[j].st # "done"
               /\ \A a \in Renamed : rob'[j].prf # None => rob'[j].prf # arch[a]
    BY <1>1, <1>12 DEF IInv, Shape, IsBranch
  <2>2. ASSUME NEW i \in 1 .. k, NEW j \in 1 .. k, i # j
        PROVE  /\ rob'[i].prf # None => rob'[i].prf # rob'[j].prf
               /\ rob'[i].gc # None => rob'[i].gc # rob'[j].gc
    <3>1. /\ rob[i].prf # None => rob[i].prf # rob[j].prf
          /\ rob[i].gc # None => rob[i].gc # rob[j].gc
      BY <1>1, <1>12, <2>2 DEF IInv, Shape
    <3> QED
      BY <1>12, <3>1
  <2>3. \A a, b \in Renamed : a # b /\ arch[a] # None => arch[a] # arch[b]
    BY DEF IInv, Shape
  <2>4. arch' = arch
    BY <1>5
  <2> QED
    BY <1>6, <1>12, <2>1, <2>2, <2>3, <2>4 DEF Shape, IsBranch
<1>14. Allocated'
  BY <1>1, <1>5, <1>6, <1>8, <1>11, <1>12 DEF IInv, Allocated
<1>15. Mapped'
  <2>1. VNext' = NameMap(k)' /\ BusyNext' = InFlight(k)'
    BY <1>1, <1>7, <1>9, <1>10
  <2>2. ASSUME NEW j \in 1 .. k, rob'[j].gc # None
        PROVE  /\ AliasCheckpointsNext'[rob'[j].gc] = NameMap(j)'
               /\ BusyCheckpointsNext'[rob'[j].gc] = InFlight(j)'
    <3>1. rob'[j].gc = rob[j].gc /\ j \in DOMAIN rob /\ j \in 0 .. k
      BY <1>1, <1>12, <2>2
    <3>2. AliasCheckpointsNext[rob[j].gc] = NameMap(j) /\ BusyCheckpointsNext[rob[j].gc] = InFlight(j)
      BY <2>2, <3>1 DEF IInv, Mapped, CheckpointsCurrent, IsBranch
    <3> QED
      BY <1>7, <1>8, <3>1, <3>2
  <2> QED
    BY <1>6, <2>1, <2>2 DEF Mapped, BusyIsInFlight, CheckpointsCurrent, IsBranch
<1>16. Operands'
  <2>1. ASSUME NEW j \in 1 .. k, rob'[j].st \in {"new", "wait"}, rob'[j].src # None
        PROVE  rob'[j].src \in NameMap(j - 1)'
    <3>1. rob'[j].st = rob[j].st /\ rob'[j].src = rob[j].src /\ j \in DOMAIN rob /\ j - 1 \in 0 .. k
      BY <1>1, <1>12, <2>1
    <3>2. rob[j].src \in NameMap(j - 1)
      BY <2>1, <3>1 DEF IInv, Operands
    <3> QED
      BY <1>7, <3>1, <3>2
  <2> QED
    BY <1>6, <2>1 DEF Operands
<1>17. Shadow'
  BY <1>5, <1>8, <1>11 DEF IInv, Shadow, ShadowIsCommitted
<1>18. Pending'
  <2>1. ASSUME NEW j \in 1 .. k, rob'[j].prf # None
        PROVE  rob'[j].st # "new" /\ rob'[j].prf \in busy' /\ arfMod'[rob'[j].prf] = 0
    <3>1. rob'[j].prf = rob[j].prf /\ j \in DOMAIN rob /\ rob'[j].st # "new"
      BY <1>1, <1>12
    <3>2. rob[j].st # "new"
      <4>1. CASE j = k
        BY <4>1 DEF Mispredict
      <4>2. CASE j # k
        BY <1>12, <4>2
      <4> QED
        BY <4>1, <4>2
    <3>3. busy' = busy /\ arfMod' = arfMod
      BY <1>5 DEF sbState, ratMod
    <3> QED
      BY <2>1, <3>1, <3>2, <3>3 DEF IInv, Pending
  <2>2. /\ sbAllocate' = ratAllocate' /\ sbRestore' = ratRestore'
        /\ forwardMod' = {} /\ busyClear' \subseteq landed'
    BY <1>5 DEF IInv, Pending, sbBusyMod
  <2>3. ~committed' => /\ sNRASet' = {} /\ sNRAClear' = {}
                       /\ sARFMod' = [p \in PRFs |-> 0]
                       /\ \A a \in Renamed : arch'[a] # None => arfMod'[arch'[a]] = 0
    BY <1>5 DEF IInv, Pending, ratMod, sratVars, sratMod
  <2> QED
    BY <1>5, <1>6, <2>1, <2>2, <2>3 DEF Pending
<1> QED
  BY <1>13, <1>14, <1>15, <1>16, <1>17, <1>18 DEF IInv

(* The clock edge makes the tables what their next views said.             *)
LEMMA EdgeKeepsNext ==
  ASSUME TypeOK, ScoreboardEval, RATEval, SRATEval
  PROVE  /\ BusyNext' = BusyNext /\ BusyCheckpointsNext' = BusyCheckpointsNext
         /\ NRANext' = NRANext /\ VNext' = VNext /\ ARFNext' = ARFNext
         /\ AliasCheckpointsNext' = AliasCheckpointsNext
         /\ SNRANext' = SNRANext /\ SARFNext' = SARFNext
<1>1. BusyNext' = BusyNext /\ BusyCheckpointsNext' = BusyCheckpointsNext
  <2>1. /\ busy' = BusyNext /\ sbCheckpoints' = BusyCheckpointsNext
        /\ busySet' = {} /\ busyClear' = {} /\ landed' = {}
        /\ sbAllocate' = None /\ sbRestore' = None
    BY DEF ScoreboardEval
  <2>2. BusyNext' = BusyNext
    BY <2>1 DEF BusyNext
  <2>3. BusyCheckpointsNext' = [g \in GCs |-> BusyCheckpointsNext[g]]
    BY <2>1, ConstantFacts DEF BusyCheckpointsNext
  <2> QED
    BY <2>2, <2>3 DEF BusyCheckpointsNext
<1>2. NRANext' = NRANext /\ VNext' = VNext /\ AliasCheckpointsNext' = AliasCheckpointsNext
  <2>1. /\ NRA' = NRANext /\ V' = VNext /\ ratCheckpoints' = AliasCheckpointsNext
        /\ nraSet' = {} /\ nraClear' = {} /\ vSet' = {} /\ vClear' = {}
        /\ ratAllocate' = None /\ ratRestore' = None
    BY DEF RATEval
  <2>2. NRANext' = NRANext /\ VNext' = VNext
    BY <2>1 DEF NRANext, VNext
  <2>3. AliasCheckpointsNext' = [g \in GCs |-> AliasCheckpointsNext[g]]
    BY <2>1, ConstantFacts DEF AliasCheckpointsNext
  <2> QED
    BY <2>2, <2>3 DEF AliasCheckpointsNext
<1>3. ARFNext' = ARFNext
  BY DEF RATEval, ARFNext
<1>4. SNRANext' = SNRANext /\ SARFNext' = SARFNext
  BY DEF SRATEval, SNRANext, SARFNext
<1> QED
  BY <1>1, <1>2, <1>3, <1>4

(* The clock edge keeps the inductive invariant.                           *)
LEMMA InvCycle ==
  ASSUME IInv, TypeOK', Cycle PROVE IInv'
<1>1. /\ BusyNext' = BusyNext /\ BusyCheckpointsNext' = BusyCheckpointsNext
      /\ NRANext' = NRANext /\ VNext' = VNext /\ ARFNext' = ARFNext
      /\ AliasCheckpointsNext' = AliasCheckpointsNext
      /\ SNRANext' = SNRANext /\ SARFNext' = SARFNext
  BY EdgeKeepsNext DEF Cycle, IInv
<1>2. PICK n : n = Len(rob)
  OBVIOUS
<1>3. /\ n \in Nat /\ DOMAIN rob = 1 .. n
      /\ \A k \in 1 .. n : rob[k] \in Instruction
  BY <1>2, RobFacts DEF IInv
<1>4. rob' = [k \in 1 .. n |->
                IF rob[k].st = "new" THEN [rob[k] EXCEPT !.st = "wait"] ELSE rob[k]]
  BY <1>3 DEF Cycle
<1>5. Len(rob') = n /\ DOMAIN rob' = 1 .. n
  BY <1>3, <1>4 DEF IInv, TypeOK
<1>6. \A k \in 1 .. n :
        /\ rob'[k].arf = rob[k].arf /\ rob'[k].prf = rob[k].prf
        /\ rob'[k].src = rob[k].src /\ rob'[k].gc = rob[k].gc
        /\ rob'[k].st = IF rob[k].st = "new" THEN "wait" ELSE rob[k].st
  BY <1>3, <1>4 DEF Instruction
<1>7. arch' = arch /\ fetched' = FALSE /\ committed' = FALSE
  BY DEF Cycle
<1>8. \A m \in 0 .. n : NameMap(m)' = NameMap(m) /\ InFlight(m)' = InFlight(m)
  BY <1>3, <1>6, <1>7, NamesFrame DEF IInv
<1>9. Committed' = Committed /\ Live' = Live
  <2>1. Committed' = Committed
    BY <1>7 DEF Committed
  <2> QED
    BY <1>2, <1>3, <1>5, <1>8, <2>1 DEF Live
<1>10. Shape'
  <2>1. ASSUME NEW k \in 1 .. n
        PROVE  /\ rob'[k].arf = 0 <=> rob'[k].prf = None
               /\ rob'[k].gc # None => rob'[k].arf = 0 /\ rob'[k].st # "done"
               /\ rob'[k].st # "new"
               /\ \A a \in Renamed : rob'[k].prf # None => rob'[k].prf # arch[a]
    BY <1>3, <1>6 DEF IInv, Shape, IsBranch
  <2>2. ASSUME NEW j \in 1 .. n, NEW k \in 1 .. n, j # k
        PROVE  /\ rob'[j].prf # None => rob'[j].prf # rob'[k].prf
               /\ rob'[j].gc # None => rob'[j].gc # rob'[k].gc
    BY <1>3, <1>6, <2>2 DEF IInv, Shape
  <2>3. \A a, b \in Renamed : a # b /\ arch[a] # None => arch[a] # arch[b]
    BY DEF IInv, Shape
  <2> QED
    BY <1>5, <1>7, <2>1, <2>2, <2>3 DEF Shape, IsBranch
<1>11. Allocated'
  BY <1>1, <1>3, <1>5, <1>6, <1>7, <1>9 DEF IInv, Allocated
<1>12. Mapped'
  <2>1. VNext' = NameMap(n)' /\ BusyNext' = InFlight(n)'
    BY <1>1, <1>2, <1>3, <1>8 DEF IInv, Mapped, BusyIsInFlight
  <2>2. ASSUME NEW k \in 1 .. n, rob'[k].gc # None
        PROVE  /\ AliasCheckpointsNext'[rob'[k].gc] = NameMap(k)'
               /\ BusyCheckpointsNext'[rob'[k].gc] = InFlight(k)'
    <3>1. rob'[k].gc = rob[k].gc /\ k \in DOMAIN rob /\ k \in 0 .. n
      BY <1>3, <1>6
    <3>2. AliasCheckpointsNext[rob[k].gc] = NameMap(k) /\ BusyCheckpointsNext[rob[k].gc] = InFlight(k)
      BY <2>2, <3>1 DEF IInv, Mapped, CheckpointsCurrent, IsBranch
    <3> QED
      BY <1>1, <1>8, <3>1, <3>2
  <2> QED
    BY <1>5, <2>1, <2>2 DEF Mapped, BusyIsInFlight, CheckpointsCurrent, IsBranch
<1>13. Operands'
  <2>1. ASSUME NEW k \in 1 .. n, rob'[k].st \in {"new", "wait"}, rob'[k].src # None
        PROVE  rob'[k].src \in NameMap(k - 1)'
    <3>1. /\ rob[k].st \in {"new", "wait"} /\ rob'[k].src = rob[k].src /\ k \in DOMAIN rob
          /\ k - 1 \in 0 .. n
      BY <1>3, <1>6, <2>1
    <3>2. rob[k].src \in NameMap(k - 1)
      BY <2>1, <3>1 DEF IInv, Operands
    <3> QED
      BY <1>8, <3>1, <3>2
  <2> QED
    BY <1>5, <2>1 DEF Operands
<1>14. Shadow'
  BY <1>1, <1>7, <1>9 DEF IInv, Shadow, ShadowIsCommitted
<1>15. Pending'
  <2>1. /\ busySet' = {} /\ busyClear' = {} /\ landed' = {} /\ forwardMod' = {}
        /\ sbAllocate' = None /\ sbRestore' = None /\ ratAllocate' = None /\ ratRestore' = None
        /\ nraSet' = {} /\ vSet' = {} /\ vClear' = {} /\ arfMod' = [p \in PRFs |-> 0]
        /\ sNRASet' = {} /\ sNRAClear' = {} /\ sARFMod' = [p \in PRFs |-> 0]
    BY DEF Cycle, ScoreboardEval, RATEval, SRATEval
  <2>2. ASSUME NEW k \in 1 .. n, rob'[k].prf # None
        PROVE  rob'[k].st # "new" /\ rob'[k].prf \in busy' /\ arfMod'[rob'[k].prf] = 0
    <3>1. rob'[k].st # "new" /\ rob'[k].prf = rob[k].prf
      BY <1>6
    <3>2. rob[k].prf \in PRFs
      BY <1>3, <1>6, <2>2 DEF Instruction
    <3>3. rob[k].prf \in InFlight(n)
      BY <3>2 DEF InFlight
    <3>4. busy' = InFlight(n)
      BY <1>2 DEF Cycle, ScoreboardEval, IInv, Mapped, BusyIsInFlight
    <3> QED
      BY <2>1, <3>1, <3>2, <3>3, <3>4
  <2>3. \A a \in Renamed : arch'[a] # None => arfMod'[arch'[a]] = 0
    BY <1>7, <2>1 DEF IInv, TypeOK
  <2> QED
    BY <1>5, <1>7, <2>1, <2>2, <2>3 DEF Pending
<1> QED
  BY <1>10, <1>11, <1>12, <1>13, <1>14, <1>15 DEF IInv

(* The shadow table follows a commit of p to arf.                          *)
LEMMA ShadowFollows ==
  ASSUME IInv, ~committed, NEW arf \in Renamed, NEW p \in PRFs, p \notin Committed,
         ShadowCommit(p, arf), UNCHANGED sratState,
         arch' = [arch EXCEPT ![arf] = p]
  PROVE  Shadow'
<1>1. /\ sNRASet = {} /\ sNRAClear = {} /\ sARFMod = [q \in PRFs |-> 0]
      /\ sNRA \subseteq PRFs /\ sARF \in [PRFs -> ARFs]
      /\ arch \in [Renamed -> PRFs \cup {None}]
  BY DEF IInv, Pending, TypeOK, SRATTypeOK
<1>2. arf # 0 /\ arf \in ARFs /\ p # None
  BY ConstantFacts DEF Renamed
<1>3. SNRANext = sNRA /\ SARFNext = sARF
  BY <1>1 DEF SNRANext, SARFNext
<1>4. SNRANext' = (sNRA \ {q \in PRFs : sARF[q] = arf}) \cup {p}
  BY <1>1 DEF SNRANext, ShadowCommit, sratState
<1>5. SARFNext' = [sARF EXCEPT ![p] = arf]
  BY <1>1, <1>2 DEF SARFNext, ShadowCommit, sratState
<1>6. \A a \in Renamed : arch[a] # p
  BY DEF Committed
<1>7. \A a \in Renamed : arch[a] # None => sARF[arch[a]] = a
  BY <1>3 DEF IInv, Shadow
<1>8. ASSUME NEW q \in PRFs PROVE q \in SNRANext' <=> q \in Committed'
  <2>1. q \in Committed' <=> q = p \/ \E a \in Renamed \ {arf} : arch[a] = q
    BY <1>1 DEF Committed
  <2>2. q \in sNRA <=> \E a \in Renamed : arch[a] = q
    BY <1>3 DEF IInv, Shadow, ShadowIsCommitted, Committed
  <2>3. \A a \in Renamed : arch[a] = q => sARF[q] = a
    BY <1>7, ConstantFacts
  <2> QED
    BY <1>4, <2>1, <2>2, <2>3
<1>9. ShadowIsCommitted'
  BY <1>1, <1>4, <1>8 DEF ShadowIsCommitted, Committed
<1>10. ASSUME NEW a \in Renamed, arch'[a] # None PROVE SARFNext'[arch'[a]] = a
  BY <1>1, <1>5, <1>6, <1>7, <1>10
<1> QED
  BY <1>9, <1>10 DEF Shadow

(* SyncNRA with nothing in flight keeps the inductive invariant.           *)
LEMMA InvRecover ==
  ASSUME IInv, TypeOK', Recover PROVE IInv'
<1>1. /\ Len(rob) = 0 /\ DOMAIN rob = {} /\ rob' = rob /\ arch' = arch
      /\ ~fetched /\ ~committed /\ fetched' = TRUE /\ committed' = committed
  BY DEF Recover
<1>2. /\ UNCHANGED <<sbVars, ratState, ratGCInput, sratVars, vSet, vClear, arfMod>>
      /\ nraSet' = sNRA /\ nraClear' = PRFs \ sNRA
  BY DEF Recover, SyncNRA
<1>3. /\ BusyNext' = BusyNext /\ VNext' = VNext /\ ARFNext' = ARFNext
      /\ SNRANext' = SNRANext /\ SARFNext' = SARFNext
  BY <1>2
     DEF sbVars, sbState, sbBusyMod, sbGCInput, ratState, ratGCInput, sratVars, sratState,
         sratMod, BusyNext, BusyCheckpointsNext, Modified, VNext, AliasCheckpointsNext,
         ARFNext, SNRANext, SARFNext
<1>4. NameMap(0)' = NameMap(0) /\ InFlight(0)' = InFlight(0)
  BY <1>1 DEF NameMap, Names, InFlight
<1>5. Committed' = Committed /\ Live' = Live /\ Live = Committed
  BY <1>1 DEF Committed, Live, InFlight
<1>6. Allocated'
  <2>1. SNRANext = sNRA /\ NRA \subseteq PRFs
    BY <1>1 DEF IInv, Pending, SNRANext, TypeOK, RATTypeOK
  <2>2. NRANext' = (NRA \ (PRFs \ sNRA)) \cup sNRA
    BY <1>2 DEF NRANext, ratState
  <2>3. Live' \subseteq NRANext'
    BY <1>5, <2>1, <2>2 DEF IInv, Shadow, ShadowIsCommitted
  <2> QED
    BY <1>1, <1>3, <2>3 DEF IInv, Allocated
<1>7. Shape'
  BY <1>1 DEF IInv, Shape
<1>8. Mapped'
  BY <1>1, <1>3, <1>4 DEF IInv, Mapped, BusyIsInFlight, CheckpointsCurrent
<1>9. Operands'
  BY <1>1 DEF Operands
<1>10. Shadow'
  BY <1>1, <1>3, <1>5 DEF IInv, Shadow, ShadowIsCommitted
<1>11. Pending'
  BY <1>1, <1>2
     DEF IInv, Pending, sbVars, sbBusyMod, sbGCInput, ratGCInput, sratVars, sratMod
<1> QED
  BY <1>6, <1>7, <1>8, <1>9, <1>10, <1>11 DEF IInv

(* TouchAndCommit between cycles keeps the inductive invariant.            *)
LEMMA InvSetARF ==
  ASSUME IInv, TypeOK', NEW arf \in Renamed, SetARF(arf) PROVE IInv'
<1>1. /\ Len(rob) = 0 /\ DOMAIN rob = {} /\ rob' = rob /\ ~fetched /\ ~committed
      /\ fetched' = TRUE /\ committed' = TRUE
  BY DEF SetARF
<1>2. PICK p \in PRFs :
        /\ ~IsFull /\ p = GetNextEntry
        /\ TouchEntry(p, arf, {q \in PRFs : ARF[q] = arf})
        /\ ShadowCommit(p, arf)
        /\ arch' = [arch EXCEPT ![arf] = p]
        /\ UNCHANGED <<sbVars, ratState, ratGCInput, sratState>>
  BY DEF SetARF, TouchAndCommit
<1>3. p \in PRFs \ NRA /\ p \notin Live
  BY <1>1, <1>2, NextEntryIsFree
<1>4. Live = Committed /\ InFlight(0) = {} /\ InFlight(0)' = {}
  BY <1>1 DEF Live, InFlight
<1>5. arf # 0 /\ arf \in ARFs /\ p # None
  BY ConstantFacts DEF Renamed
<1>6. /\ busySet = {} /\ nraSet = {} /\ vSet = {} /\ vClear = {}
      /\ arfMod = [q \in PRFs |-> 0] /\ sbRestore = None /\ ratRestore = None
  BY <1>1 DEF IInv, Pending
<1>7. /\ arch \in [Renamed -> PRFs \cup {None}] /\ V \subseteq PRFs
      /\ ARF \in [PRFs -> ARFs]
  BY DEF IInv, TypeOK, RATTypeOK
<1>8. \A a \in Renamed : arch[a] # p /\ arch'[a] = IF a = arf THEN p ELSE arch[a]
  BY <1>2, <1>3, <1>7 DEF Live, Committed
<1>9. ARFNext = ARF /\ ARFNext' = [ARF EXCEPT ![p] = arf]
  BY <1>2, <1>5, <1>6, <1>7 DEF ARFNext, TouchEntry, ratState
<1>10. \A a \in Renamed : arch[a] # None => arch[a] \in PRFs /\ ARF[arch[a]] = a
  BY <1>7, <1>9 DEF IInv, Allocated
<1>11. ASSUME NEW q \in PRFs
       PROVE  q \in Committed' <=> q = p \/ \E a \in Renamed \ {arf} : arch[a] = q
  BY <1>8 DEF Committed
<1>12. Shape'
  <2>1. ASSUME NEW a \in Renamed, NEW b \in Renamed, a # b, arch'[a] # None
        PROVE  arch'[a] # arch'[b]
    BY <1>8, <2>1 DEF IInv, Shape
  <2> QED
    BY <1>1, <2>1 DEF Shape
<1>13. Allocated'
  <2>1. NRANext' = (NRA \ ((nraClear \cup {q \in PRFs : ARF[q] = arf}) \ {p})) \cup {p}
    BY <1>2, <1>6 DEF NRANext, TouchEntry, ratState
  <2>2. NRANext = NRA \ nraClear
    BY <1>6 DEF NRANext
  <2>3. ASSUME NEW q \in Committed' PROVE q \in NRANext'
    <3>1. CASE q = p
      BY <2>1, <3>1
    <3>2. CASE q # p
      <4>1. q \in PRFs
        BY <2>3 DEF Committed
      <4>2. PICK a \in Renamed \ {arf} : arch[a] = q
        BY <1>11, <2>3, <3>2, <4>1
      <4>3. ARF[q] = a /\ q \in Committed
        BY <1>10, <4>1, <4>2, ConstantFacts DEF Committed
      <4>4. q \in NRANext
        BY <1>4, <4>3 DEF IInv, Allocated
      <4> QED
        BY <2>1, <2>2, <4>2, <4>3, <4>4
    <3> QED
      BY <3>1, <3>2
  <2>4. Live' = Committed'
    BY <1>1, <1>4 DEF Live
  <2>5. ASSUME NEW a \in Renamed, arch'[a] # None PROVE ARFNext'[arch'[a]] = a
    BY <1>7, <1>8, <1>9, <1>10, <2>5
  <2> QED
    BY <1>1, <2>3, <2>4, <2>5 DEF Allocated
<1>14. Mapped'
  <2>1. BusyNext' = BusyNext /\ BusyNext = {}
    BY <1>1, <1>2, <1>4
       DEF IInv, Mapped, BusyIsInFlight, sbVars, sbState, sbBusyMod, sbGCInput, BusyNext,
           BusyCheckpointsNext, Modified
  <2>2. VNext = V /\ VNext' = (V \ Invalidated(arf)) \cup {p}
    BY <1>2, <1>6 DEF VNext, TouchEntry, ratState, ratGCInput
  <2>3. ASSUME NEW q \in PRFs, NEW b \in Renamed
        PROVE  (Names(q, b, 0) <=> arch[b] = q) /\ (Names(q, b, 0)' <=> arch'[b] = q)
    BY DEF Names
  <2>4. V = Committed /\ Invalidated(arf) = {q \in PRFs : arch[arf] = q}
    <3>1. V = NameMap(0) /\ Invalidated(arf) = {q \in PRFs : Names(q, arf, 0)}
      BY <1>1, <2>2, InvalidatedIsNewest DEF IInv, Mapped
    <3> QED
      BY <2>3, <3>1 DEF NameMap, Committed
  <2>5. ASSUME NEW q \in PRFs PROVE q \in VNext' <=> q \in Committed'
    <3>1. q \in Committed <=> \E a \in Renamed : arch[a] = q
      BY DEF Committed
    <3>2. \A a \in Renamed : arch[a] = q => ARF[q] = a
      BY <1>10, ConstantFacts
    <3>3. q = p => ~\E a \in Renamed : arch[a] = q
      BY <1>8
    <3> QED
      BY <1>11, <2>2, <2>4, <3>1, <3>2, <3>3
  <2>6. VNext' = NameMap(0)'
    BY <1>7, <2>2, <2>3, <2>5 DEF NameMap, Committed
  <2> QED
    BY <1>1, <1>4, <2>1, <2>6 DEF Mapped, BusyIsInFlight, CheckpointsCurrent
<1>15. Operands'
  BY <1>1 DEF Operands
<1>16. Shadow'
  BY <1>1, <1>2, <1>3, <1>4, ShadowFollows
<1>17. Pending'
  BY <1>1, <1>2 DEF IInv, Pending, sbVars, sbBusyMod, sbGCInput, ratGCInput
<1> QED
  BY <1>12, <1>13, <1>14, <1>15, <1>16, <1>17 DEF IInv

(* The oldest instruction leaves: the names of what remains are the same,  *)
(* one place earlier, its own destination now a committed one.             *)
LEMMA TailShift ==
  ASSUME TypeOK, Shape, NEW n, n = Len(rob), NEW h, rob # <<>>, h = rob[1],
         rob' = Tail(rob),
         arch' = IF h.prf = None THEN arch ELSE [arch EXCEPT ![h.arf] = h.prf]
  PROVE  /\ n \in Nat \ {0} /\ Len(rob') = n - 1 /\ DOMAIN rob' = 1 .. n - 1
         /\ \A k \in 1 .. n - 1 : rob'[k] = rob[k + 1]
         /\ \A m \in 0 .. n - 1 : /\ NameMap(m)' = NameMap(m + 1)
                                  /\ InFlight(m)' = InFlight(m + 1) \ {h.prf}
<1>1. /\ n \in Nat \ {0} /\ Len(rob') = n - 1 /\ DOMAIN rob' = 1 .. n - 1
      /\ \A k \in 1 .. n - 1 : rob'[k] = rob[k + 1]
  BY DEF TypeOK
<1>2. DOMAIN rob = 1 .. n
  BY RobFacts
<1>3. h.arf = 0 <=> h.prf = None
  BY <1>1, <1>2 DEF Shape
<1>4. ASSUME NEW m \in 0 .. n - 1, NEW q \in PRFs, NEW b \in Renamed
      PROVE  Names(q, b, m)' <=> Names(q, b, m + 1)
  <2>1. b # 0 /\ q # None
    BY ConstantFacts DEF Renamed
  <2>2. h.arf = b => arch'[b] = h.prf
    BY <1>3, <2>1 DEF TypeOK
  <2>3. h.arf # b => arch'[b] = arch[b]
    BY DEF TypeOK
  <2>4. \A i \in 1 .. m : i + 1 \in 1 .. m + 1 /\ rob'[i] = rob[i + 1]
    BY <1>1
  <2>5. \A i \in 2 .. m + 1 : i - 1 \in 1 .. m /\ rob'[i - 1] = rob[i] /\ (i - 1) + 1 = i
    BY <1>1
  <2>6. ASSUME Names(q, b, m + 1) PROVE Names(q, b, m)'
    <3>1. CASE arch[b] = q /\ \A i \in 1 .. m + 1 : rob[i].arf # b
      BY <1>1, <2>3, <2>4, <3>1 DEF Names
    <3>2. ASSUME NEW j \in 1 .. m + 1, rob[j].prf = q, rob[j].arf = b,
                 \A i \in j + 1 .. m + 1 : rob[i].arf # b
          PROVE  Names(q, b, m)'
      <4>1. CASE j = 1
        <5>1. \A i \in 1 .. m : rob'[i].arf # b
          BY <2>4, <3>2, <4>1
        <5> QED
          BY <2>2, <3>2, <4>1, <5>1 DEF Names
      <4>2. CASE j # 1
        <5>1. j - 1 \in 1 .. m /\ rob'[j - 1] = rob[j]
          BY <1>1, <2>5, <3>2, <4>2
        <5>2. \A i \in (j - 1) + 1 .. m : i + 1 \in j + 1 .. m + 1 /\ rob'[i] = rob[i + 1]
          BY <1>1, <4>2
        <5>3. \A i \in (j - 1) + 1 .. m : rob'[i].arf # b
          BY <3>2, <5>2
        <5> QED
          BY <3>2, <5>1, <5>3 DEF Names
      <4> QED
        BY <4>1, <4>2
    <3> QED
      BY <2>6, <3>1, <3>2 DEF Names
  <2>7. ASSUME Names(q, b, m)' PROVE Names(q, b, m + 1)
    <3>1. ASSUME NEW j \in 1 .. m, rob'[j].prf = q, rob'[j].arf = b,
                 \A i \in j + 1 .. m : rob'[i].arf # b
          PROVE  Names(q, b, m + 1)
      <4>1. j + 1 \in 1 .. m + 1 /\ rob[j + 1].prf = q /\ rob[j + 1].arf = b
        BY <2>4, <3>1
      <4>2. \A i \in (j + 1) + 1 .. m + 1 : i - 1 \in j + 1 .. m /\ i \in 2 .. m + 1
        BY <1>1
      <4>3. \A i \in (j + 1) + 1 .. m + 1 : rob[i].arf # b
        BY <2>5, <3>1, <4>2
      <4> QED
        BY <4>1, <4>3 DEF Names
    <3>2. CASE arch'[b] = q /\ \A i \in 1 .. m : rob'[i].arf # b
      <4>1. \A i \in 2 .. m + 1 : rob[i].arf # b
        BY <2>5, <3>2
      <4>2. CASE h.arf = b
        <5>1. 1 \in 1 .. m + 1 /\ rob[1].prf = q /\ rob[1].arf = b
          BY <1>1, <2>2, <3>2, <4>2
        <5>2. \A i \in 1 + 1 .. m + 1 : rob[i].arf # b
          BY <4>1
        <5> QED
          BY <5>1, <5>2 DEF Names
      <4>3. CASE h.arf # b
        <5>1. \A i \in 1 .. m + 1 : rob[i].arf # b
          BY <1>1, <4>1, <4>3
        <5> QED
          BY <2>3, <3>2, <4>3, <5>1 DEF Names
      <4> QED
        BY <4>2, <4>3
    <3> QED
      BY <2>7, <3>1, <3>2 DEF Names
  <2> QED
    BY <2>6, <2>7
<1>5. \A m \in 0 .. n - 1 : NameMap(m)' = NameMap(m + 1)
  BY <1>4 DEF NameMap
<1>6. ASSUME NEW m \in 0 .. n - 1 PROVE InFlight(m)' = InFlight(m + 1) \ {h.prf}
  <2>1. ASSUME NEW q \in PRFs
        PROVE  (\E j \in 1 .. m : rob'[j].prf = q)
                 <=> (\E j \in 1 .. m + 1 : rob[j].prf = q) /\ q # h.prf
    <3>1. ASSUME NEW j \in 1 .. m, rob'[j].prf = q
          PROVE  (\E i \in 1 .. m + 1 : rob[i].prf = q) /\ q # h.prf
      <4>1. /\ j + 1 \in 1 .. m + 1 /\ rob[j + 1].prf = q /\ q # None
            /\ j + 1 \in 1 .. n /\ 1 \in 1 .. n /\ j + 1 # 1
        BY <1>1, <3>1, ConstantFacts
      <4>2. rob[j + 1].prf # rob[1].prf
        BY <1>2, <4>1 DEF Shape
      <4> QED
        BY <4>1, <4>2
    <3>2. ASSUME NEW j \in 1 .. m + 1, rob[j].prf = q, q # h.prf
          PROVE  \E i \in 1 .. m : rob'[i].prf = q
      <4>1. j - 1 \in 1 .. m /\ rob'[j - 1] = rob[j]
        BY <1>1, <3>2
      <4> QED
        BY <3>2, <4>1
    <3> QED
      BY <3>1, <3>2
  <2> QED
    BY <2>1 DEF InFlight
<1> QED
  BY <1>1, <1>5, <1>6

(* Land, LandAndRelease and the shadow Commit keep the inductive invariant.*)
LEMMA InvCommit ==
  ASSUME IInv, TypeOK', Commit PROVE IInv'
<1>1. TypeOK /\ Shape /\ rob # <<>> /\ rob' = Tail(rob) /\ ~committed /\ committed' = TRUE
  BY DEF IInv, Commit
<1>2. PICK n : n = Len(rob)
  OBVIOUS
<1>3. PICK h : h = rob[1]
  OBVIOUS
<1>4. Head(rob) = h /\ h.st = "done" /\ h \in Instruction /\ 1 \in DOMAIN rob
  BY <1>1, <1>3 DEF TypeOK, Commit
<1>5. /\ h.arf = 0 <=> h.prf = None
      /\ h.gc = None
  BY <1>1, <1>3, <1>4 DEF Shape, IsBranch
<1>6. /\ arch' = IF h.prf = None THEN arch ELSE [arch EXCEPT ![h.arf] = h.prf]
      /\ arch \in [Renamed -> PRFs \cup {None}] /\ fetched' = fetched
  BY <1>1, <1>4 DEF Commit, TypeOK, sbVars
<1>7. /\ n \in Nat \ {0} /\ Len(rob') = n - 1 /\ DOMAIN rob' = 1 .. n - 1
      /\ \A k \in 1 .. n - 1 : rob'[k] = rob[k + 1]
      /\ \A m \in 0 .. n - 1 : /\ NameMap(m)' = NameMap(m + 1)
                               /\ InFlight(m)' = InFlight(m + 1) \ {h.prf}
  BY <1>1, <1>2, <1>3, <1>6, TailShift
<1>8. DOMAIN rob = 1 .. n /\ \A k \in 1 .. n - 1 : k + 1 \in 1 .. n /\ k + 1 # 1
  BY <1>1, <1>2, <1>7, RobFacts
<1>9. CASE h.prf = None
  <2>1. /\ UNCHANGED <<sbVars, ratVars, sratVars, arch, fetched>>
    BY <1>4, <1>9 DEF Commit
  <2>2. \A m \in 0 .. n - 1 : InFlight(m)' = InFlight(m + 1)
    BY <1>7, <1>9, ConstantFacts DEF InFlight
  <2>3. Committed' = Committed
    BY <2>1 DEF Committed
  <2>4. Live' = Live
    <3>1. InFlight(n - 1)' = InFlight(n)
      BY <1>7, <2>2
    <3> QED
      BY <1>2, <1>7, <2>3, <3>1 DEF Live
  <2>5. Shape'
    <3>1. ASSUME NEW k \in 1 .. n - 1
          PROVE  /\ rob'[k].arf = 0 <=> rob'[k].prf = None
                 /\ rob'[k].gc # None => rob'[k].arf = 0 /\ rob'[k].st # "done"
                 /\ rob'[k].st = "new" => k = n - 1 /\ fetched
                 /\ \A a \in Renamed : rob'[k].prf # None => rob'[k].prf # arch[a]
      BY <1>1, <1>2, <1>7, <1>8 DEF Shape, IsBranch
    <3>2. ASSUME NEW j \in 1 .. n - 1, NEW k \in 1 .. n - 1, j # k
          PROVE  /\ rob'[j].prf # None => rob'[j].prf # rob'[k].prf
                 /\ rob'[j].gc # None => rob'[j].gc # rob'[k].gc
      <4>1. j + 1 # k + 1
        BY <1>7, <3>2
      <4> QED
        BY <1>1, <1>7, <1>8, <4>1 DEF Shape
    <3>3. \A a, b \in Renamed : a # b /\ arch[a] # None => arch[a] # arch[b]
      BY <1>1 DEF Shape
    <3> QED
      BY <1>7, <2>1, <3>1, <3>2, <3>3 DEF Shape, IsBranch
  <2>6. Allocated'
    BY <1>7, <1>8, <2>1, <2>4, TablesFrame DEF IInv, Allocated
  <2>7. Mapped'
    <3>1. NameMap(n - 1)' = NameMap(n) /\ InFlight(n - 1)' = InFlight(n)
      BY <1>7, <2>2
    <3>2. VNext' = NameMap(n - 1)' /\ BusyNext' = InFlight(n - 1)'
      BY <1>2, <2>1, <3>1, TablesFrame DEF IInv, Mapped, BusyIsInFlight
    <3>3. ASSUME NEW k \in 1 .. n - 1, rob'[k].gc # None
          PROVE  /\ AliasCheckpointsNext'[rob'[k].gc] = NameMap(k)'
                 /\ BusyCheckpointsNext'[rob'[k].gc] = InFlight(k)'
      <4>1. rob'[k] = rob[k + 1] /\ k + 1 \in DOMAIN rob /\ k \in 0 .. n - 1
        BY <1>7, <1>8
      <4>2. /\ AliasCheckpointsNext[rob[k + 1].gc] = NameMap(k + 1)
            /\ BusyCheckpointsNext[rob[k + 1].gc] = InFlight(k + 1)
        BY <3>3, <4>1 DEF IInv, Mapped, CheckpointsCurrent, IsBranch
      <4> QED
        BY <1>7, <2>1, <2>2, <4>1, <4>2, TablesFrame
    <3> QED
      BY <1>7, <3>2, <3>3 DEF Mapped, BusyIsInFlight, CheckpointsCurrent, IsBranch
  <2>8. Operands'
    <3>1. ASSUME NEW k \in 1 .. n - 1, rob'[k].st \in {"new", "wait"}, rob'[k].src # None
          PROVE  rob'[k].src \in NameMap(k - 1)'
      <4>1. rob'[k] = rob[k + 1] /\ k + 1 \in DOMAIN rob /\ k - 1 \in 0 .. n - 1
            /\ (k - 1) + 1 = (k + 1) - 1
        BY <1>7, <1>8
      <4>2. rob[k + 1].src \in NameMap((k + 1) - 1)
        BY <3>1, <4>1 DEF IInv, Operands
      <4> QED
        BY <1>7, <4>1, <4>2
    <3> QED
      BY <1>7, <3>1 DEF Operands
  <2>9. Shadow'
    BY <2>1, <2>3, TablesFrame DEF IInv, Shadow, ShadowIsCommitted
  <2>10. Pending'
    BY <1>1, <1>7, <1>8, <2>1
       DEF IInv, Pending, sbVars, sbState, sbBusyMod, sbGCInput, ratVars, ratState,
           ratMod, ratGCInput
  <2> QED
    BY <2>5, <2>6, <2>7, <2>8, <2>9, <2>10 DEF IInv
<1>10. CASE h.prf # None
  <2>1. PICK p : p = h.prf /\ p \in PRFs
    BY <1>4, <1>10 DEF Instruction
  <2>2. PICK arf : arf = h.arf /\ arf \in Renamed
    BY <1>4, <1>5, <1>10 DEF Instruction, Renamed
  <2>3. /\ Land(p) /\ LandAndRelease(p) /\ ShadowCommit(p, arf)
        /\ arch' = [arch EXCEPT ![arf] = p]
        /\ UNCHANGED <<sbState, forwardMod, sbGCInput, ratState, ratGCInput,
                       sratState, fetched>>
    BY <1>4, <1>10, <2>1, <2>2 DEF Commit
  <2>4. /\ p # None /\ arf # 0
    BY <2>1, <2>2, ConstantFacts DEF Renamed
  <2>5. \A a \in Renamed : arch[a] # p /\ arch'[a] = IF a = arf THEN p ELSE arch[a]
    BY <1>1, <1>3, <1>4, <1>6, <1>10, <2>1, <2>3 DEF Shape
  <2>6. p \notin Committed
    BY <2>5 DEF Committed
  <2>7. \A k \in 1 .. n - 1 : rob'[k].prf # p
    <3>1. ASSUME NEW k \in 1 .. n - 1 PROVE rob[k + 1].prf # p
      BY <1>1, <1>3, <1>4, <1>8, <1>10, <2>1 DEF Shape
    <3> QED
      BY <1>7, <3>1
  <2>8. /\ VNext' = VNext /\ ARFNext' = ARFNext /\ AliasCheckpointsNext' = AliasCheckpointsNext
    BY <2>3 DEF LandAndRelease, ratState, ratGCInput, VNext, ARFNext, AliasCheckpointsNext
  <2>9. /\ busySet' = busySet \ {p} /\ busyClear' = busyClear \cup {p}
        /\ landed' = landed \cup {p} /\ forwardMod' = {} /\ forwardMod = {}
        /\ sbRestore' = sbRestore /\ sbAllocate' = sbAllocate /\ busy' = busy
        /\ sbCheckpoints' = sbCheckpoints
    BY <2>3 DEF Land, SetBusy, sbGCInput, sbState, IInv, Pending
  <2>10. /\ \A x \in GCs : BusyCheckpointsNext'[x] = BusyCheckpointsNext[x] \ {p}
    <3>1. landed' \cap Modified' = (landed \cap Modified) \cup {p}
      BY <2>9 DEF Modified
    <3> QED
      BY <2>9, <3>1 DEF BusyCheckpointsNext
  <2>11. BusyNext' = BusyNext \ {p}
    <3>1. CASE sbRestore = None
      BY <2>9, <3>1 DEF BusyNext
    <3>2. CASE sbRestore # None
      <4>1. sbRestore \in GCs
        BY <1>1, <3>2 DEF TypeOK, ScoreboardTypeOK
      <4> QED
        BY <2>9, <2>10, <3>2, <4>1 DEF BusyNext
    <3> QED
      BY <3>1, <3>2
  <2>12. /\ Committed' \subseteq Committed \cup {p}
         /\ \A q \in Committed' : q = p \/ \E a \in Renamed \ {arf} : arch[a] = q
    BY <2>5 DEF Committed
  <2>13. \A k \in 1 .. n : rob[k].prf # None /\ rob[k].st # "new" =>
           rob[k].prf \in busy /\ arfMod[rob[k].prf] = 0
    BY <1>8 DEF IInv, Pending
  <2>14. Shape'
    <3>1. ASSUME NEW k \in 1 .. n - 1
          PROVE  /\ rob'[k].arf = 0 <=> rob'[k].prf = None
                 /\ rob'[k].gc # None => rob'[k].arf = 0 /\ rob'[k].st # "done"
                 /\ rob'[k].st = "new" => k = n - 1 /\ fetched
                 /\ \A a \in Renamed : rob'[k].prf # None => rob'[k].prf # arch[a]
      BY <1>1, <1>2, <1>7, <1>8 DEF Shape, IsBranch
    <3>2. ASSUME NEW j \in 1 .. n - 1, NEW k \in 1 .. n - 1, j # k
          PROVE  /\ rob'[j].prf # None => rob'[j].prf # rob'[k].prf
                 /\ rob'[j].gc # None => rob'[j].gc # rob'[k].gc
      <4>1. j + 1 # k + 1
        BY <1>7, <3>2
      <4> QED
        BY <1>1, <1>7, <1>8, <4>1 DEF Shape
    <3>3. \A a, b \in Renamed : a # b /\ arch[a] # None => arch[a] # arch[b]
      BY <1>1 DEF Shape
    <3>4. \A a, b \in Renamed : a # b /\ arch'[a] # None => arch'[a] # arch'[b]
      BY <2>4, <2>5, <3>3
    <3>5. \A k \in 1 .. n - 1, a \in Renamed : rob'[k].prf # None => rob'[k].prf # arch'[a]
      BY <2>5, <2>7, <3>1
    <3> QED
      BY <1>6, <1>7, <3>1, <3>2, <3>4, <3>5 DEF Shape, IsBranch
  <2>15. Allocated'
    <3>1. NRANext' = NRANext \ Released(p)
      BY <2>3 DEF LandAndRelease, NRANext, Released, ratState
    <3>2. ARF[p] = arf
      <4>1. p \in busy /\ arfMod[p] = 0 /\ ARFNext[p] = arf
        BY <1>3, <1>4, <1>8, <1>10, <2>1, <2>2, <2>13 DEF IInv, Allocated
      <4> QED
        BY <2>1, <4>1 DEF ARFNext
    <3>3. ASSUME NEW q \in Live' PROVE q \in NRANext'
      <4>1. CASE \E k \in 1 .. n : rob[k].prf = q
        <5>1. PICK k \in 1 .. n : rob[k].prf = q
          BY <4>1
        <5>2. q \in PRFs /\ q # None
          BY <3>3, ConstantFacts DEF Live, InFlight, Committed
        <5>3. q \in NRANext
          BY <1>2, <5>1, <5>2 DEF IInv, Allocated, Live, InFlight
        <5>4. q \in busy \/ q \in nraSet
          BY <1>8, <5>1, <5>2 DEF IInv, Pending
        <5> QED
          BY <3>1, <5>3, <5>4 DEF Released
      <4>2. CASE ~\E k \in 1 .. n : rob[k].prf = q
        <5>1. q \notin InFlight(n - 1)'
          <6>1. q \notin InFlight(n)
            BY <4>2 DEF InFlight
          <6> QED
            BY <1>7, <6>1
        <5>2. q \in Committed' /\ q # p
          BY <1>3, <1>7, <2>1, <3>3, <4>2, <5>1 DEF Live
        <5>3. PICK a \in Renamed \ {arf} : arch[a] = q
          BY <2>12, <5>2
        <5>4. q \in PRFs /\ q # None /\ q \in Committed
          BY <5>2, <5>3, ConstantFacts DEF Committed
        <5>5. arfMod[q] = 0 /\ ARFNext[q] = a /\ q \in NRANext
          BY <1>1, <5>3, <5>4 DEF IInv, Pending, Allocated, Live
        <5>6. ARF[q] = a
          BY <5>4, <5>5 DEF ARFNext
        <5> QED
          BY <3>1, <3>2, <5>3, <5>5, <5>6 DEF Released
      <4> QED
        BY <4>1, <4>2
    <3>4. ASSUME NEW k \in 1 .. n - 1, rob'[k].prf # None
          PROVE  ARFNext'[rob'[k].prf] = rob'[k].arf
      BY <1>7, <1>8, <2>8, <3>4 DEF IInv, Allocated
    <3>5. ASSUME NEW a \in Renamed, arch'[a] # None PROVE ARFNext'[arch'[a]] = a
      <4>1. CASE a = arf
        BY <1>3, <1>4, <1>10, <2>1, <2>2, <2>5, <2>8, <4>1 DEF IInv, Allocated
      <4>2. CASE a # arf
        BY <2>5, <2>8, <3>5, <4>2 DEF IInv, Allocated
      <4> QED
        BY <4>1, <4>2
    <3> QED
      BY <1>7, <3>3, <3>4, <3>5 DEF Allocated
  <2>16. Mapped'
    <3>1. NameMap(n - 1)' = NameMap(n) /\ InFlight(n - 1)' = InFlight(n) \ {p}
      BY <1>7, <2>1
    <3>2. VNext' = NameMap(n - 1)' /\ BusyNext' = InFlight(n - 1)'
      BY <1>2, <2>8, <2>11, <3>1 DEF IInv, Mapped, BusyIsInFlight
    <3>3. ASSUME NEW k \in 1 .. n - 1, rob'[k].gc # None
          PROVE  /\ AliasCheckpointsNext'[rob'[k].gc] = NameMap(k)'
                 /\ BusyCheckpointsNext'[rob'[k].gc] = InFlight(k)'
      <4>1. rob'[k] = rob[k + 1] /\ k + 1 \in DOMAIN rob /\ k \in 0 .. n - 1
        BY <1>7, <1>8
      <4>2. /\ AliasCheckpointsNext[rob[k + 1].gc] = NameMap(k + 1)
            /\ BusyCheckpointsNext[rob[k + 1].gc] = InFlight(k + 1)
        BY <3>3, <4>1 DEF IInv, Mapped, CheckpointsCurrent, IsBranch
      <4>3. rob[k + 1].gc \in GCs
        BY <1>1, <1>2, <1>8, <3>3, <4>1, RobFacts
      <4>4. BusyCheckpointsNext'[rob[k + 1].gc] = InFlight(k + 1) \ {p}
        BY <2>10, <4>2, <4>3
      <4> QED
        BY <1>7, <2>1, <2>8, <4>1, <4>2, <4>4
    <3> QED
      BY <1>7, <3>2, <3>3 DEF Mapped, BusyIsInFlight, CheckpointsCurrent, IsBranch
  <2>17. Operands'
    <3>1. ASSUME NEW k \in 1 .. n - 1, rob'[k].st \in {"new", "wait"}, rob'[k].src # None
          PROVE  rob'[k].src \in NameMap(k - 1)'
      <4>1. rob'[k] = rob[k + 1] /\ k + 1 \in DOMAIN rob /\ k - 1 \in 0 .. n - 1
            /\ (k - 1) + 1 = (k + 1) - 1
        BY <1>7, <1>8
      <4>2. rob[k + 1].src \in NameMap((k + 1) - 1)
        BY <3>1, <4>1 DEF IInv, Operands
      <4> QED
        BY <1>7, <4>1, <4>2
    <3> QED
      BY <1>7, <3>1 DEF Operands
  <2>18. Shadow'
    BY <1>1, <2>1, <2>2, <2>3, <2>6, ShadowFollows
  <2>19. Pending'
    <3>1. UNCHANGED <<busy, sbAllocate, sbRestore, ratAllocate, ratRestore, nraSet,
                      vSet, vClear, arfMod, fetched>>
      BY <2>3 DEF LandAndRelease, sbState, sbGCInput, ratGCInput
    <3>2. ASSUME NEW k \in 1 .. n - 1, rob'[k].prf # None
          PROVE  IF rob'[k].st = "new"
                 THEN rob'[k].prf \in nraSet'
                 ELSE rob'[k].prf \in busy' /\ arfMod'[rob'[k].prf] = 0
      BY <1>7, <1>8, <3>1, <3>2 DEF IInv, Pending
    <3>3. busyClear' \subseteq landed' /\ (~fetched' => busySet' = {})
      BY <2>9, <3>1 DEF IInv, Pending
    <3> QED
      BY <1>1, <1>7, <2>9, <3>1, <3>2, <3>3 DEF IInv, Pending
  <2> QED
    BY <2>14, <2>15, <2>16, <2>17, <2>18, <2>19 DEF IInv
<1> QED
  BY <1>9, <1>10

(* Every step keeps the inductive invariant.                               *)
LEMMA InvStep == IInv /\ [Next]_vars => IInv'
<1> SUFFICES ASSUME IInv, [Next]_vars PROVE IInv'
  OBVIOUS
<1>1. TypeOK'
  BY TypeStep DEF IInv
<1>2. ASSUME NEW i \in Instructions, Fetch(i[1], i[2]) PROVE IInv'
  <2>1. i[1] \in Renamed /\ i[2] \in ARFs /\ CanFetch
    BY <1>2, CoreAssumption DEF Fetch, Renamed
  <2>2. PICK p \in PRFs :
          /\ Touch(p, i[1]) /\ TakeOff(p)
          /\ rob' = Append(rob, Entry(i[1], p, i[2], None))
          /\ fetched' = TRUE
          /\ UNCHANGED <<sbState, forwardMod, sbGCInput, ratState, ratGCInput,
                         sratVars, arch, committed>>
    BY <1>2 DEF Fetch
  <2> QED
    BY <1>1, <2>1, <2>2, InvTouch
<1>3. ASSUME NEW i \in Instructions, FetchNoDest(i[1], i[2]) PROVE IInv'
  <2>1. i[2] \in ARFs /\ CanFetch /\ ~fetched
    BY <1>3, CoreAssumption DEF FetchNoDest, CanFetch
  <2>2. /\ rob' = Append(rob, Entry(0, None, i[2], None)) /\ fetched' = TRUE
        /\ UNCHANGED <<sbState, sbBusyMod, forwardMod, sbRestore, ratState,
                       ratMod, ratRestore, sratVars, arch, committed>>
        /\ UNCHANGED <<sbAllocate, ratAllocate>>
    BY <1>3 DEF FetchNoDest, sbVars, ratVars, sbGCInput, ratGCInput
  <2>3. sbAllocate' = None /\ ratAllocate' = None
    BY <2>1, <2>2 DEF IInv, Pending
  <2> QED
    BY <1>1, <2>1, <2>2, <2>3, InvJoin
<1>4. ASSUME NEW srcArf \in Branches, FetchBranch(srcArf) PROVE IInv'
  <2>1. srcArf \in ARFs /\ CanFetch
    BY <1>4, CoreAssumption DEF FetchBranch
  <2>2. PICK g \in GCs \ HeldCheckpoints :
          /\ sbAllocate' = g /\ ratAllocate' = g
          /\ rob' = Append(rob, Entry(0, None, srcArf, g)) /\ fetched' = TRUE
          /\ UNCHANGED <<sbState, sbBusyMod, forwardMod, sbRestore, ratState,
                         ratMod, ratRestore, sratVars, arch, committed>>
    BY <1>4 DEF FetchBranch, AllocateBusyCheckpoint, AllocateAliasCheckpoint
  <2> QED
    BY <1>1, <2>1, <2>2, InvJoin
<1>5. rob \in Seq(Instruction) /\ DOMAIN rob = 1 .. Len(rob)
      /\ \A j \in 1 .. Len(rob) : rob[j] \in Instruction
  BY RobFacts DEF IInv, TypeOK
<1>6. ASSUME NEW k \in DOMAIN rob, Issue(k) PROVE IInv'
  <2>1. /\ rob' = [rob EXCEPT ![k].st = "exec"] /\ rob[k].st = "wait"
        /\ UNCHANGED <<sbVars, ratVars, sratVars, arch, fetched, committed>>
    BY <1>6 DEF Issue
  <2>2. Len(rob') = Len(rob)
    BY <1>5, <2>1
  <2>3. \A j \in 1 .. Len(rob) :
          /\ rob'[j].arf = rob[j].arf /\ rob'[j].prf = rob[j].prf
          /\ rob'[j].src = rob[j].src /\ rob'[j].gc = rob[j].gc
          /\ rob'[j].st = IF j = k THEN "exec" ELSE rob[j].st
    BY <1>5, <2>1 DEF Instruction
  <2> QED
    BY <1>1, <2>1, <2>2, <2>3, InvStatus
<1>7. ASSUME NEW k \in DOMAIN rob, Writeback(k) PROVE IInv'
  <2>1. /\ rob' = [rob EXCEPT ![k].st = "done", ![k].gc = None] /\ rob[k].st = "exec"
        /\ UNCHANGED <<sbVars, ratVars, sratVars, arch, fetched, committed>>
    BY <1>7 DEF Writeback
  <2>2. Len(rob') = Len(rob)
    BY <1>5, <2>1
  <2>3. \A j \in 1 .. Len(rob) :
          /\ rob'[j].arf = rob[j].arf /\ rob'[j].prf = rob[j].prf
          /\ rob'[j].src = rob[j].src
          /\ rob'[j].gc = IF j = k THEN None ELSE rob[j].gc
          /\ rob'[j].st = IF j = k THEN "done" ELSE rob[j].st
    BY <1>5, <2>1 DEF Instruction
  <2> QED
    BY <1>1, <2>1, <2>2, <2>3, InvStatus
<1>8. CASE UNCHANGED vars
  <2>1. /\ rob' = rob
        /\ UNCHANGED <<sbVars, ratVars, sratVars, arch, fetched, committed>>
    BY <1>8 DEF vars, coreVars
  <2> QED
    BY <1>1, <2>1, InvStatus
<1> QED
  BY <1>1, <1>2, <1>3, <1>4, <1>6, <1>7, <1>8, InvMispredict, InvCommit, InvRecover,
     InvSetARF, InvCycle DEF Next

-----------------------------------------------------------------------------
(* What the invariant gives, for every size of the core, every program and *)
(* every order of the calls within a cycle.                                *)

(* The strengthening of all the properties below is an invariant.          *)
THEOREM Inductive == Spec => []IInv
<1> QED
  BY InvInit, InvStep, PTL DEF Spec

(* The register Touch hands out is never one still in use.                 *)
THEOREM NoLiveReallocated == Spec => []NoLiveReallocation
<1>1. IInv => NoLiveReallocation
  BY NextEntryIsFree DEF NoLiveReallocation
<1> QED
  BY <1>1, Inductive, PTL

(* A lookup at fetch finds the newest name in program order and no other.  *)
THEOREM LookupCorrect == Spec => []LookupFindsNewest
<1>1. IInv => LookupFindsNewest
  BY Lookup DEF LookupFindsNewest
<1> QED
  BY <1>1, Inductive, PTL

(* Busy after the next edge means in flight.                               *)
THEOREM BusyCorrect == Spec => []BusyIsInFlight
<1>1. IInv => BusyIsInFlight
  BY DEF IInv, Mapped
<1> QED
  BY <1>1, Inductive, PTL

(* The checkpoint of every branch in flight can be restored at any time.   *)
THEOREM CheckpointsCorrect == Spec => []CheckpointsCurrent
<1>1. IInv => CheckpointsCurrent
  BY DEF IInv, Mapped
<1> QED
  BY <1>1, Inductive, PTL

(* No operand is lost between fetch and issue.                             *)
THEOREM OperandsCorrect == Spec => []OperandsIntact
<1>1. ASSUME IInv, NEW k \in DOMAIN rob, rob[k].st \in {"new", "wait"}, rob[k].src # None
      PROVE  rob[k].src \in NameMap(k - 1) /\ rob[k].src \in NRANext
  <2>1. rob[k].src \in NameMap(k - 1)
    BY <1>1 DEF IInv, Operands
  <2>2. k - 1 \in 0 .. Len(rob)
    BY <1>1, RobFacts DEF IInv
  <2>3. rob[k].src \in Live
    BY <1>1, <2>1, <2>2, NameMapIsLive
  <2> QED
    BY <1>1, <2>1, <2>3 DEF IInv, Allocated
<1>2. IInv => OperandsIntact
  BY <1>1 DEF OperandsIntact
<1> QED
  BY <1>2, Inductive, PTL

(* The shadow table is the committed state.                                *)
THEOREM ShadowCorrect == Spec => []ShadowIsCommitted
<1>1. IInv => ShadowIsCommitted
  BY DEF IInv, Shadow
<1> QED
  BY <1>1, Inductive, PTL

-----------------------------------------------------------------------------
(* What a commit releases.  IInv does not speak of landed registers; what  *)
(* has to be known of them is that every other register of their ARF had   *)
(* its NRA flag modified in this cycle, unless it is busy.                 *)
Releases ==
  /\ \A p \in PRFs : arfMod[p] # 0 => p \in nraSet
  /\ \A q \in landed \cap busy, p \in PRFs \ busy :
       ARF[p] = ARF[q] => p \in nraSet \cup nraClear

(* No step loses a release: what is touched in the same cycle is set, and  *)
(* everything else stays cleared.                                          *)
LEMMA ReleasesStep == IInv /\ Releases /\ [Next]_vars => Releases'
<1> SUFFICES ASSUME IInv, Releases, [Next]_vars PROVE Releases'
  OBVIOUS
<1>1. ASSUME UNCHANGED <<landed, busy, ARF, arfMod, nraSet, nraClear>> PROVE Releases'
  BY <1>1 DEF Releases
<1>2. ASSUME NEW i \in Instructions, Fetch(i[1], i[2]) PROVE Releases'
  <2>1. PICK p \in PRFs :
          /\ nraSet' = nraSet \cup {p} /\ nraClear' = nraClear \ {p}
          /\ arfMod' = [arfMod EXCEPT ![p] = i[1]]
          /\ UNCHANGED <<landed, busy, ARF>>
    BY <1>2 DEF Fetch, Touch, TouchEntry, TakeOff, sbState, ratState
  <2>2. arfMod \in [PRFs -> ARFs]
    BY DEF IInv, TypeOK, RATTypeOK
  <2> QED
    BY <2>1, <2>2 DEF Releases
<1>3. ASSUME NEW i \in Instructions, FetchNoDest(i[1], i[2]) PROVE Releases'
  BY <1>1, <1>3
     DEF FetchNoDest, sbVars, sbState, sbBusyMod, ratVars, ratState, ratMod
<1>4. ASSUME NEW srcArf \in Branches, FetchBranch(srcArf) PROVE Releases'
  BY <1>1, <1>4 DEF FetchBranch, sbState, sbBusyMod, ratState, ratMod
<1>5. ASSUME NEW k \in DOMAIN rob, Issue(k) \/ Writeback(k) PROVE Releases'
  BY <1>1, <1>5
     DEF Issue, Writeback, sbVars, sbState, sbBusyMod, ratVars, ratState, ratMod
<1>6. ASSUME NEW k \in DOMAIN rob, Mispredict(k) PROVE Releases'
  BY <1>1, <1>6 DEF Mispredict, sbState, sbBusyMod, ratState, ratMod
<1>7. CASE Commit
  <2>1. CASE Head(rob).prf = None
    BY <1>1, <1>7, <2>1
       DEF Commit, sbVars, sbState, sbBusyMod, ratVars, ratState, ratMod
  <2>2. CASE Head(rob).prf # None
    <3>1. PICK h : h = Head(rob).prf
      OBVIOUS
    <3>2. /\ landed' = landed \cup {h} /\ nraClear' = nraClear \cup Released(h)
          /\ UNCHANGED <<busy, ARF, arfMod, nraSet>>
      BY <1>7, <2>2, <3>1 DEF Commit, Land, LandAndRelease, sbState, ratState
    <3>3. ASSUME NEW p \in PRFs \ busy, ARF[p] = ARF[h]
          PROVE  p \in nraSet' \cup nraClear'
      BY <3>2, <3>3 DEF Released
    <3> QED
      BY <3>2, <3>3 DEF Releases
  <2> QED
    BY <2>1, <2>2
<1>8. CASE Recover
  <2>1. nraSet' \cup nraClear' = PRFs \cup sNRA /\ arfMod' = arfMod
    BY <1>8 DEF Recover, SyncNRA
  <2>2. arfMod = [p \in PRFs |-> 0]
    BY <1>8 DEF Recover, IInv, Pending
  <2> QED
    BY <2>1, <2>2 DEF Releases
<1>9. ASSUME NEW arf \in Renamed, SetARF(arf) PROVE Releases'
  <2>1. PICK p \in PRFs :
          /\ TouchEntry(p, arf, {q \in PRFs : ARF[q] = arf})
          /\ UNCHANGED <<landed, busy, ARF>>
    BY <1>9 DEF SetARF, TouchAndCommit, sbVars, sbState, sbBusyMod, ratState
  <2>2. arfMod = [q \in PRFs |-> 0]
    BY <1>9 DEF SetARF, IInv, Pending
  <2> QED
    BY <2>1, <2>2 DEF Releases, TouchEntry
<1>10. CASE Cycle
  BY <1>10 DEF Cycle, ScoreboardEval, RATEval, Releases
<1>11. CASE UNCHANGED vars
  BY <1>1, <1>11
     DEF vars, sbVars, sbState, sbBusyMod, ratVars, ratState, ratMod
<1> QED
  BY <1>2, <1>3, <1>4, <1>5, <1>6, <1>7, <1>8, <1>9, <1>10, <1>11 DEF Next

(* Nothing is busy before the first edge: that the flags of landed         *)
(* registers are not initialised does no harm.                             *)
LEMMA ReleasesInit == Init => Releases
BY DEF Init, ScoreboardInit, RATInit, Releases

(* After a commit no register of its ARF stays allocated for nothing.      *)
THEOREM ReleasedCorrect == Spec => ReleasedAtCommit
<1>1. IInv /\ Releases /\ [Next]_vars =>
        [committed /\ Cycle =>
           \A q \in landed \cap busy, p \in NRA' :
             ARF'[p] = ARF[q] => p \in Live \cup busy \cup nraSet]_vars
  <2> SUFFICES ASSUME IInv, Releases, Cycle, NEW q \in landed \cap busy, NEW p \in NRA',
                      ARF'[p] = ARF[q], p \notin busy, p \notin nraSet
               PROVE  FALSE
    OBVIOUS
  <2>1. NRA' = (NRA \ nraClear) \cup nraSet /\ ARF' = ARFNext
    BY DEF Cycle, RATEval, NRANext
  <2>2. p \in PRFs
    BY <2>1 DEF IInv, TypeOK, RATTypeOK
  <2>3. ARF'[p] = ARF[p]
    BY <2>1, <2>2 DEF ARFNext, Releases
  <2>4. p \in nraSet \cup nraClear
    BY <2>2, <2>3 DEF Releases
  <2> QED
    BY <2>1, <2>4
<1> QED
  BY <1>1, Inductive, ReleasesInit, ReleasesStep, PTL DEF Spec, ReleasedAtCommit

-----------------------------------------------------------------------------
(***************************************************************************)
(* The core implements module Renaming: with the tables as the next clock  *)
(* edge leaves them, every call the O3 core loop makes is a step of the    *)
(* abstract specification or a stutter.  Both sides are related to the     *)
(* re-order buffer by IInv, so a step only has to be shown to change names *)
(* (Names) and registers in flight (InFlight) as the abstract step changes *)
(* alias and ready.                                                        *)
(***************************************************************************)

(* The refinement mapping of RenameCore, under names of its own.           *)
Window == [k \in DOMAIN rob |-> <<rob[k].arf, rob[k].prf>>]

NamesOf(a) == {p \in VNext : ARFNext[p] = a}

Alias ==
  [a \in Renamed |->
     LET names == {p \in VNext : ARFNext[p] = a}
     IN  IF names = {} THEN None ELSE First(names)]

(* The alias of a register is its newest name, None if there is no name.   *)
LEMMA AliasIsNewest ==
  ASSUME IInv, NEW a \in Renamed, NEW q \in PRFs \cup {None},
         q # None => Names(q, a, Len(rob)),
         q = None => \A p \in PRFs : ~Names(p, a, Len(rob))
  PROVE  Alias[a] = q
<1>1. Len(rob) \in 0 .. Len(rob) /\ TypeOK
  BY RobFacts DEF IInv
<1>2. VNext = NameMap(Len(rob))
  BY DEF IInv, Mapped
<1>3. \A p \in NamesOf(a) : p \in PRFs /\ Names(p, a, Len(rob))
  <2>1. ASSUME NEW p \in NamesOf(a) PROVE p \in PRFs /\ Names(p, a, Len(rob))
    <3>1. PICK b \in Renamed : p \in PRFs /\ ARFNext[p] = a /\ Names(p, b, Len(rob))
      BY <1>2 DEF NamesOf, NameMap
    <3>2. ARFNext[p] = b
      BY <1>1, <3>1, NamesAreLive
    <3> QED
      BY <3>1, <3>2
  <2> QED
    BY <2>1
<1>4. \A p \in PRFs : Names(p, a, Len(rob)) => p \in NamesOf(a)
  BY <1>1, <1>2, NamesAreLive DEF NamesOf, NameMap
<1>5. Alias[a] = IF NamesOf(a) = {} THEN None ELSE First(NamesOf(a))
  BY DEF Alias, NamesOf
<1>6. CASE q = None
  BY <1>3, <1>5, <1>6
<1>7. CASE q # None
  <2>1. q \in NamesOf(a)
    BY <1>4, <1>7
  <2>2. NamesOf(a) \in SUBSET PRFs
    BY <1>3
  <2>3. First(NamesOf(a)) \in NamesOf(a)
    BY <2>1, <2>2, FirstIsMinimum
  <2>4. First(NamesOf(a)) = q
    BY <1>1, <1>3, <1>7, <2>3, NamesUnique
  <2> QED
    BY <1>5, <2>1, <2>4
<1> QED
  BY <1>6, <1>7

(* And conversely.                                                         *)
LEMMA AliasNames ==
  ASSUME IInv, NEW a \in Renamed
  PROVE  /\ Alias[a] \in PRFs \cup {None}
         /\ Alias[a] # None => Names(Alias[a], a, Len(rob))
         /\ Alias[a] = None => \A p \in PRFs : ~Names(p, a, Len(rob))
<1>1. CASE \E p \in PRFs : Names(p, a, Len(rob))
  <2>1. PICK p \in PRFs : Names(p, a, Len(rob))
    BY <1>1
  <2>2. p # None
    BY ConstantFacts
  <2>3. Alias[a] = p
    BY <2>1, <2>2, AliasIsNewest
  <2> QED
    BY <2>1, <2>2, <2>3
<1>2. CASE \A p \in PRFs : ~Names(p, a, Len(rob))
  <2>1. Alias[a] = None
    BY <1>2, AliasIsNewest
  <2> QED
    BY <1>2, <2>1
<1> QED
  BY <1>1, <1>2

(* The same of the state after a step: a lemma without assumptions holds   *)
(* there too.                                                              *)
AliasFact ==
  \A a \in Renamed, q \in PRFs \cup {None} :
    /\ q # None => Names(q, a, Len(rob))
    /\ q = None => \A p \in PRFs : ~Names(p, a, Len(rob))
    => Alias[a] = q

LEMMA AliasAlways == IInv => AliasFact
BY AliasIsNewest DEF AliasFact

LEMMA AliasAfter ==
  ASSUME IInv', NEW a \in Renamed, NEW q \in PRFs \cup {None},
         q # None => Names(q, a, Len(rob))',
         q = None => \A p \in PRFs : ~Names(p, a, Len(rob))'
  PROVE  Alias'[a] = q
<1>1. (IInv => AliasFact)'
  BY AliasAlways, PTL
<1> QED
  BY <1>1 DEF AliasFact

(* An alias whose names a step does not touch stays.                       *)
LEMMA AliasKept ==
  ASSUME IInv, IInv', NEW a \in Renamed,
         \A q \in PRFs : Names(q, a, Len(rob))' <=> Names(q, a, Len(rob))
  PROVE  Alias'[a] = Alias[a]
<1>1. PICK q \in PRFs \cup {None} :
        /\ q = Alias[a]
        /\ q # None => Names(q, a, Len(rob))
        /\ q = None => \A r \in PRFs : ~Names(r, a, Len(rob))
  BY AliasNames
<1>2. /\ q # None => Names(q, a, Len(rob))'
      /\ q = None => \A r \in PRFs : ~Names(r, a, Len(rob))'
  BY <1>1
<1>3. Alias'[a] = q
  BY <1>2, AliasAfter
<1> QED
  BY <1>1, <1>3

(* The registers the window writes are the ones in flight.                 *)
LEMMA WrittenIsInFlight ==
  ASSUME IInv, NEW w, NEW k \in 0 .. Len(rob), DOMAIN w = 1 .. k,
         \A j \in 1 .. k : w[j] = <<rob[j].arf, rob[j].prf>>
  PROVE  Abstract!Written(w) = InFlight(k)
<1>1. \A j \in 1 .. k : j \in 1 .. Len(rob)
  BY RobFacts DEF IInv
<1>2. \A j \in 1 .. k : /\ w[j][1] = rob[j].arf /\ w[j][2] = rob[j].prf
                        /\ rob[j].arf \in ARFs /\ rob[j].prf \in PRFs \cup {None}
                        /\ rob[j].arf = 0 <=> rob[j].prf = None
  BY <1>1, RobFacts DEF IInv, Shape
<1>3. \A j \in 1 .. k : w[j][1] \in Renamed <=> rob[j].prf \in PRFs
  BY <1>2, ConstantFacts DEF Renamed
<1> QED
  BY <1>2, <1>3 DEF Abstract!Written, InFlight

(* The registers the abstract specification must not hand out are the live *)
(* ones.                                                                   *)
LEMMA LiveIsAbstract ==
  ASSUME IInv PROVE Abstract!Written(Window) \cup Abstract!Homes = Live
<1>1. Len(rob) \in 0 .. Len(rob) /\ DOMAIN rob = 1 .. Len(rob)
  BY RobFacts DEF IInv
<1>2. Abstract!Written(Window) = InFlight(Len(rob))
  BY <1>1, WrittenIsInFlight DEF Window
<1>3. Abstract!Homes = Committed
  BY ConstantFacts DEF Abstract!Homes, Committed, IInv, TypeOK
<1> QED
  BY <1>2, <1>3 DEF Live

-----------------------------------------------------------------------------
(* The abstract step of every call.                                        *)

(* A call that changes neither names nor registers in flight is a stutter. *)
LEMMA Stutter ==
  ASSUME Window' = Window, arch' = arch, VNext' = VNext, ARFNext' = ARFNext,
         BusyNext' = BusyNext
  PROVE  UNCHANGED Abstract!absVars
BY DEF Abstract!absVars, Window

(* Issue, Writeback and the stuttering step leave the tables alone.        *)
LEMMA StatusStutters ==
  ASSUME TypeOK, UNCHANGED <<sbVars, ratVars, sratVars, arch>>,
         DOMAIN rob' = DOMAIN rob,
         \A j \in DOMAIN rob : rob'[j].arf = rob[j].arf /\ rob'[j].prf = rob[j].prf
  PROVE  UNCHANGED Abstract!absVars
<1>1. Window' = Window
  BY DEF Window
<1> QED
  BY <1>1, TablesFrame, Stutter

(* The window after an instruction has joined.                             *)
LEMMA WindowGrows ==
  ASSUME TypeOK, NEW e, rob' = Append(rob, e), e.arf \in ARFs, e.prf \in PRFs \cup {None}
  PROVE  Window' = Append(Window, <<e.arf, e.prf>>)
<1> DEFINE Pairs == ARFs \X (PRFs \cup {None})
           n     == Len(rob)
<1>1. n \in Nat /\ DOMAIN rob = 1 .. n /\ rob \in Seq(Instruction)
  BY RobFacts DEF TypeOK
<1>2. Window = [k \in 1 .. n |-> <<rob[k].arf, rob[k].prf>>]
  BY <1>1 DEF Window
<1>3. Window \in Seq(Pairs) /\ Len(Window) = n
  BY <1>1, <1>2, RobFacts
<1>4. Window' = [k \in 1 .. n + 1 |-> <<rob'[k].arf, rob'[k].prf>>]
  BY <1>1 DEF Window
<1>5. \A k \in 1 .. n : Window'[k] = Window[k]
  BY <1>1, <1>2, <1>4
<1>6. Window'[n + 1] = <<e.arf, e.prf>> /\ <<e.arf, e.prf>> \in Pairs
  BY <1>1, <1>4
<1>7. DOMAIN Window' = 1 .. n + 1 /\ Window' = [k \in 1 .. n + 1 |-> Window'[k]]
  BY <1>4
<1> HIDE DEF Pairs, n
<1> QED
  BY <1>1, <1>3, <1>5, <1>6, <1>7

(* Fetch of an instruction that writes arf renames it.                     *)
LEMMA FetchRenames ==
  ASSUME IInv, IInv', NEW arf \in Renamed, NEW srcArf \in ARFs, Fetch(arf, srcArf)
  PROVE  \E a \in Renamed, p \in PRFs : Abstract!Rename(a, p)
<1>1. ~fetched
  BY DEF Fetch, CanFetch
<1>2. PICK p \in PRFs :
        /\ Touch(p, arf)
        /\ rob' = Append(rob, Entry(arf, p, srcArf, None))
        /\ UNCHANGED <<sbState, forwardMod, sbGCInput, ratState, ratGCInput,
                       sratVars, arch, committed>>
  BY DEF Fetch
<1>3. p \notin Live /\ p # None
  BY <1>1, <1>2, NextEntryIsFree, ConstantFacts DEF Touch
<1> DEFINE e == Entry(arf, p, srcArf, None)
<1>4. e.arf = arf /\ e.prf = p
  BY DEF Entry
<1> HIDE DEF e
<1>5. PICK n : n = Len(rob)
  OBVIOUS
<1>6. TypeOK /\ rob' = Append(rob, e) /\ arch' = arch
  BY <1>2 DEF IInv, e
<1>7. /\ Len(rob') = n + 1
      /\ \A q \in PRFs, b \in Renamed :
           Names(q, b, n + 1)' <=> IF b = arf THEN q = p ELSE Names(q, b, n)
      /\ InFlight(n + 1)' = InFlight(n) \cup {p}
  BY <1>4, <1>5, <1>6, AppendDest
<1>8. p \notin Abstract!Written(Window) \cup Abstract!Homes
  BY <1>3, LiveIsAbstract
<1>9. Window' = Append(Window, <<arf, p>>)
  BY <1>4, <1>6, WindowGrows, ConstantFacts
<1>10. Alias' = [Alias EXCEPT ![arf] = p]
  <2>1. ASSUME NEW a \in Renamed, a = arf PROVE Alias'[a] = p
    <3>1. Names(p, a, Len(rob))'
      BY <1>7, <2>1
    <3> QED
      BY <1>3, <3>1, AliasAfter
  <2>2. ASSUME NEW a \in Renamed, a # arf PROVE Alias'[a] = Alias[a]
    BY <1>5, <1>7, <2>2, AliasKept
  <2> QED
    BY <2>1, <2>2 DEF Alias
<1>11. (PRFs \ BusyNext)' = (PRFs \ BusyNext) \ {p}
  BY <1>5, <1>7 DEF IInv, Mapped, BusyIsInFlight
<1>12. Abstract!Rename(arf, p)
  BY <1>6, <1>8, <1>9, <1>10, <1>11 DEF Abstract!Rename, Window, Alias
<1> QED
  BY <1>12

(* FetchNoDest and FetchBranch: an instruction without a destination       *)
(* passes.                                                                 *)
LEMMA JoinPasses ==
  ASSUME IInv, IInv', NEW srcArf \in ARFs, NEW g \in GCs \cup {None},
         rob' = Append(rob, Entry(0, None, srcArf, g)),
         UNCHANGED <<ratState, ratMod, ratRestore, arch>>
  PROVE  Abstract!Pass(0)
<1> DEFINE e == Entry(0, None, srcArf, g)
<1>1. e.arf = 0 /\ e.prf = None
  BY DEF Entry
<1> HIDE DEF e
<1>2. TypeOK /\ rob' = Append(rob, e) /\ arch' = arch
  BY DEF IInv, e
<1>3. PICK n : n = Len(rob)
  OBVIOUS
<1>4. /\ Len(rob') = n + 1
      /\ NameMap(n + 1)' = NameMap(n)
      /\ InFlight(n + 1)' = InFlight(n)
  BY <1>1, <1>2, <1>3, AppendNoDest
<1>5. Window' = Append(Window, <<0, None>>)
  BY <1>1, <1>2, WindowGrows, ConstantFacts
<1>6. VNext' = VNext /\ BusyNext' = BusyNext
  BY <1>3, <1>4 DEF IInv, Mapped, BusyIsInFlight
<1>7. ARFNext' = ARFNext
  BY DEF ratState, ratMod, ARFNext
<1>8. 0 \notin Renamed
  BY DEF Renamed
<1> QED
  BY <1>2, <1>5, <1>6, <1>7, <1>8 DEF Abstract!Pass, Window

(* A non-empty set of places has a last one.                               *)
LEMMA LastExists ==
  ASSUME NEW k \in Nat, NEW S \in SUBSET (1 .. k), S # {}
  PROVE  \E j \in S : \A i \in S : i <= j
<1> DEFINE LT == {ss \in Nat \X Nat : ss[1] < ss[2]}
           R  == {n \in Nat : k - n \in S}
<1>1. IsWellFoundedOn(LT, Nat)
  BY NatLessThanWellFounded DEF OpToRel
<1>2. R \subseteq Nat /\ R # {}
  <2>1. PICK j \in S : TRUE
    OBVIOUS
  <2>2. k - j \in Nat /\ k - (k - j) = j
    BY <2>1
  <2> QED
    BY <2>1, <2>2
<1> HIDE DEF LT, R
<1>3. \E x \in R : \A y \in R : ~(<<y, x>> \in LT)
  BY <1>1, <1>2, WFMin
<1>4. PICK x \in R : \A y \in R : ~(y < x)
  BY <1>2, <1>3 DEF LT
<1>5. ASSUME NEW i \in S PROVE i <= k - x
  <2>1. k - i \in Nat /\ k - (k - i) = i
    OBVIOUS
  <2>2. ~(k - i < x)
    BY <1>4, <2>1 DEF R
  <2> QED
    BY <1>2, <2>1, <2>2
<1>6. k - x \in S
  BY DEF R
<1> QED
  BY <1>5, <1>6

(* The newest name that the first k instructions give is the one the       *)
(* abstract specification computes.                                        *)
LEMMA NewestIsNamed ==
  ASSUME IInv, NEW w, NEW k \in 0 .. Len(rob), DOMAIN w = 1 .. k,
         \A j \in 1 .. k : w[j] = <<rob[j].arf, rob[j].prf>>,
         NEW a \in Renamed
  PROVE  /\ Abstract!Newest(w, a) \in PRFs \cup {None}
         /\ Abstract!Newest(w, a) # None => Names(Abstract!Newest(w, a), a, k)
         /\ Abstract!Newest(w, a) = None => \A p \in PRFs : ~Names(p, a, k)
<1> DEFINE writers == {j \in DOMAIN w : w[j][1] = a}
           last    == CHOOSE j \in writers : \A i \in writers : i <= j
<1>1. /\ Len(rob) \in Nat /\ k \in Nat /\ \A j \in 1 .. k : j \in 1 .. Len(rob)
      /\ DOMAIN rob = 1 .. Len(rob)
  BY RobFacts DEF IInv
<1>2. Abstract!Newest(w, a) = IF writers = {} THEN arch[a] ELSE w[last][2]
  BY DEF Abstract!Newest
<1>3. arch[a] \in PRFs \cup {None}
  BY DEF IInv, TypeOK
<1>4. \A i : i \in writers <=> i \in 1 .. k /\ rob[i].arf = a
  OBVIOUS
<1> HIDE DEF writers
<1>5. CASE writers = {}
  <2>1. \A i \in 1 .. k : rob[i].arf # a
    BY <1>4, <1>5
  <2>2. \A p : Names(p, a, k) <=> arch[a] = p
    BY <2>1 DEF Names
  <2> QED
    BY <1>2, <1>3, <1>5, <2>2, ConstantFacts
<1>6. CASE writers # {}
  <2>1. \E j \in writers : \A i \in writers : i <= j
    <3>1. writers \in SUBSET (1 .. k)
      BY <1>4
    <3> QED
      BY <1>1, <1>6, <3>1, LastExists
  <2>2. last \in writers /\ \A i \in writers : i <= last
    BY <2>1
  <2> HIDE DEF last
  <2>3. /\ last \in 1 .. k /\ rob[last].arf = a
        /\ \A i \in last + 1 .. k : rob[i].arf # a
    BY <1>1, <1>4, <2>2
  <2>4. rob[last].prf \in PRFs
    <3>1. rob[last].prf \in PRFs \cup {None} /\ (rob[last].arf = 0 <=> rob[last].prf = None)
      BY <1>1, <2>3, RobFacts DEF IInv, Shape
    <3> QED
      BY <2>3, <3>1 DEF Renamed
  <2>5. Abstract!Newest(w, a) = rob[last].prf
    BY <1>2, <1>6, <2>3
  <2>6. Names(rob[last].prf, a, k)
    BY <2>3 DEF Names
  <2> QED
    BY <2>4, <2>5, <2>6, ConstantFacts
<1> QED
  BY <1>5, <1>6

(* A mispredicted branch squashes what is younger.                         *)
LEMMA MispredictSquashes ==
  ASSUME IInv, IInv', NEW k \in DOMAIN rob, Mispredict(k)
  PROVE  k \in DOMAIN Window /\ Abstract!Squash(k)
<1>1. /\ rob \in Seq(Instruction) /\ Len(rob) \in Nat /\ k \in 1 .. Len(rob)
      /\ DOMAIN rob = 1 .. Len(rob) /\ rob[k] \in Instruction
  BY RobFacts DEF IInv, TypeOK
<1>2. PICK e : e = [rob[k] EXCEPT !.st = "done", !.gc = None]
  OBVIOUS
<1>3. e.arf = rob[k].arf /\ e.prf = rob[k].prf
  BY <1>1, <1>2 DEF Instruction
<1>4. rob' = Append(SubSeq(rob, 1, k - 1), e) /\ arch' = arch
  BY <1>2 DEF Mispredict
<1>5. /\ Len(rob') = k /\ DOMAIN rob' = 1 .. k
      /\ \A j \in 1 .. k : rob'[j].arf = rob[j].arf /\ rob'[j].prf = rob[j].prf
  <2>1. /\ SubSeq(rob, 1, k - 1) \in Seq(Instruction) /\ Len(SubSeq(rob, 1, k - 1)) = k - 1
        /\ \A j \in 1 .. k - 1 : SubSeq(rob, 1, k - 1)[j] = rob[j]
    BY <1>1
  <2>2. Len(rob') = k /\ DOMAIN rob' = 1 .. k /\ rob'[k] = e
        /\ \A j \in 1 .. k - 1 : rob'[j] = rob[j]
    BY <1>1, <1>4, <2>1
  <2> QED
    BY <1>1, <1>3, <2>2
<1>6. Window' = SubSeq(Window, 1, k)
  <2>1. Window = [j \in 1 .. Len(rob) |-> <<rob[j].arf, rob[j].prf>>]
    BY <1>1 DEF Window
  <2>2. Window' = [j \in 1 .. k |-> <<rob'[j].arf, rob'[j].prf>>]
    BY <1>5 DEF Window
  <2>3. \A j \in 1 .. k : Window'[j] = Window[j] /\ j \in 1 .. Len(rob)
    BY <1>1, <1>5, <2>1, <2>2
  <2>4. SubSeq(Window, 1, k) = [j \in 1 .. k |-> Window[j]]
    BY <1>1, <2>1
  <2> QED
    BY <2>2, <2>3, <2>4
<1>7. /\ DOMAIN Window' = 1 .. k /\ k \in 0 .. Len(rob)
      /\ \A j \in 1 .. k : Window'[j] = <<rob[j].arf, rob[j].prf>>
  BY <1>1, <1>5 DEF Window
<1>8. \A n \in 0 .. k : /\ \A p, a : Names(p, a, n)' <=> Names(p, a, n)
                        /\ InFlight(n)' = InFlight(n)
  <2>1. TypeOK /\ k \in Nat
    BY <1>1 DEF IInv
  <2> HIDE DEF Mispredict
  <2> QED
    BY <1>4, <1>5, <2>1, NamesFrame
<1>9. \A a \in Renamed : Alias'[a] = Abstract!Newest(Window', a)
  <2>1. ASSUME NEW a \in Renamed PROVE Alias'[a] = Abstract!Newest(Window', a)
    <3>1. PICK q : q = Abstract!Newest(Window', a)
      OBVIOUS
    <3>2. /\ q \in PRFs \cup {None}
          /\ q # None => Names(q, a, k)
          /\ q = None => \A p \in PRFs : ~Names(p, a, k)
      BY <1>7, <3>1, NewestIsNamed
    <3>3. /\ q # None => Names(q, a, Len(rob))'
          /\ q = None => \A p \in PRFs : ~Names(p, a, Len(rob))'
      BY <1>1, <1>5, <1>8, <3>2
    <3> QED
      BY <3>1, <3>2, <3>3, AliasAfter
  <2> QED
    BY <2>1
<1>10. (PRFs \ BusyNext)' = PRFs \ Abstract!Written(Window')
  <2>1. Abstract!Written(Window') = InFlight(k)
    BY <1>7, WrittenIsInFlight
  <2>2. BusyNext' = InFlight(k)'
    BY <1>5 DEF IInv, Mapped, BusyIsInFlight
  <2> QED
    BY <1>1, <1>8, <2>1, <2>2
<1>11. Alias' = [a \in Renamed |-> Abstract!Newest(Window', a)]
  BY <1>9 DEF Alias
<1> QED
  BY <1>1, <1>4, <1>6, <1>10, <1>11 DEF Abstract!Squash, Window, Alias

(* A commit retires the oldest instruction.                                *)
LEMMA CommitRetires ==
  ASSUME IInv, IInv', Commit
  PROVE  Abstract!Retire
<1>1. TypeOK /\ Shape /\ rob # <<>> /\ rob' = Tail(rob)
  BY DEF IInv, Commit
<1>2. PICK n : n = Len(rob)
  OBVIOUS
<1>3. PICK h : h = rob[1]
  OBVIOUS
<1>4. Head(rob) = h /\ h \in Instruction /\ 1 \in DOMAIN rob
  BY <1>1, <1>3 DEF TypeOK
<1>5. /\ h.arf = 0 <=> h.prf = None
      /\ h.arf \in ARFs
  BY <1>1, <1>3, <1>4 DEF Shape, Instruction
<1>6. arch' = IF h.prf = None THEN arch ELSE [arch EXCEPT ![h.arf] = h.prf]
  BY <1>1, <1>4 DEF Commit
<1>7. /\ n \in Nat \ {0} /\ Len(rob') = n - 1 /\ DOMAIN rob' = 1 .. n - 1
      /\ \A k \in 1 .. n - 1 : rob'[k] = rob[k + 1]
      /\ \A m \in 0 .. n - 1 : /\ NameMap(m)' = NameMap(m + 1)
                               /\ InFlight(m)' = InFlight(m + 1) \ {h.prf}
  BY <1>1, <1>2, <1>3, <1>6, TailShift
<1>8. VNext' = VNext /\ BusyNext' = BusyNext \ {h.prf}
  BY <1>2, <1>7 DEF IInv, Mapped, BusyIsInFlight
<1>9. ARFNext' = ARFNext
  BY <1>1, <1>4 DEF Commit, LandAndRelease, ratVars, ratState, ratMod, ARFNext
<1>10. /\ Window # <<>> /\ Head(Window) = <<h.arf, h.prf>> /\ Window' = Tail(Window)
  <2>1. DOMAIN rob = 1 .. n
    BY <1>1, <1>2, RobFacts
  <2>2. Window = [k \in 1 .. n |-> <<rob[k].arf, rob[k].prf>>]
    BY <2>1 DEF Window
  <2>3. Window' = [k \in 1 .. n - 1 |-> <<rob'[k].arf, rob'[k].prf>>]
    BY <1>7 DEF Window
  <2>4. Window \in Seq(ARFs \X (PRFs \cup {None})) /\ Len(Window) = n
    BY <1>1, <1>2, <1>7, <2>2, RobFacts
  <2>5. \A k \in 1 .. n - 1 : Window'[k] = Window[k + 1]
    BY <1>7, <2>2, <2>3
  <2>6. Window' = Tail(Window)
    <3>1. /\ Tail(Window) \in Seq(ARFs \X (PRFs \cup {None})) /\ Len(Tail(Window)) = n - 1
          /\ \A k \in 1 .. n - 1 : Tail(Window)[k] = Window[k + 1]
      BY <1>7, <2>4
    <3>2. DOMAIN Window' = 1 .. n - 1 /\ Window' = [k \in 1 .. n - 1 |-> Window'[k]]
      BY <2>3
    <3>3. \A t \in Seq(ARFs \X (PRFs \cup {None})) : t = [k \in 1 .. Len(t) |-> t[k]]
      OBVIOUS
    <3> QED
      BY <1>7, <2>5, <3>1, <3>2, <3>3
  <2>7. Window[1] = <<h.arf, h.prf>> /\ Head(Window) = Window[1]
    BY <1>3, <1>7, <2>2, <2>4
  <2> QED
    BY <1>7, <2>4, <2>6, <2>7
<1>11. Head(Window)[1] = h.arf /\ Head(Window)[2] = h.prf
  BY <1>10
<1>12. /\ Window # <<>> /\ Window' = Tail(Window)
       /\ IF Head(Window)[1] \in Renamed
          THEN /\ arch' = [arch EXCEPT ![Head(Window)[1]] = Head(Window)[2]]
               /\ (PRFs \ BusyNext)' = (PRFs \ BusyNext) \cup {Head(Window)[2]}
          ELSE UNCHANGED <<arch, PRFs \ BusyNext>>
       => Abstract!Retire
  <2>1. Alias' = Alias
    BY <1>8, <1>9 DEF Alias
  <2> QED
    BY <2>1 DEF Abstract!Retire, Window, Alias
<1>13. CASE h.prf = None
  <2>1. h.arf \notin Renamed
    BY <1>5, <1>13 DEF Renamed
  <2>2. BusyNext' = BusyNext
    BY <1>2, <1>8, <1>13, ConstantFacts DEF IInv, Mapped, BusyIsInFlight, InFlight
  <2>3. UNCHANGED <<arch, PRFs \ BusyNext>>
    BY <1>6, <1>13, <2>2
  <2> QED
    BY <1>10, <1>11, <1>12, <2>1, <2>3
<1>14. CASE h.prf # None
  <2>1. h.arf \in Renamed /\ h.prf \in PRFs
    BY <1>4, <1>5, <1>14 DEF Renamed, Instruction
  <2>2. (PRFs \ BusyNext)' = (PRFs \ BusyNext) \cup {h.prf}
    BY <1>8, <2>1
  <2> QED
    BY <1>6, <1>10, <1>11, <1>14, <1>12, <2>1, <2>2
<1> QED
  BY <1>13, <1>14

(* TouchAndCommit overwrites the committed value of a register.            *)
LEMMA SetARFOverwrites ==
  ASSUME IInv, IInv', NEW arf \in Renamed, SetARF(arf)
  PROVE  \E p \in PRFs : Abstract!Overwrite(arf, p)
<1>1. rob = <<>> /\ rob' = rob /\ ~fetched /\ Len(rob) = 0 /\ DOMAIN rob = {}
  BY DEF SetARF
<1>2. PICK p \in PRFs :
        /\ ~IsFull /\ p = GetNextEntry
        /\ arch' = [arch EXCEPT ![arf] = p]
        /\ UNCHANGED sbVars
  BY DEF SetARF, TouchAndCommit
<1>3. p \notin Live /\ p # None
  BY <1>1, <1>2, NextEntryIsFree, ConstantFacts
<1>4. p \notin Abstract!Homes
  BY <1>3, LiveIsAbstract
<1>5. Window = <<>> /\ Window' = Window
  BY <1>1 DEF Window
<1>6. BusyNext' = BusyNext
  BY <1>2
     DEF sbVars, sbState, sbBusyMod, sbGCInput, BusyNext, BusyCheckpointsNext, Modified
<1>7. ASSUME NEW q, NEW a
      PROVE  /\ Names(q, a, Len(rob)) <=> arch[a] = q
             /\ Names(q, a, Len(rob))' <=> arch'[a] = q
  BY <1>1 DEF Names
<1>8. arch \in [Renamed -> PRFs \cup {None}]
  BY DEF IInv, TypeOK
<1>9. Alias' = [Alias EXCEPT ![arf] = p]
  <2>1. ASSUME NEW a \in Renamed, a = arf PROVE Alias'[a] = p
    <3>1. Names(p, a, Len(rob))'
      BY <1>2, <1>7, <1>8, <2>1
    <3> QED
      BY <1>3, <3>1, AliasAfter
  <2>2. ASSUME NEW a \in Renamed, a # arf PROVE Alias'[a] = Alias[a]
    <3>1. \A q \in PRFs : Names(q, a, Len(rob))' <=> Names(q, a, Len(rob))
      BY <1>2, <1>7, <1>8, <2>2
    <3> QED
      BY <3>1, AliasKept
  <2> QED
    BY <2>1, <2>2 DEF Alias
<1>10. Abstract!Overwrite(arf, p)
  BY <1>2, <1>4, <1>5, <1>6, <1>9 DEF Abstract!Overwrite, Window, Alias
<1> QED
  BY <1>10

(* Recover changes what may be allocated, and nothing else.                *)
LEMMA RecoverStutters ==
  ASSUME Recover PROVE UNCHANGED Abstract!absVars
<1>1. Window' = Window /\ arch' = arch
  BY DEF Recover, Window
<1>2. VNext' = VNext /\ ARFNext' = ARFNext /\ BusyNext' = BusyNext
  BY DEF Recover, SyncNRA, sbVars, sbState, sbBusyMod, sbGCInput, ratState, ratGCInput,
         BusyNext, BusyCheckpointsNext, Modified, VNext, AliasCheckpointsNext, ARFNext
<1> QED
  BY <1>1, <1>2, Stutter

(* The clock edge shows what the calls of the cycle did already.           *)
LEMMA CycleStutters ==
  ASSUME TypeOK, Cycle PROVE UNCHANGED Abstract!absVars
<1>1. VNext' = VNext /\ ARFNext' = ARFNext /\ BusyNext' = BusyNext
  BY EdgeKeepsNext DEF Cycle
<1>2. DOMAIN rob' = DOMAIN rob /\ arch' = arch
  BY DEF Cycle
<1>3. \A k \in DOMAIN rob : rob'[k].arf = rob[k].arf /\ rob'[k].prf = rob[k].prf
  BY RobFacts DEF Cycle, Instruction
<1>4. Window' = Window
  BY <1>2, <1>3 DEF Window
<1> QED
  BY <1>1, <1>2, <1>4, Stutter

-----------------------------------------------------------------------------
(* The core starts in an initial state of the abstract specification.      *)
LEMMA InitImplements == Init => Abstract!Init
<1> SUFFICES ASSUME Init PROVE Abstract!Init
  OBVIOUS
<1>1. Window = <<>> /\ arch = [a \in Renamed |-> None]
  BY DEF Init, Window
<1>2. VNext = {} /\ BusyNext = {}
  BY DEF Init, ScoreboardInit, RATInit, VNext, BusyNext
<1>3. Alias = [a \in Renamed |-> None]
  BY <1>2 DEF Alias
<1> QED
  BY <1>1, <1>2, <1>3 DEF Abstract!Init, Window, Alias

(* Every step of the core is a step of the abstract specification or a     *)
(* stutter.                                                                *)
LEMMA StepImplements ==
  IInv /\ IInv' /\ [Next]_vars => [Abstract!Next]_(Abstract!absVars)
<1> SUFFICES ASSUME IInv, IInv', [Next]_vars
             PROVE  Abstract!Next \/ UNCHANGED Abstract!absVars
  OBVIOUS
<1> USE DEF Abstract!Next
<1>1. ASSUME NEW i \in Instructions, Fetch(i[1], i[2]) PROVE Abstract!Next
  <2>1. i[1] \in Renamed /\ i[2] \in ARFs
    BY <1>1, CoreAssumption DEF Fetch, Renamed
  <2>2. \E a \in Renamed, p \in PRFs : Abstract!Rename(a, p)
    BY <1>1, <2>1, FetchRenames
  <2> QED
    BY <2>2
<1>2. ASSUME NEW i \in Instructions, FetchNoDest(i[1], i[2]) PROVE Abstract!Next
  <2>1. i[2] \in ARFs
    BY CoreAssumption
  <2>2. /\ rob' = Append(rob, Entry(0, None, i[2], None))
        /\ UNCHANGED <<ratState, ratMod, ratRestore, arch>>
    BY <1>2 DEF FetchNoDest, ratVars, ratGCInput
  <2>3. Abstract!Pass(0)
    BY <2>1, <2>2, JoinPasses
  <2> QED
    BY <2>3
<1>3. ASSUME NEW srcArf \in Branches, FetchBranch(srcArf) PROVE Abstract!Next
  <2>1. srcArf \in ARFs
    BY CoreAssumption
  <2>2. PICK g \in GCs :
          /\ rob' = Append(rob, Entry(0, None, srcArf, g))
          /\ UNCHANGED <<ratState, ratMod, ratRestore, arch>>
    BY <1>3 DEF FetchBranch
  <2>3. Abstract!Pass(0)
    BY <2>1, <2>2, JoinPasses
  <2> QED
    BY <2>3
<1>4. ASSUME NEW k \in DOMAIN rob, Issue(k) \/ Writeback(k)
      PROVE  UNCHANGED Abstract!absVars
  <2>1. /\ rob \in Seq(Instruction) /\ DOMAIN rob = 1 .. Len(rob)
        /\ \A j \in 1 .. Len(rob) : rob[j] \in Instruction
    BY RobFacts DEF IInv, TypeOK
  <2>2. UNCHANGED <<sbVars, ratVars, sratVars, arch>>
    BY <1>4 DEF Issue, Writeback
  <2>3. \/ rob' = [rob EXCEPT ![k].st = "exec"]
        \/ rob' = [rob EXCEPT ![k].st = "done", ![k].gc = None]
    BY <1>4 DEF Issue, Writeback
  <2>4. /\ DOMAIN rob' = DOMAIN rob
        /\ \A j \in DOMAIN rob : rob'[j].arf = rob[j].arf /\ rob'[j].prf = rob[j].prf
    BY <2>1, <2>3 DEF Instruction
  <2> QED
    BY <2>2, <2>4, StatusStutters DEF IInv
<1>5. ASSUME NEW k \in DOMAIN rob, Mispredict(k) PROVE Abstract!Next
  BY <1>5, MispredictSquashes DEF Window
<1>6. CASE Commit
  BY <1>6, CommitRetires
<1>7. CASE Recover
  BY <1>7, RecoverStutters
<1>8. ASSUME NEW arf \in Renamed, SetARF(arf) PROVE Abstract!Next
  <2>1. \E p \in PRFs : Abstract!Overwrite(arf, p)
    BY <1>8, SetARFOverwrites
  <2> QED
    BY <2>1
<1>9. CASE Cycle
  BY <1>9, CycleStutters DEF IInv
<1>10. CASE UNCHANGED vars
  <2>1. /\ rob' = rob
        /\ UNCHANGED <<sbVars, ratVars, sratVars, arch>>
    BY <1>10 DEF vars, coreVars
  <2> QED
    BY <2>1, StatusStutters DEF IInv
<1> QED
  BY <1>1, <1>2, <1>3, <1>4, <1>5, <1>6, <1>7, <1>8, <1>9, <1>10 DEF Next

(* The tables of the core are a renaming: for every number of registers,   *)
(* checkpoints and instructions in flight, every program and every order   *)
(* of the calls, what is fetched, committed, squashed and recovered is     *)
(* what the abstract specification allows.                                 *)
THEOREM Implementation == Spec => ImplementsRenaming
<1> QED
  BY Inductive, InitImplements, StepImplements, PTL
     DEF Spec, ImplementsRenaming, Abstract!Spec

=============================================================================
