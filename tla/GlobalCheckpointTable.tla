----------------------- MODULE GlobalCheckpointTable -----------------------
(***************************************************************************)
(* GlobalCheckpointTable and GlobalCheckpointWALK                          *)
(* (main/emulated/core_global.hpp): the table is a FIFO of the checkpoints *)
(* GCA of the fetch groups FGR.  RestoreFGR finds a group in its slots as  *)
(* in a CAM, and sets up the second FIFO, from which the groups up to that *)
(* one are walked through again.                                           *)
(***************************************************************************)
EXTENDS Fifo, FiniteSetsExt, TLC

CONSTANTS
  FGRs, ZeroFGR,  \* the numbers of fetch groups, and 0
  GCAs, ZeroGCA,  \* the numbers of checkpoints, and 0
  None

(* GlobalCheckpointTableEntry                                              *)
Entries == [FGR : FGRs, V : BOOLEAN, GCA : GCAs]

ASSUME GCTAssumption ==
  /\ Payload = Entries
  /\ ZeroFGR \in FGRs /\ ZeroGCA \in GCAs
  /\ None \notin FGRs

VARIABLES
  wMemory, wRptr, wRptrb, wWptr, wWptrb, wModification, wDeltaRptr, wDeltaWptr,
  wSetRptr, wSetRptrb, wSetWptr, wSetWptrb,  \* GlobalCheckpointWALK
  restoring  \* ghost: the FGR that RestoreFGR was called for in this cycle

Walk == INSTANCE Fifo WITH
  Payload <- FGRs,
  memory <- wMemory, rptr <- wRptr, rptrb <- wRptrb, wptr <- wWptr, wptrb <- wWptrb,
  modification <- wModification, deltaRptr <- wDeltaRptr, deltaWptr <- wDeltaWptr,
  setRptr <- wSetRptr, setRptrb <- wSetRptrb, setWptr <- wSetWptr, setWptrb <- wSetWptrb

walkState == <<wMemory, wRptr, wRptrb, wWptr, wWptrb>>
walkInput == <<wModification, wDeltaRptr, wDeltaWptr, wSetRptr, wSetRptrb, wSetWptr, wSetWptrb>>
walkVars  == <<walkState, walkInput>>
gctVars   == <<fifoVars, walkVars, restoring>>

(* GlobalCheckpointTableEntry(): FGR, V and GCA are 0.                     *)
NoGroup == [FGR |-> ZeroFGR, V |-> FALSE, GCA |-> ZeroGCA]

Init ==
  /\ memory = [i \in Slots |-> NoGroup]
  /\ FifoInit
  /\ Walk!FifoInit
  /\ restoring = None

-----------------------------------------------------------------------------
PushFGR(FGR, GCA) ==
  /\ PushPayload([FGR |-> FGR, V |-> TRUE, GCA |-> GCA])
  /\ UNCHANGED <<walkVars, restoring>>

(* V of the entry stays.                                                   *)
PopFGR ==
  /\ PopPayload
  /\ UNCHANGED <<walkVars, restoring>>

(* The CAM query: the lowest slot with a valid entry of the group.         *)
Query(FGR) ==
  LET hits == {i \in Slots : memory[i].V /\ memory[i].FGR = FGR}
  IN  IF hits = {} THEN -1 ELSE Min(hits)

(* The slots whose V the loop clears: from start on downwards, from 0 on   *)
(* to the one past the last slot, until an entry that is not valid.  What  *)
(* lies past the last slot is read all the same, as the entry beyond.      *)
Cleared(start, beyond) ==
  LET j(k)     == (start - k) % (Size + 1)
      entry(k) == IF j(k) = Size THEN beyond ELSE memory[j(k)]
      stops    == {k \in 0 .. Size : ~ entry(k).V}
      count    == IF stops = {} THEN Size + 1 ELSE Min(stops)
  IN  [k \in 1 .. count |-> <<j(k - 1), [entry(k - 1) EXCEPT !.V = FALSE]>>]

(* Mutant: the wrap bit of WALK follows that of the table.                 *)
WalkBitPlain(ptr) == wptrb

(* The slot after the one found is the write pointer of WALK; Eval turns   *)
(* its wrap bit again when that is past the last slot.                     *)
WalkBit(ptr) == IF ptr > wptr THEN 1 - wptrb ELSE wptrb

RestoreFGR(FGR, beyond) ==
  LET restore == Query(FGR)
  IN  /\ restore >= 0
      /\ SetPayloads(Cleared(restore + 1, beyond))
      /\ Walk!SetPayloads([k \in 1 .. Size |-> <<k - 1, memory[k - 1].FGR>>])
      /\ Walk!SetReadPointers(rptr, rptrb)
      /\ Walk!SetWritePointers(restore + 1, WalkBit(restore + 1))
      /\ UNCHANGED fifoSet

-----------------------------------------------------------------------------
(* The users of the table, which the repository does not have yet.  They   *)
(* number a new group as no group is numbered that a query could find,     *)
(* recover from a group that is in the queue and was not recovered from    *)
(* before, and do so before they push in a cycle: in the slot after the    *)
(* group, where RestoreFGR writes back an old entry, a push would be lost. *)
Findable(FGR) ==
  \/ \E i \in Slots : memory[i].V /\ memory[i].FGR = FGR
  \/ \E k \in DOMAIN modification : modification[k][2].V /\ modification[k][2].FGR = FGR

CallPushFGR ==
  \E FGR \in FGRs, GCA \in GCAs : ~ Findable(FGR) /\ PushFGR(FGR, GCA)

InQueue(FGR) == \E i \in DOMAIN Contents : Contents[i].V /\ Contents[i].FGR = FGR

CallRestoreFGR ==
  \E FGR \in FGRs, V \in BOOLEAN :
    /\ InQueue(FGR) /\ modification = <<>> /\ restoring = None
    /\ RestoreFGR(FGR, [NoGroup EXCEPT !.V = V])
    /\ restoring' = FGR

PopWALK ==
  /\ Walk!PopPayload
  /\ UNCHANGED <<fifoVars, restoring>>

ResetInputs ==
  /\ ResetInput /\ Walk!ResetInput
  /\ restoring' = None

(* Clear leaves the calls of the cycle pending: after a pop and a Clear    *)
(* the next Eval would take the read pointer past the write pointer.  So   *)
(* the queues are cleared between an edge and the first call of a cycle.   *)
ClearTable ==
  /\ NoInput /\ restoring = None /\ Clear
  /\ UNCHANGED <<walkVars, restoring>>

ClearWALK ==
  /\ Walk!NoInput /\ Walk!Clear
  /\ UNCHANGED <<fifoVars, restoring>>

Edge ==
  /\ Eval /\ Walk!Eval
  /\ restoring' = None

Next ==
  \/ CallPushFGR \/ PopFGR \/ CallRestoreFGR \/ PopWALK
  \/ ResetInputs \/ ClearTable \/ ClearWALK \/ Edge

Spec == Init /\ [][Next]_gctVars

-----------------------------------------------------------------------------
TableTypeOK == FifoTypeOK /\ Walk!FifoTypeOK

(* The writes that PushFGR recorded come after those of RestoreFGR.        *)
Pushes ==
  SubSeq(modification, Len(modification) - deltaWptr + 1, Len(modification))

(* A push of this cycle never hits a slot whose group is still in the      *)
(* queue, not even one that is popped in the same cycle, and no two of     *)
(* them hit the same slot.  RestoreFGR may well have written to the slot   *)
(* of a push: it was recorded before, and the push prevails at the edge.   *)
PushesHitFreeSlots ==
  /\ \A k \in DOMAIN Pushes, i \in 0 .. GetCount - 1 : Pushes[k][1] # SlotAt(i)
  /\ \A k, l \in DOMAIN Pushes : k # l => Pushes[k][1] # Pushes[l][1]

(* But for the V bits the table is a bounded clocked queue of groups:      *)
(* RestoreFGR neither removes a group nor changes what it stands for, nor  *)
(* does a push of the same cycle get lost.                                 *)
Group(entry) == <<entry.FGR, entry.GCA>>

GroupQueue   == [i \in DOMAIN Contents |-> Group(Contents[i])]
GroupsPushed == [k \in DOMAIN Pushes |-> Group(Pushes[k][2])]

Groups == INSTANCE BoundedQueue WITH
  Capacity <- Size,
  Item     <- FGRs \X GCAs,
  queue    <- GroupQueue,
  accepted <- GroupsPushed,
  taken    <- deltaRptr

TableImplementsQueue ==
  /\ Groups!Spec
  /\ [][\A FGR \in FGRs, GCA \in GCAs :
           PushFGR(FGR, GCA) => Groups!Push(<<FGR, GCA>>)]_gctVars

(* After a recovery WALK holds the groups from the oldest one in the table *)
(* through the one recovered from, in order, whatever slots they are in;   *)
(* otherwise it only loses what was popped.                                *)
GroupsThrough(FGR) ==
  LET last == CHOOSE i \in DOMAIN Contents : Contents[i].V /\ Contents[i].FGR = FGR
  IN  [i \in 1 .. last |-> Contents[i].FGR]

WalkFollows ==
  [][Edge => Walk!Contents' =
       IF restoring # None THEN GroupsThrough(restoring)
       ELSE SubSeq(Walk!Contents, wDeltaRptr + 1, Len(Walk!Contents))]_gctVars

(* But for 0, which new entries have, the numbers of groups are            *)
(* interchangeable, and nothing temporal but step properties is checked.   *)
Symmetry == Permutations(FGRs \ {ZeroFGR})
=============================================================================
