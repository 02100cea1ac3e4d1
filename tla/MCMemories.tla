----------------------------- MODULE MCMemories -----------------------------
(***************************************************************************)
(* The benches of the memories and of the small stores beside them, one at *)
(* a time: the choice is made at the start.  "writes" fills snapshots,     *)
(* "reads" delays reads beside writes without a mask, "cam" queries, "lru" *)
(* picks among subjects, "bypass" calls the bypass buffers.                *)
(***************************************************************************)
EXTENDS PseudoLruTree, Sequences

CONSTANTS
  Size, Bits, None, Ports, Destinations, Payloads, Masks, MaxEntries, MaxReads,
  AddressWidth, WordBits, Data, Zero

(* Words and masks are of the width of the memories; None is neither a     *)
(* datum nor an address.                                                   *)
ASSUME MemoriesAssumption ==
  /\ Size \in Nat \ {0} /\ AddressWidth \in Nat
  /\ Payloads \subseteq SUBSET Bits /\ Masks \subseteq SUBSET Bits
  /\ Zero \in Data /\ None \notin Data /\ None \notin 0 .. Size - 1

VARIABLES
  bench,
  rmode, rtMemory, rtWrite, rdMemory, rdWrite, rops, tail, cell, dff, snapshot, base,
  contents, contentWrite, valids, validWrite, mode, tdata, tvalid, prfs, writing, slots,
  bits, dvalid, lru_bits, lru_update_index, lru_picked_index, lru_sub, lru_sub_picked_index,
  input, readed, flushed, bypass, bypassf, flush,
  buffer_q, valid_q, bufferf_q, validf_q, flush_q

R == INSTANCE RamBench
C == INSTANCE CamBench
L == INSTANCE PseudoLru
K == INSTANCE BypassBuffers WITH Ports <- {0}

ramVars == <<rmode, rtMemory, rtWrite, rdMemory, rdWrite, rops, tail, cell, dff, snapshot, base>>
camVars == <<contents, contentWrite, valids, validWrite, mode, tdata, tvalid, prfs, writing, slots>>
lruVars == <<bits, dvalid, lru_bits, lru_update_index, lru_picked_index, lru_sub,
             lru_sub_picked_index>>
bypassVars == <<input, readed, flushed, bypass, bypassf, flush,
                buffer_q, valid_q, bufferf_q, validf_q, flush_q>>
vars == <<bench, ramVars, camVars, lruVars, bypassVars>>

Init ==
  /\ bench \in {"writes", "reads", "cam", "lru", "bypass"}
  /\ R!RamInit
  /\ C!CamInit
  /\ L!Init
  /\ K!Init

Next ==
  /\ UNCHANGED bench
  /\ \/ /\ bench = "writes"
        /\ R!Writes \/ R!LoggedEdge \/ R!NewSnapshot
        /\ UNCHANGED <<camVars, lruVars, bypassVars>>
     \/ /\ bench = "reads"
        /\ R!PlainWrites \/ R!Reads \/ R!PlainEdge
        /\ UNCHANGED <<camVars, lruVars, bypassVars>>
     \/ /\ bench = "cam"
        /\ C!CamNext
        /\ UNCHANGED <<ramVars, lruVars, bypassVars>>
     \/ /\ bench = "lru"
        /\ L!Next
        /\ UNCHANGED <<ramVars, camVars, bypassVars>>
     \/ /\ bench = "bypass"
        /\ K!Next
        /\ UNCHANGED <<ramVars, camVars, lruVars>>

Spec == Init /\ [][Next]_vars

(* In a bench only what it moves is looked at.                             *)
ReadsAgree     == bench \in {"writes", "reads"} => R!ReadsAgree
SnapshotUndoes == bench = "writes" => R!SnapshotUndoes
AnswersReads   == R!AnswersReads
QueriesAgree   == bench = "cam" => C!QueriesAgree
RegistersAgree == bench = "cam" => C!RegistersAgree

PicksAgree           == bench = "lru" => L!PicksAgree

SameOutputs == bench = "bypass" => K!SameOutputs
Conserves   == K!Conserves
=============================================================================
