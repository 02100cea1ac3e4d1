---------------------------- MODULE DelayedReads ----------------------------
(***************************************************************************)
(* What a memory with delayed reads promises: at the edge of a cycle every *)
(* destination gets the word its last read of the cycle asked for, all     *)
(* from the contents before the edge or all from those after it; a         *)
(* cancelled read is never answered.                                       *)
(***************************************************************************)
CONSTANTS Addresses, Words, Destinations, None

VARIABLES
  memory,    \* the contents
  update,    \* the contents after the next edge
  reads,     \* what every destination last asked for, None if nothing
  cell,      \* what the destinations hold
  early      \* whether reads come before the write

vars == <<memory, update, reads, cell, early>>

Nothing == [d \in Destinations |-> None]

Init ==
  /\ memory = update /\ reads = Nothing /\ early \in BOOLEAN
  /\ memory \in [Addresses -> Words] /\ cell \in [Destinations -> Words]

Read(address, dst) ==
  /\ reads' = [reads EXCEPT ![dst] = address]
  /\ UNCHANGED <<memory, update, cell, early>>

Cancel ==
  /\ reads' = Nothing
  /\ UNCHANGED <<memory, update, cell, early>>

(* At most one word of the contents changes per edge.                      *)
Write ==
  /\ UNCHANGED <<memory, reads, cell, early>>
  /\ update' \in [Addresses -> Words]
  /\ \E a \in Addresses : \A b \in Addresses \ {a} : update'[b] = memory[b]

Edge ==
  /\ reads' = Nothing
  /\ memory' = update
  /\ cell' = [d \in Destinations |->
                LET content == IF early THEN memory ELSE update
                IN  IF reads[d] = None THEN cell[d] ELSE content[reads[d]]]
  /\ UNCHANGED <<update, early>>

Next ==
  \/ Write
  \/ Cancel
  \/ Edge
  \/ \E a \in Addresses, d \in Destinations : Read(a, d)

Spec == Init /\ [][Next]_vars
=============================================================================
