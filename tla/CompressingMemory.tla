-------------------------- MODULE CompressingMemory --------------------------
(***************************************************************************)
(* MEMU::Core::CompressingMemory<TPayload> (main/emulated/core_global.hpp):*)
(* elements join at the lowest addresses, leave anywhere, and at every     *)
(* Eval each element below a hole moves one address up, so that a higher   *)
(* address always means an older element.                                  *)
(***************************************************************************)
EXTENDS Integers, Sequences, FiniteSets, TLC

CONSTANTS
  Size,     \* size
  Payload,  \* TPayload
  Keep      \* "payload not modified"

ASSUME MemoryAssumption ==
  /\ Size \in Nat \ {0}
  /\ Keep \notin Payload

Addresses == 0 .. Size - 1

VARIABLES
  entries,     \* the payload and the valid flag of every address
  payloadMod,  \* pending SetPayload, Keep where there is none
  validSet,    \* pending SetValid(true)
  validClear   \* pending SetValid(false)

cmMod  == <<payloadMod, validSet, validClear>>
cmVars == <<entries, cmMod>>

NoModification ==
  /\ payloadMod = [i \in Addresses |-> Keep]
  /\ validSet = {} /\ validClear = {}

Reset ==
  /\ payloadMod' = [i \in Addresses |-> Keep]
  /\ validSet' = {} /\ validClear' = {}

(* TPayload() is the same value in every entry.                            *)
CMInit ==
  /\ \E zero \in Payload :
       entries = [i \in Addresses |-> [payload |-> zero, valid |-> FALSE]]
  /\ NoModification

CMTypeOK ==
  /\ entries \in [Addresses -> [payload : Payload, valid : BOOLEAN]]
  /\ payloadMod \in [Addresses -> Payload \cup {Keep}]
  /\ validSet \in SUBSET Addresses
  /\ validClear \in SUBSET (Addresses \ validSet)

-----------------------------------------------------------------------------
(* The addresses below the youngest element.                               *)
Leading == {i \in Addresses : \A j \in 0 .. i : ~entries[j].valid}

NextTopAddress ==
  IF Leading = {} THEN -1
  ELSE CHOOSE i \in Leading : \A j \in Leading : j <= i

SetPayload(address, payload) ==
  payloadMod' = [payloadMod EXCEPT ![address] = payload]

(* Mutant: the opposite modification stays recorded.                       *)
SetValidBoth(address, valid) ==
  /\ validSet' = IF valid THEN validSet \cup {address} ELSE validSet
  /\ validClear' = IF valid THEN validClear ELSE validClear \cup {address}

SetValid(address, valid) ==
  /\ validSet' = IF valid THEN validSet \cup {address} ELSE validSet \ {address}
  /\ validClear' = IF valid THEN validClear \ {address} ELSE validClear \cup {address}

(* The calls of a push: a payload and a valid flag at the next top address,*)
(* unless the memory is out of it.                                         *)
Push(payload) ==
  /\ NextTopAddress # -1
  /\ SetPayload(NextTopAddress, payload)
  /\ SetValid(NextTopAddress, TRUE)
  /\ UNCHANGED entries

(* The entries whose modification is well defined: the elements, and the   *)
(* one that is being pushed.  The modification of any other entry would be *)
(* applied to whatever ends up one address above it; asserting its valid   *)
(* flag is what the code calls UNDEFINED.                                  *)
InUse == {i \in Addresses : entries[i].valid} \cup validSet

Update(address, payload) ==
  /\ address \in InUse
  /\ SetPayload(address, payload)
  /\ UNCHANGED <<entries, validSet, validClear>>

Flag(address, valid) ==
  /\ address \in InUse
  /\ SetValid(address, valid)
  /\ UNCHANGED <<entries, payloadMod>>

ResetInput == Reset /\ UNCHANGED entries

Clear ==
  /\ \E zero \in Payload :
       entries' = [i \in Addresses |-> [payload |-> zero, valid |-> FALSE]]
  /\ UNCHANGED cmMod

-----------------------------------------------------------------------------
(* Mutant: an element moves only when the address right above is free.     *)
CarriedByNeighbour(i) == i + 1 \in Addresses /\ ~entries[i + 1].valid

(* comp_carrier[i + 1]: there is a hole above address i.                   *)
Carried(i) == \E j \in Addresses : j > i /\ ~entries[j].valid

(* EntryModification::Apply of the modification of address i to entry e.   *)
Apply(i, e) ==
  [payload |-> IF payloadMod[i] = Keep THEN e.payload ELSE payloadMod[i],
   valid   |-> (e.valid \/ i \in validSet) /\ i \notin validClear]

(* Address i after its own turn in the loop, which runs downwards.         *)
Vacated(i) ==
  IF Carried(i) THEN [entries[i] EXCEPT !.valid = FALSE] ELSE Apply(i, entries[i])

(* Mutant: the modification stays behind when the element moves.           *)
CompressedUnmodified(i) ==
  IF i > 0 /\ Carried(i - 1)
  THEN IF entries[i - 1].valid THEN entries[i - 1] ELSE Apply(i - 1, Vacated(i))
  ELSE Vacated(i)

(* ... and after the turn of the address below, whose element and          *)
(* modification move up.                                                   *)
Compressed(i) ==
  IF i > 0 /\ Carried(i - 1)
  THEN Apply(i - 1, IF entries[i - 1].valid THEN entries[i - 1] ELSE Vacated(i))
  ELSE Vacated(i)

Eval ==
  /\ entries' = [i \in Addresses |-> Compressed(i)]
  /\ Reset

(* The memory is cleared between cycles: a modification that is pending    *)
(* would be applied to the cleared entries.                                *)
CMNext ==
  \/ \E payload \in Payload : Push(payload)
  \/ \E address \in Addresses, payload \in Payload : Update(address, payload)
  \/ \E address \in Addresses, valid \in BOOLEAN : Flag(address, valid)
  \/ ResetInput
  \/ NoModification /\ Clear
  \/ Eval

CMSpec == CMInit /\ [][CMNext]_cmVars

-----------------------------------------------------------------------------
(* The element an address is pushed with never gets lost for want of a     *)
(* hole elsewhere: address 0 is taken after an edge, so that the next push *)
(* is refused, only if every other address was taken before it.            *)
RefusedOnlyWhenFull ==
  [][Eval /\ entries'[0].valid =>
       \A i \in Addresses \ {0} : entries[i].valid]_cmVars

Taken == {i \in Addresses : entries[i].valid}
Pushed == {i \in validSet : ~entries[i].valid}

Ages == 1 .. Cardinality(Taken)

(* The address of the k-th oldest element: the elements above are older.   *)
Age(i) == Cardinality({j \in i .. Size - 1 : entries[j].valid})
ByAge(k) == CHOOSE i \in Taken : Age(i) = k

(* The elements and the modifications, by age.                             *)
Items    == [k \in Ages |-> entries[ByAge(k)].payload]
Changes  == [k \in Ages |-> payloadMod[ByAge(k)]]
Leaving  == {k \in Ages : ByAge(k) \in validClear}
Incoming == IF Pushed = {} THEN <<>> ELSE <<payloadMod[CHOOSE i \in Pushed : TRUE]>>

(* The memory keeps its elements in the order of their arrival, with       *)
(* holes anywhere between them and whatever modifications come with a move.*)
Elements == INSTANCE AgeQueue WITH
  Capacity <- Size,
  Item     <- Payload,
  Same     <- Keep,
  items    <- Items,
  change   <- Changes,
  leaving  <- Leaving,
  incoming <- Incoming

ImplementsAgeQueue == Elements!Spec

(* No definition tells one payload from another, and nothing temporal but  *)
(* step properties is checked: the payloads are interchangeable.           *)
Symmetry == Permutations(Payload)

=============================================================================
