----------------------- MODULE CompressingMemoryProofs -----------------------
(***************************************************************************)
(* Proofs about the compressing memory, for every size: no element is      *)
(* refused for want of a hole that could have been regained, and the       *)
(* memory implements the queue that keeps the age of its elements.         *)
(*                                                                         *)
(* An Eval moves every address that stays, and the one that joins, by      *)
(* Target, which keeps their order; so each of them has as many above it   *)
(* after the edge as stay above it before.                                 *)
(***************************************************************************)
EXTENDS CompressingMemory, FiniteSetTheorems, TLAPS

(* The addresses of S from i upwards, and how many they are.               *)
Above(S, i)    == {j \in S : j >= i}
Position(S, i) == Cardinality(Above(S, i))

(* A set of addresses is finite, and so is each part of it.                *)
LEMMA FiniteAddresses ==
  ASSUME NEW S \in SUBSET Addresses
  PROVE  IsFiniteSet(S) /\ Cardinality(S) \in Nat
<1>1. IsFiniteSet(Addresses)
  BY MemoryAssumption, FS_Interval DEF Addresses
<1> QED
  BY <1>1, FS_Subset, FS_CardinalityType

(* A higher address comes earlier, and every position is taken.            *)
LEMMA Positions ==
  ASSUME NEW S \in SUBSET Addresses
  PROVE  /\ \A i \in S : Position(S, i) \in 1 .. Cardinality(S)
         /\ \A i, j \in S : i < j => Position(S, j) < Position(S, i)
         /\ \A k \in 1 .. Cardinality(S) : \E i \in S : Position(S, i) = k
<1>0. Addresses \subseteq Int
  BY MemoryAssumption DEF Addresses
<1>1. IsFiniteSet(S) /\ Cardinality(S) \in Nat
  BY FiniteAddresses
<1>2. ASSUME NEW i \in S PROVE Position(S, i) \in 1 .. Cardinality(S)
  <2>1. Above(S, i) \in SUBSET S /\ i \in Above(S, i)
    BY <1>0 DEF Above
  <2>2. /\ IsFiniteSet(Above(S, i))
        /\ Cardinality(Above(S, i)) \in Nat
        /\ Cardinality(Above(S, i)) <= Cardinality(S)
    BY <1>1, <2>1, FS_Subset, FS_CardinalityType
  <2>3. Cardinality(Above(S, i)) # 0
    BY <2>1, <2>2, FS_EmptySet
  <2> QED
    BY <1>1, <2>2, <2>3 DEF Position
<1>3. ASSUME NEW i \in S, NEW j \in S, i < j
      PROVE  Position(S, j) < Position(S, i)
  <2>0. S \subseteq Int
    BY <1>0
  <2>1. Above(S, j) \in SUBSET Above(S, i) /\ i \in Above(S, i) /\ i \notin Above(S, j)
    <3>1. \A x \in S : x >= j => x >= i
      BY <2>0, <1>3
    <3>2. i >= i /\ ~(i >= j)
      BY <2>0, <1>3
    <3> QED
      BY <3>1, <3>2 DEF Above
  <2>2. IsFiniteSet(Above(S, i))
    BY <1>1, FS_Subset DEF Above
  <2>3. /\ Cardinality(Above(S, j)) <= Cardinality(Above(S, i))
        /\ Cardinality(Above(S, j)) # Cardinality(Above(S, i))
    BY <2>1, <2>2, FS_Subset
  <2> QED
    BY <1>2, <2>3 DEF Position
<1>4. ASSUME NEW k \in 1 .. Cardinality(S) PROVE \E i \in S : Position(S, i) = k
  <2> DEFINE f == [i \in S |-> Position(S, i)]
             T == 1 .. Cardinality(S)
  <2>1. f \in [S -> T]
    BY <1>2
  <2>2. \A i, j \in S : f[i] = f[j] => i = j
    <3> SUFFICES ASSUME NEW i \in S, NEW j \in S, i # j PROVE f[i] # f[j]
      OBVIOUS
    <3>1. i < j \/ j < i
      BY <1>0
    <3> QED
      BY <1>2, <1>3, <3>1
  <2>3. f \in Injection(S, T)
    BY <2>1, <2>2 DEF Injection, IsInjective
  <2>4. IsFiniteSet(T) /\ Cardinality(T) = Cardinality(S)
    BY <1>1, FS_Interval
  <2>5. f \in Surjection(S, T)
    BY <1>1, <2>3, <2>4, FS_Injection
  <2> QED
    BY <2>5 DEF Surjection
<1> QED
  BY <1>2, <1>3, <1>4

(* Sets that a function maps one to one are of the same size.              *)
LEMMA SameSize ==
  ASSUME NEW S, IsFiniteSet(S), NEW T, NEW f \in [S -> T],
         \A x, y \in S : f[x] = f[y] => x = y,
         \A t \in T : \E x \in S : f[x] = t
  PROVE  Cardinality(T) = Cardinality(S)
<1>1. f \in Bijection(S, T)
  BY DEF Bijection, Injection, Surjection, IsInjective
<1>2. ExistsBijection(S, T)
  BY <1>1 DEF ExistsBijection
<1> QED
  BY <1>2, FS_Bijection

(* A set moved by a function that keeps the order has the same positions.  *)
LEMMA PositionsMove ==
  ASSUME NEW S \in SUBSET Addresses, NEW T \in SUBSET Addresses, NEW f \in [S -> T],
         \A x, y \in S : x < y => f[x] < f[y],
         \A t \in T : \E x \in S : f[x] = t
  PROVE  /\ Cardinality(T) = Cardinality(S)
         /\ \A x \in S : Position(T, f[x]) = Position(S, x)
<1>0. S \subseteq Int /\ T \subseteq Int
  BY MemoryAssumption DEF Addresses
<1>1. \A x, y \in S : f[x] = f[y] => x = y
  <2> SUFFICES ASSUME NEW x \in S, NEW y \in S, x # y PROVE f[x] # f[y]
    OBVIOUS
  <2>1. x < y \/ y < x
    BY <1>0
  <2>2. f[x] \in Int /\ f[y] \in Int
    BY <1>0
  <2> QED
    BY <2>1, <2>2
<1>2. ASSUME NEW x \in S PROVE Position(T, f[x]) = Position(S, x)
  <2> DEFINE g == [y \in Above(S, x) |-> f[y]]
  <2>1. IsFiniteSet(Above(S, x))
    BY FiniteAddresses DEF Above
  <2>2. \A y \in S : y >= x <=> f[y] >= f[x]
    <3> SUFFICES ASSUME NEW y \in S PROVE y >= x <=> f[y] >= f[x]
      OBVIOUS
    <3>1. x < y \/ y < x \/ x = y
      BY <1>0
    <3>2. f[x] \in Int /\ f[y] \in Int /\ x \in Int /\ y \in Int
      BY <1>0
    <3> QED
      BY <3>1, <3>2
  <2>3. g \in [Above(S, x) -> Above(T, f[x])]
    BY <2>2 DEF Above
  <2>4. \A y, z \in Above(S, x) : g[y] = g[z] => y = z
    BY <1>1 DEF Above
  <2>5. \A t \in Above(T, f[x]) : \E y \in Above(S, x) : g[y] = t
    BY <2>2 DEF Above
  <2> QED
    BY <2>1, <2>3, <2>4, <2>5, SameSize DEF Position
<1>3. Cardinality(T) = Cardinality(S)
  BY <1>1, FiniteAddresses, SameSize
<1> QED
  BY <1>2, <1>3

-----------------------------------------------------------------------------
(* Only elements and the entry of the push that is pending are modified.   *)
ModifiedInUse ==
  \A i \in Addresses :
    \/ entries[i].valid
    \/ i = NextTopAddress
    \/ payloadMod[i] = Keep /\ i \notin validSet /\ i \notin validClear

PushesPayload == \A i \in Pushed : payloadMod[i] # Keep

IInv == CMTypeOK /\ ModifiedInUse /\ PushesPayload

(* Nothing is valid up to the next top address, and above it is an element *)
(* or the end.                                                             *)
LEMMA NextTop ==
  ASSUME CMTypeOK
  PROVE  /\ NextTopAddress \in Addresses =>
              /\ \A j \in 0 .. NextTopAddress : ~entries[j].valid
              /\ \A j \in Addresses : j = NextTopAddress + 1 => entries[j].valid
         /\ NextTopAddress # -1 => NextTopAddress \in Addresses
<1> DEFINE L == Leading
           p == NextTopAddress
<1>0. Addresses = 0 .. Size - 1 /\ Size \in Nat \ {0}
  BY MemoryAssumption DEF Addresses
<1>1. CASE L = {}
  BY <1>0, <1>1 DEF NextTopAddress
<1>2. CASE L # {}
  <2>1. L \in SUBSET Addresses /\ L \subseteq Int
    BY <1>0 DEF Leading
  <2>2. Cardinality(L) \in Nat /\ Cardinality(L) # 0
    BY <1>2, <2>1, FiniteAddresses, FS_EmptySet
  <2>3. \A k \in 1 .. Cardinality(L) : \E i \in L : Position(L, i) = k
    BY <2>1, Positions
  <2>4. PICK i \in L : Position(L, i) = 1
    BY <2>2, <2>3
  <2>5. ASSUME NEW j \in L PROVE j <= i
    <3>1. \A a, b \in L : a < b => Position(L, b) < Position(L, a)
      BY <2>1, Positions
    <3>2. Position(L, j) \in 1 .. Cardinality(L)
      BY <2>1, Positions
    <3>3. ~(i < j)
      BY <2>2, <2>4, <3>1, <3>2
    <3> QED
      BY <2>1, <3>3
  <2>6. p \in L /\ \A j \in L : j <= p
    BY <1>2, <2>5 DEF NextTopAddress
  <2> HIDE DEF p
  <2>7. \A j \in 0 .. p : ~entries[j].valid
    BY <2>6 DEF Leading
  <2>8. ASSUME NEW j \in Addresses, j = p + 1, ~entries[j].valid PROVE FALSE
    <3>1. \A x \in 0 .. j : ~entries[x].valid
      BY <1>0, <2>1, <2>6, <2>7, <2>8
    <3>2. j \in L
      BY <3>1 DEF Leading
    <3> QED
      BY <2>1, <2>6, <2>8, <3>2
  <2> QED
    BY <2>1, <2>6, <2>7, <2>8 DEF p
<1> QED
  BY <1>1, <1>2

LEMMA InitInductive == CMInit => IInv
<1> SUFFICES ASSUME CMInit PROVE IInv
  OBVIOUS
<1>1. CMTypeOK
  BY DEF CMInit, CMTypeOK, NoModification
<1>2. ModifiedInUse /\ PushesPayload
  BY DEF CMInit, NoModification, ModifiedInUse, PushesPayload, Pushed
<1> QED
  BY <1>1, <1>2 DEF IInv

(* Without modifications nothing is left to say.                           *)
LEMMA NothingModified ==
  NoModification => ModifiedInUse /\ PushesPayload
BY DEF NoModification, ModifiedInUse, PushesPayload, Pushed

LEMMA EntriesStayTyped ==
  ASSUME CMTypeOK, NEW i \in Addresses
  PROVE  Compressed(i) \in [payload : Payload, valid : BOOLEAN]
<1> DEFINE Entry == [payload : Payload, valid : BOOLEAN]
<1>1. \A j \in Addresses : entries[j] \in Entry /\ payloadMod[j] \in Payload \cup {Keep}
  BY DEF CMTypeOK
<1>2. ASSUME NEW j \in Addresses, NEW e \in Entry PROVE Apply(j, e) \in Entry
  BY <1>1 DEF Apply
<1>3. Vacated(i) \in Entry
  <2>1. [entries[i] EXCEPT !.valid = FALSE] \in Entry
    BY <1>1
  <2>2. Apply(i, entries[i]) \in Entry
    BY <1>1, <1>2
  <2> QED
    BY <2>1, <2>2 DEF Vacated
<1>4. CASE i > 0 /\ Carried(i - 1)
  <2>1. i - 1 \in Addresses
    BY <1>4, MemoryAssumption DEF Addresses
  <2> DEFINE e == IF entries[i - 1].valid THEN entries[i - 1] ELSE Vacated(i)
  <2>2. e \in Entry
    BY <1>1, <1>3, <2>1
  <2>3. Compressed(i) = Apply(i - 1, e)
    BY <1>4 DEF Compressed
  <2> HIDE DEF e
  <2> QED
    BY <1>2, <2>1, <2>2, <2>3
<1>5. CASE ~(i > 0 /\ Carried(i - 1))
  BY <1>3, <1>5 DEF Compressed
<1> QED
  BY <1>4, <1>5

(* A step that leaves the entries alone leaves the next top address alone. *)
LEMMA SameTop ==
  ASSUME UNCHANGED entries
  PROVE  NextTopAddress' = NextTopAddress
BY DEF NextTopAddress, Leading

LEMMA NextInductive == IInv /\ [CMNext]_cmVars => IInv'
<1> SUFFICES ASSUME IInv, [CMNext]_cmVars PROVE IInv'
  OBVIOUS
<1> USE DEF CMTypeOK
<1>0. CMTypeOK /\ ModifiedInUse /\ PushesPayload /\ Keep \notin Payload
  BY MemoryAssumption DEF IInv
<1>1. ASSUME NEW payload \in Payload, Push(payload) PROVE IInv'
  <2>1. /\ NextTopAddress \in Addresses
        /\ ~entries[NextTopAddress].valid
    BY <1>0, <1>1, NextTop, MemoryAssumption DEF Push, Addresses
  <2>2. NextTopAddress' = NextTopAddress /\ UNCHANGED entries
    BY <1>1, SameTop DEF Push
  <2> DEFINE top == NextTopAddress
  <2>3. /\ payloadMod' = [payloadMod EXCEPT ![top] = payload]
        /\ validSet' = validSet \cup {top} /\ validClear' = validClear \ {top}
    BY <1>1 DEF Push, SetPayload, SetValid
  <2> HIDE DEF top
  <2>4. top \in Addresses /\ top' = top
    BY <2>1, <2>2 DEF top
  <2>5. CMTypeOK'
    BY <1>0, <2>2, <2>3, <2>4
  <2>6. ModifiedInUse'
    BY <1>0, <2>2, <2>3, <2>4 DEF ModifiedInUse, top
  <2>7. PushesPayload'
    BY <1>0, <2>2, <2>3, <2>4 DEF PushesPayload, Pushed
  <2> QED
    BY <2>5, <2>6, <2>7 DEF IInv
<1>2. ASSUME NEW address \in Addresses, NEW payload \in Payload, Update(address, payload)
      PROVE  IInv'
  <2>1. /\ NextTopAddress' = NextTopAddress
        /\ UNCHANGED <<entries, validSet, validClear>>
        /\ payloadMod' = [payloadMod EXCEPT ![address] = payload]
    BY <1>2, SameTop DEF Update, SetPayload
  <2>2. CMTypeOK'
    BY <1>0, <2>1
  <2>3. entries[address].valid \/ address = NextTopAddress
    BY <1>0, <1>2 DEF Update, InUse, ModifiedInUse
  <2>4. ModifiedInUse'
    BY <1>0, <2>1, <2>3 DEF ModifiedInUse
  <2>5. PushesPayload'
    BY <1>0, <2>1 DEF PushesPayload, Pushed
  <2> QED
    BY <2>2, <2>4, <2>5 DEF IInv
<1>3. ASSUME NEW address \in Addresses, NEW valid \in BOOLEAN, Flag(address, valid)
      PROVE  IInv'
  <2>1. /\ NextTopAddress' = NextTopAddress
        /\ UNCHANGED <<entries, payloadMod>>
        /\ \/ validSet' = validSet \cup {address} /\ validClear' = validClear \ {address}
           \/ validSet' = validSet \ {address} /\ validClear' = validClear \cup {address}
    BY <1>3, SameTop DEF Flag, SetValid
  <2>2. CMTypeOK'
    BY <1>0, <2>1
  <2>3. entries[address].valid \/ (address = NextTopAddress /\ address \in Pushed)
    BY <1>0, <1>3 DEF Flag, InUse, ModifiedInUse, Pushed
  <2>4. ModifiedInUse'
    BY <1>0, <2>1, <2>3 DEF ModifiedInUse
  <2>5. PushesPayload'
    BY <1>0, <2>1, <2>3 DEF PushesPayload, Pushed
  <2> QED
    BY <2>2, <2>4, <2>5 DEF IInv
<1>4. ASSUME NoModification', UNCHANGED entries \/ Clear \/ Eval PROVE IInv'
  <2>1. /\ payloadMod' \in [Addresses -> Payload \cup {Keep}]
        /\ validSet' = {} /\ validClear' = {}
    BY <1>4 DEF NoModification
  <2>2. entries' \in [Addresses -> [payload : Payload, valid : BOOLEAN]]
    <3>1. CASE UNCHANGED entries
      BY <1>0, <3>1
    <3>2. CASE Clear
      BY <3>2 DEF Clear
    <3>3. CASE Eval
      BY <1>0, <3>3, EntriesStayTyped DEF Eval
    <3> QED
      BY <1>4, <3>1, <3>2, <3>3
  <2>3. CMTypeOK'
    BY <2>1, <2>2
  <2>4. (NoModification => ModifiedInUse /\ PushesPayload)'
    BY NothingModified, PTL
  <2> QED
    BY <1>4, <2>3, <2>4 DEF IInv
<1>5. CASE ResetInput
  BY <1>4, <1>5 DEF ResetInput, Reset, NoModification
<1>6. CASE NoModification /\ Clear
  BY <1>4, <1>6 DEF Clear, cmMod, NoModification
<1>7. CASE Eval
  BY <1>4, <1>7 DEF Eval, Reset, NoModification
<1>8. CASE UNCHANGED cmVars
  <2>1. UNCHANGED <<entries, payloadMod, validSet, validClear>>
    BY <1>8 DEF cmVars, cmMod
  <2>2. NextTopAddress' = NextTopAddress
    BY <2>1, SameTop
  <2> QED
    BY <1>0, <2>1, <2>2 DEF IInv, ModifiedInUse, PushesPayload, Pushed
<1> QED
  BY <1>1, <1>2, <1>3, <1>5, <1>6, <1>7, <1>8 DEF CMNext

(* Every pending modification belongs to an element, or to the entry of    *)
(* the push that is pending: what Eval moves is well defined.              *)
THEOREM MemoryInductive == CMSpec => []IInv
BY InitInductive, NextInductive, PTL DEF CMSpec

(* The entries and modifications keep their type, and no entry is marked   *)
(* valid and invalid at once.                                              *)
THEOREM MemoryTypeCorrect == CMSpec => []CMTypeOK
<1>1. IInv => CMTypeOK
  BY DEF IInv
<1> QED
  BY <1>1, MemoryInductive, PTL

(* Address 0 is taken after an edge, so that the next push is refused,     *)
(* only if every other address was taken before it.                        *)
THEOREM HolesRegained == CMSpec => RefusedOnlyWhenFull
<1>1. IInv /\ [CMNext]_cmVars =>
        [Eval /\ entries'[0].valid => \A i \in Addresses \ {0} : entries[i].valid]_cmVars
  <2> SUFFICES ASSUME IInv, Eval, entries'[0].valid,
                      NEW i \in Addresses \ {0}, ~entries[i].valid
               PROVE  FALSE
    OBVIOUS
  <2>1. 0 \in Addresses /\ i > 0 /\ Addresses \subseteq Int
    BY MemoryAssumption DEF Addresses
  <2>2. Carried(0)
    BY <2>1 DEF Carried
  <2>3. entries'[0] = [entries[0] EXCEPT !.valid = FALSE]
    BY <2>1, <2>2 DEF Eval, Compressed, Vacated
  <2>4. entries[0] \in [payload : Payload, valid : BOOLEAN]
    BY <2>1 DEF IInv, CMTypeOK
  <2> QED
    BY <2>3, <2>4
<1> QED
  BY <1>1, MemoryInductive, PTL DEF CMSpec, RefusedOnlyWhenFull

-----------------------------------------------------------------------------
(* The elements and their ages correspond to each other.                   *)
LEMMA ByAgeCorrect ==
  CMTypeOK =>
    /\ Taken \in SUBSET Addresses
    /\ \A i \in Taken : Age(i) = Position(Taken, i)
    /\ \A k \in Ages : ByAge(k) \in Taken /\ Age(ByAge(k)) = k
    /\ \A i \in Taken : Age(i) \in Ages /\ ByAge(Age(i)) = i
<1> SUFFICES ASSUME CMTypeOK
             PROVE  /\ Taken \in SUBSET Addresses
                    /\ \A i \in Taken : Age(i) = Position(Taken, i)
                    /\ \A k \in Ages : ByAge(k) \in Taken /\ Age(ByAge(k)) = k
                    /\ \A i \in Taken : Age(i) \in Ages /\ ByAge(Age(i)) = i
  OBVIOUS
<1>0. Addresses = 0 .. Size - 1 /\ Addresses \subseteq Int
  BY MemoryAssumption DEF Addresses
<1>1. Taken \in SUBSET Addresses
  BY DEF Taken
<1>2. ASSUME NEW i \in Taken PROVE Age(i) = Position(Taken, i)
  <2>1. {j \in i .. Size - 1 : entries[j].valid} = Above(Taken, i)
    <3>1. i \in Int /\ i >= 0 /\ Size \in Int
      BY <1>0, <1>1, MemoryAssumption
    <3>2. \A j : j \in i .. Size - 1 <=> j \in Addresses /\ j >= i
      BY <1>0, <3>1
    <3> QED
      BY <3>2 DEF Above, Taken
  <2> QED
    BY <2>1 DEF Age, Position
<1>3. /\ \A i \in Taken : Position(Taken, i) \in Ages
      /\ \A i, j \in Taken : i < j => Position(Taken, j) < Position(Taken, i)
      /\ \A k \in Ages : \E i \in Taken : Position(Taken, i) = k
  BY <1>1, Positions DEF Ages
<1>4. \A i, j \in Taken : Age(i) = Age(j) => i = j
  <2> SUFFICES ASSUME NEW i \in Taken, NEW j \in Taken, Age(i) = Age(j), i # j PROVE FALSE
    OBVIOUS
  <2>1. i < j \/ j < i
    BY <1>0, <1>1
  <2>2. Position(Taken, i) \in Int /\ Position(Taken, i) = Position(Taken, j)
    BY <1>2, <1>3 DEF Ages
  <2> QED
    BY <1>3, <2>1, <2>2
<1>5. ASSUME NEW k \in Ages PROVE ByAge(k) \in Taken /\ Age(ByAge(k)) = k
  <2>1. \E i \in Taken : Age(i) = k
    BY <1>2, <1>3
  <2> QED
    BY <2>1 DEF ByAge
<1> QED
  BY <1>1, <1>2, <1>3, <1>4, <1>5

(* The entry that is being pushed is the next one, below every element.    *)
LEMMA PushedIsNext ==
  ASSUME IInv, NEW p \in Pushed
  PROVE  /\ Pushed = {p} /\ p \in Addresses
         /\ payloadMod[p] \in Payload /\ p \notin validClear
         /\ \A i \in Taken : p < i
         /\ \A j \in 0 .. p : ~entries[j].valid
<1>1. CMTypeOK /\ ModifiedInUse /\ PushesPayload
  BY DEF IInv
<1>2. ASSUME NEW i \in Pushed PROVE i = NextTopAddress /\ i \in Addresses
  BY <1>1 DEF Pushed, ModifiedInUse, CMTypeOK
<1>3. p = NextTopAddress /\ p \in Addresses
  BY <1>2
<1>4. \A j \in 0 .. p : ~entries[j].valid
  BY <1>1, <1>3, NextTop
<1>5. Pushed = {p}
  BY <1>2, <1>3
<1>6. payloadMod[p] \in Payload /\ p \notin validClear
  BY <1>1, <1>3 DEF Pushed, PushesPayload, CMTypeOK
<1>7. \A i \in Taken : p < i
  BY <1>3, <1>4, MemoryAssumption DEF Taken, Addresses
<1> QED
  BY <1>3, <1>4, <1>5, <1>6, <1>7

(* The elements that stay, these and the one that joins, and where each of *)
(* them is after Eval.                                                     *)
Staying   == Taken \ validClear
Joined    == Staying \cup Pushed
Target(i) == IF Carried(i) THEN i + 1 ELSE i

LEMMA TargetKeepsOrder ==
  ASSUME IInv
  PROVE  /\ \A i \in Addresses : Target(i) \in Addresses
         /\ \A x, y \in Joined : x < y => Target(x) < Target(y)
<1>0. Addresses = 0 .. Size - 1 /\ Size \in Nat \ {0}
  BY MemoryAssumption DEF Addresses
<1>1. ASSUME NEW i \in Addresses PROVE Target(i) \in Addresses
  BY <1>0 DEF Target, Carried
<1>2. ASSUME NEW x \in Joined, NEW y \in Joined, x < y PROVE Target(x) < Target(y)
  <2>1. x \in Addresses /\ y \in Addresses
    BY DEF Joined, Staying, Taken, Pushed, IInv, CMTypeOK
  <2>2. y \in Taken
    <3> SUFFICES ASSUME y \in Pushed PROVE FALSE
      BY DEF Joined, Staying
    <3>1. \A i \in Taken : y < i
      BY PushedIsNext
    <3>2. Pushed = {y}
      BY PushedIsNext
    <3> QED
      BY <1>0, <1>2, <2>1, <3>1, <3>2 DEF Joined, Staying
  <2>3. CASE Carried(y)
    <3>1. Carried(x)
      BY <1>0, <1>2, <2>1, <2>3 DEF Carried
    <3> QED
      BY <1>0, <1>2, <2>1, <2>3, <3>1 DEF Target
  <2>4. CASE ~Carried(y)
    <3>1. Carried(x) => x + 1 # y
      BY <1>0, <2>1, <2>2, <2>4 DEF Carried, Taken
    <3> QED
      BY <1>0, <1>2, <2>1, <2>4, <3>1 DEF Target
  <2> QED
    BY <2>3, <2>4
<1> QED
  BY <1>1, <1>2

(* An element that stays is found where it moves, with the modification it *)
(* was given.                                                              *)
LEMMA StayingMoves ==
  ASSUME IInv, NEW i \in Staying
  PROVE  LET e == Compressed(Target(i))
         IN  /\ e.valid
             /\ e.payload = IF payloadMod[i] = Keep THEN entries[i].payload
                            ELSE payloadMod[i]
<1>0. Addresses = 0 .. Size - 1 /\ Size \in Nat \ {0}
  BY MemoryAssumption DEF Addresses
<1>1. i \in Addresses /\ entries[i].valid /\ i \notin validClear
  BY DEF Staying, Taken
<1>2. /\ Apply(i, entries[i]).valid
      /\ Apply(i, entries[i]).payload =
           IF payloadMod[i] = Keep THEN entries[i].payload ELSE payloadMod[i]
  BY <1>1 DEF Apply
<1>3. Compressed(Target(i)) = Apply(i, entries[i])
  <2>1. CASE Carried(i)
    <3> DEFINE k == Target(i)
    <3>1. k = i + 1 /\ k > 0 /\ k - 1 = i
      BY <1>0, <1>1, <2>1 DEF Target
    <3> HIDE DEF k
    <3> QED
      BY <1>1, <2>1, <3>1 DEF Compressed, k
  <2>2. CASE ~Carried(i)
    <3>1. Target(i) = i
      BY <2>2 DEF Target
    <3>2. ~(i > 0 /\ Carried(i - 1))
      <4> SUFFICES ASSUME NEW j \in Addresses, j > i - 1, ~entries[j].valid PROVE FALSE
        BY DEF Carried
      <4>1. j = i \/ j > i
        BY <1>0, <1>1
      <4> QED
        BY <1>1, <2>2, <4>1 DEF Carried
    <3> QED
      BY <2>2, <3>1, <3>2 DEF Compressed, Vacated
  <2> QED
    BY <2>1, <2>2
<1> QED
  BY <1>2, <1>3

(* So is the one that joins.                                               *)
LEMMA PushedMoves ==
  ASSUME IInv, NEW p \in Pushed
  PROVE  LET e == Compressed(Target(p))
         IN  e.valid /\ e.payload = payloadMod[p]
<1>0. Addresses = 0 .. Size - 1 /\ Size \in Nat \ {0} /\ Keep \notin Payload
  BY MemoryAssumption DEF Addresses
<1>1. /\ p \in Addresses /\ p \in validSet /\ p \notin validClear
      /\ payloadMod[p] \in Payload /\ ~entries[p].valid
      /\ \A j \in 0 .. p : ~entries[j].valid
  BY PushedIsNext DEF Pushed
<1>2. ASSUME NEW e PROVE Apply(p, e).valid /\ Apply(p, e).payload = payloadMod[p]
  BY <1>0, <1>1 DEF Apply
<1>3. CASE Carried(p)
  <2> DEFINE k == Target(p)
  <2>1. k = p + 1 /\ k > 0 /\ k - 1 = p
    BY <1>0, <1>1, <1>3 DEF Target
  <2> HIDE DEF k
  <2>2. Compressed(k) = Apply(p, Vacated(k))
    BY <1>1, <1>3, <2>1 DEF Compressed
  <2> QED
    BY <1>2, <2>2 DEF k
<1>4. CASE ~Carried(p)
  <2>1. Target(p) = p /\ Vacated(p) = Apply(p, entries[p])
    BY <1>4 DEF Target, Vacated
  <2>2. CASE p = 0
    BY <1>2, <2>1, <2>2 DEF Compressed
  <2>3. CASE p > 0
    <3> DEFINE q == p - 1
    <3>1. q \in Addresses /\ q # p /\ q \in 0 .. p
      BY <1>0, <1>1, <2>3
    <3>2. q # NextTopAddress /\ ~entries[q].valid
      BY <1>1, <3>1, NextTop DEF IInv, ModifiedInUse
    <3>3. payloadMod[q] = Keep /\ q \notin validSet /\ q \notin validClear
      BY <3>1, <3>2 DEF IInv, ModifiedInUse
    <3>4. Compressed(p) = Apply(q, Vacated(p))
      <4>1. Carried(q)
        BY <1>0, <1>1, <2>3 DEF Carried
      <4> QED
        BY <2>3, <3>2, <4>1 DEF Compressed
    <3> HIDE DEF q
    <3>5. \A e : Apply(q, e).payload = e.payload /\ (Apply(q, e).valid <=> e.valid = TRUE)
      BY <3>3 DEF Apply
    <3> QED
      BY <1>2, <2>1, <3>4, <3>5
  <2> QED
    BY <1>0, <1>1, <2>2, <2>3
<1> QED
  BY <1>3, <1>4

(* Nothing else is valid after Eval.                                       *)
LEMMA OnlyJoinedMove ==
  ASSUME IInv, NEW k \in Addresses, Compressed(k).valid
  PROVE  \E i \in Joined : Target(i) = k
<1>0. Addresses = 0 .. Size - 1 /\ Size \in Nat \ {0}
  BY MemoryAssumption DEF Addresses
<1>1. ASSUME Vacated(k).valid PROVE k \in Joined /\ Target(k) = k
  <2>1. entries[k] \in [payload : Payload, valid : BOOLEAN]
    BY DEF IInv, CMTypeOK
  <2>2. ~Carried(k)
    BY <1>1, <2>1 DEF Vacated
  <2>3. (entries[k].valid \/ k \in validSet) /\ k \notin validClear
    BY <1>1, <2>2 DEF Vacated, Apply
  <2> QED
    BY <2>2, <2>3 DEF Joined, Staying, Taken, Pushed, Target
<1>2. CASE k > 0 /\ Carried(k - 1)
  <2> DEFINE q == k - 1
  <2>1. q \in Addresses /\ q + 1 = k
    BY <1>0, <1>2
  <2>2. Compressed(k) = Apply(q, IF entries[q].valid THEN entries[q] ELSE Vacated(k))
    BY <1>2 DEF Compressed
  <2>3. Carried(q)
    BY <1>2
  <2> HIDE DEF q
  <2>4. Target(q) = k
    BY <2>1, <2>3 DEF Target
  <2>5. CASE entries[q].valid
    <3>1. Apply(q, entries[q]).valid
      BY <2>2, <2>5
    <3>2. q \notin validClear
      BY <3>1 DEF Apply
    <3> QED
      BY <2>1, <2>4, <2>5, <3>2 DEF Joined, Staying, Taken
  <2>6. CASE ~entries[q].valid
    <3>0. Apply(q, Vacated(k)).valid
      BY <2>2, <2>6
    <3>1. (Vacated(k).valid \/ q \in validSet) /\ q \notin validClear
      BY <3>0 DEF Apply
    <3>2. q \in validSet => q \in Joined
      BY <2>6 DEF Joined, Pushed
    <3> QED
      BY <1>1, <2>4, <3>1, <3>2
  <2> QED
    BY <2>5, <2>6
<1>3. CASE ~(k > 0 /\ Carried(k - 1))
  BY <1>1, <1>3 DEF Compressed
<1> QED
  BY <1>2, <1>3

(* The elements after Eval, and their ages.                                *)
LEMMA EvalMoves ==
  ASSUME IInv, Eval
  PROVE  /\ Cardinality(Taken') = Cardinality(Joined)
         /\ \A i \in Joined : /\ Target(i) \in Taken'
                              /\ Position(Taken', Target(i)) = Position(Joined, i)
<1> DEFINE f == [i \in Joined |-> Target(i)]
           T == Taken'
<1>1. Joined \in SUBSET Addresses
  BY DEF Joined, Staying, Taken, Pushed, IInv, CMTypeOK
<1>2. T = {k \in Addresses : Compressed(k).valid}
  BY DEF Taken, Eval
<1> HIDE DEF T
<1>3. T \in SUBSET Addresses
  BY <1>2
<1>4. ASSUME NEW i \in Joined PROVE f[i] \in T
  <2>1. Target(i) \in Addresses
    BY <1>1, TargetKeepsOrder
  <2>2. Compressed(Target(i)).valid
    BY StayingMoves, PushedMoves DEF Joined
  <2> QED
    BY <1>2, <2>1, <2>2
<1>5. f \in [Joined -> T]
  BY <1>4
<1>6. \A x, y \in Joined : x < y => f[x] < f[y]
  BY TargetKeepsOrder
<1>7. \A k \in T : \E i \in Joined : f[i] = k
  BY <1>2, OnlyJoinedMove
<1>8. /\ Cardinality(T) = Cardinality(Joined)
      /\ \A i \in Joined : Position(T, f[i]) = Position(Joined, i)
  <2> HIDE DEF f
  <2> QED
    BY <1>1, <1>3, <1>5, <1>6, <1>7, PositionsMove
<1> QED
  BY <1>4, <1>8 DEF T

(* The one that joins is the youngest.                                     *)
LEMMA JoinedPositions ==
  ASSUME IInv
  PROVE  /\ Cardinality(Joined) = Cardinality(Staying) + Cardinality(Pushed)
         /\ \A i \in Staying : Position(Joined, i) = Position(Staying, i)
         /\ \A p \in Pushed : Position(Joined, p) = Cardinality(Staying) + 1
         /\ Cardinality(Pushed) = IF Pushed = {} THEN 0 ELSE 1
<1>0. Addresses \subseteq Int
  BY MemoryAssumption DEF Addresses
<1>1. /\ Staying \in SUBSET Addresses /\ Pushed \in SUBSET Addresses
      /\ Joined \in SUBSET Addresses
  BY DEF Joined, Staying, Taken, Pushed, IInv, CMTypeOK
<1>2. CASE Pushed = {}
  <2>1. Joined = Staying
    BY <1>2 DEF Joined
  <2> QED
    BY <1>1, <1>2, <2>1, FiniteAddresses, FS_EmptySet
<1>3. ASSUME NEW p \in Pushed
      PROVE  /\ Cardinality(Pushed) = 1
             /\ Cardinality(Joined) = Cardinality(Staying) + 1
             /\ Position(Joined, p) = Cardinality(Staying) + 1
             /\ \A i \in Staying : Position(Joined, i) = Position(Staying, i)
  <2>1. Pushed = {p} /\ \A i \in Staying : p < i
    BY PushedIsNext DEF Staying
  <2>2. p \notin Staying /\ Joined = Staying \cup {p} /\ p \in Int
    BY <1>0, <1>1, <2>1 DEF Joined
  <2>3. Cardinality(Joined) = Cardinality(Staying) + 1
    BY <1>1, <2>2, FiniteAddresses, FS_AddElement
  <2>4. Above(Joined, p) = Joined
    <3>1. \A j \in Joined : j >= p
      BY <1>0, <1>1, <2>1, <2>2
    <3> QED
      BY <3>1 DEF Above
  <2>5. ASSUME NEW i \in Staying PROVE Above(Joined, i) = Above(Staying, i)
    <3>1. ~(p >= i)
      BY <1>0, <1>1, <2>1, <2>2
    <3> QED
      BY <2>2, <3>1 DEF Above
  <2> QED
    BY <2>1, <2>3, <2>4, <2>5, FS_Singleton DEF Position
<1> QED
  BY <1>1, <1>2, <1>3, FiniteAddresses

(* The ages of the elements that stay, and their positions among these.    *)
AgesStaying == Ages \ Leaving

LEMMA StayingPositions ==
  ASSUME IInv
  PROVE  /\ Cardinality(AgesStaying) = Cardinality(Staying)
         /\ \A k \in AgesStaying :
              /\ ByAge(k) \in Staying
              /\ Cardinality({j \in AgesStaying : j <= k}) = Position(Staying, ByAge(k))
<1>0. Addresses \subseteq Int
  BY MemoryAssumption DEF Addresses
<1>1. /\ Taken \in SUBSET Addresses
      /\ \A i \in Taken : Age(i) = Position(Taken, i)
      /\ \A k \in Ages : ByAge(k) \in Taken /\ Age(ByAge(k)) = k
      /\ \A i \in Taken : Age(i) \in Ages /\ ByAge(Age(i)) = i
  BY ByAgeCorrect DEF IInv
<1>2. \A k \in AgesStaying : ByAge(k) \in Staying
  BY <1>1 DEF AgesStaying, Leaving, Staying
<1>3. \A i \in Staying : Age(i) \in AgesStaying /\ ByAge(Age(i)) = i
  BY <1>1 DEF AgesStaying, Leaving, Staying
<1>4. Ages \subseteq Int /\ IsFiniteSet(Ages)
  <2>1. Cardinality(Taken) \in Nat
    BY <1>1, FiniteAddresses
  <2> QED
    BY <2>1, FS_Interval DEF Ages
<1>5. ASSUME NEW j \in Ages, NEW k \in Ages PROVE j <= k <=> ByAge(j) >= ByAge(k)
  <2> DEFINE x == ByAge(j)
             y == ByAge(k)
  <2>1. x \in Taken /\ y \in Taken /\ Position(Taken, x) = j /\ Position(Taken, y) = k
    BY <1>1
  <2>2. /\ x < y => Position(Taken, y) < Position(Taken, x)
        /\ y < x => Position(Taken, x) < Position(Taken, y)
    BY <1>1, <2>1, Positions
  <2>3. x \in Int /\ y \in Int /\ j \in Int /\ k \in Int
    BY <1>0, <1>1, <1>4, <2>1
  <2> SUFFICES j <= k <=> x >= y
    OBVIOUS
  <2> HIDE DEF x, y
  <2>4. CASE x < y
    BY <2>1, <2>2, <2>3, <2>4
  <2>5. CASE y < x
    BY <2>1, <2>2, <2>3, <2>5
  <2>6. CASE x = y
    BY <2>1, <2>3, <2>6
  <2> QED
    BY <2>3, <2>4, <2>5, <2>6
<1>6. ASSUME NEW j \in Ages, NEW k \in Ages, ByAge(j) = ByAge(k) PROVE j = k
  BY <1>1, <1>6
<1>7. Cardinality(AgesStaying) = Cardinality(Staying)
  <2> DEFINE f == [k \in AgesStaying |-> ByAge(k)]
  <2>1. IsFiniteSet(AgesStaying)
    BY <1>4, FS_Subset DEF AgesStaying
  <2>2. f \in [AgesStaying -> Staying]
    BY <1>2
  <2>3. \A j, k \in AgesStaying : f[j] = f[k] => j = k
    BY <1>6 DEF AgesStaying
  <2>4. \A i \in Staying : \E k \in AgesStaying : f[k] = i
    BY <1>3
  <2> HIDE DEF f
  <2> QED
    BY <2>1, <2>2, <2>3, <2>4, SameSize
<1>8. ASSUME NEW k \in AgesStaying
      PROVE  Cardinality({j \in AgesStaying : j <= k}) = Position(Staying, ByAge(k))
  <2> DEFINE S == {j \in AgesStaying : j <= k}
             T == Above(Staying, ByAge(k))
             f == [j \in S |-> ByAge(j)]
  <2>0. AgesStaying \subseteq Ages
    BY DEF AgesStaying
  <2>1. IsFiniteSet(S)
    BY <1>4, <2>0, FS_Subset
  <2>2. \A j \in S : ByAge(j) \in T
    BY <1>2, <1>5, <2>0 DEF Above
  <2>3. f \in [S -> T]
    BY <2>2
  <2>4. \A i, j \in S : f[i] = f[j] => i = j
    BY <1>6, <2>0
  <2>5. ASSUME NEW i \in T PROVE \E j \in S : f[j] = i
    <3>1. i \in Staying /\ i >= ByAge(k)
      BY DEF Above
    <3>2. Age(i) \in AgesStaying /\ ByAge(Age(i)) = i
      BY <1>3, <3>1
    <3>3. Age(i) <= k
      BY <1>5, <2>0, <3>1, <3>2
    <3> QED
      BY <3>2, <3>3
  <2> HIDE DEF S, T, f
  <2>6. Cardinality(T) = Cardinality(S)
    BY <2>1, <2>3, <2>4, <2>5, SameSize
  <2> QED
    BY <2>6 DEF S, T, Position
<1> QED
  BY <1>2, <1>7, <1>8

-----------------------------------------------------------------------------
(* The element at a position is found there.                               *)
LEMMA FoundByAge ==
  CMTypeOK =>
    /\ \A k \in Ages : ByAge(k) \in Taken
    /\ \A i \in Taken, k \in Ages : k = Position(Taken, i) => ByAge(k) = i
BY ByAgeCorrect

(* The cardinality of the abstract module is that of this one.             *)
LEMMA SameCardinality == \A S : Elements!Cardinality(S) = Cardinality(S)
BY DEF Elements!Cardinality, Cardinality

(* Eval is the edge of the abstract queue.                                 *)
LEMMA EvalIsEdge ==
  ASSUME IInv, IInv', Eval
  PROVE  Elements!Edge
<1> DEFINE value(k) == IF payloadMod[ByAge(k)] = Keep THEN entries[ByAge(k)].payload
                       ELSE payloadMod[ByAge(k)]
           new(k)   == entries'[ByAge(k)'].payload
<1>0. (CMTypeOK =>
         /\ \A k \in Ages : ByAge(k) \in Taken
         /\ \A i \in Taken, k \in Ages : k = Position(Taken, i) => ByAge(k) = i)'
  BY FoundByAge, PTL
<1>1. Ages' = 1 .. Cardinality(Staying) + Cardinality(Pushed)
  BY EvalMoves, JoinedPositions DEF Ages
<1>2. ASSUME NEW i \in Joined, NEW k \in Ages', k = Position(Joined, i)
      PROVE  new(k) = Compressed(Target(i)).payload
  <2>1. Target(i) \in Taken' /\ k = Position(Taken', Target(i))
    BY <1>2, EvalMoves
  <2>2. CMTypeOK'
    BY DEF IInv
  <2>4. ByAge(k)' = Target(i)
    BY <1>0, <1>2, <2>1, <2>2
  <2>5. Target(i) \in Addresses
    BY <2>1 DEF Taken
  <2> QED
    BY <2>4, <2>5 DEF Eval
<1>3. Cardinality(Staying) \in Nat /\ Cardinality(AgesStaying) = Cardinality(Staying)
  <2>1. Staying \in SUBSET Addresses
    BY DEF Staying, Taken
  <2> QED
    BY <2>1, FiniteAddresses, StayingPositions
<1>4. ASSUME NEW k \in AgesStaying, NEW n,
             n = Cardinality({j \in AgesStaying : j <= k})
      PROVE  n \in Ages' /\ new(n) = value(k)
  <2> DEFINE i == ByAge(k)
  <2>1. i \in Staying /\ i \in Joined
    BY StayingPositions DEF Joined
  <2>2. n = Position(Joined, i)
    BY <1>4, <2>1, StayingPositions, JoinedPositions
  <2>3. n \in Ages'
    <3>1. Joined \in SUBSET Addresses
      BY DEF Joined, Staying, Taken, Pushed, IInv, CMTypeOK
    <3>2. Position(Joined, i) \in 1 .. Cardinality(Joined)
      BY <2>1, <3>1, Positions
    <3> QED
      BY <1>1, <2>2, <3>2, JoinedPositions
  <2>4. new(n) = Compressed(Target(i)).payload
    BY <1>2, <2>1, <2>2, <2>3
  <2>5. Compressed(Target(i)).payload = value(k)
    BY <2>1, StayingMoves
  <2> QED
    BY <2>3, <2>4, <2>5
<1>5. ASSUME NEW p \in Pushed, NEW n, n = Cardinality(Staying) + 1
      PROVE  n \in Ages' /\ new(n) = payloadMod[p]
  <2>1. p \in Joined /\ n = Position(Joined, p) /\ Cardinality(Pushed) = 1
    BY <1>5, JoinedPositions DEF Joined
  <2>2. n \in Ages'
    BY <1>1, <1>3, <1>5, <2>1
  <2> QED
    BY <1>2, <2>1, <2>2, PushedMoves
<1>6. /\ payloadMod' = [i \in Addresses |-> Keep]
      /\ validSet' = {} /\ validClear' = {} /\ Pushed' = {}
  BY DEF Eval, Reset, Pushed
<1> DEFINE staying == DOMAIN Items \ Leaving
<1>7. staying = AgesStaying
  BY DEF AgesStaying, Items
<1>8. Len(Incoming) = Cardinality(Pushed)
  BY JoinedPositions DEF Incoming
<1>9. DOMAIN Items' = 1 .. Cardinality(staying) + Len(Incoming)
  BY <1>1, <1>3, <1>7, <1>8 DEF Items
<1>10. \A k \in staying :
         Items'[Cardinality({j \in staying : j <= k})] =
           IF Changes[k] = Keep THEN Items[k] ELSE Changes[k]
  <2> SUFFICES ASSUME NEW k \in AgesStaying, NEW n,
                      n = Cardinality({j \in AgesStaying : j <= k})
               PROVE  Items'[n] = IF Changes[k] = Keep THEN Items[k] ELSE Changes[k]
    BY <1>7
  <2>1. n \in Ages' /\ new(n) = value(k)
    BY <1>4
  <2>2. Items'[n] = new(n)
    BY <2>1 DEF Items
  <2>3. k \in Ages
    BY DEF AgesStaying
  <2> QED
    BY <2>1, <2>2, <2>3 DEF Items, Changes
<1>11. \A k \in DOMAIN Incoming : Items'[Cardinality(staying) + k] = Incoming[k]
  <2> SUFFICES ASSUME Pushed # {}, NEW n, n = Cardinality(Staying) + 1
               PROVE  Items'[n] = payloadMod[CHOOSE i \in Pushed : TRUE]
    <3>1. \A k \in DOMAIN Incoming :
             /\ Pushed # {} /\ k = 1
             /\ Incoming[k] = payloadMod[CHOOSE i \in Pushed : TRUE]
      BY DEF Incoming
    <3> QED
      BY <1>3, <1>7, <3>1
  <2>1. PICK p \in Pushed : p = CHOOSE i \in Pushed : TRUE
    OBVIOUS
  <2>2. n \in Ages' /\ new(n) = payloadMod[p]
    BY <1>5
  <2> QED
    BY <2>1, <2>2 DEF Items
<1>12. Changes' = [k \in DOMAIN Items' |-> Keep]
  <2>1. \A k \in Ages' : ByAge(k)' \in Taken'
    BY <1>0 DEF IInv
  <2>2. Taken' \subseteq Addresses
    BY DEF Taken
  <2> QED
    BY <1>6, <2>1, <2>2 DEF Items, Changes
<1>13. Leaving' = {} /\ Incoming' = <<>>
  BY <1>6 DEF Leaving, Incoming
<1>14. DOMAIN Items' = 1 .. Elements!Cardinality(staying) + Len(Incoming)
  BY <1>9, SameCardinality
<1>15. \A k \in staying :
         Items'[Elements!Cardinality({j \in staying : j <= k})] =
           IF Changes[k] = Keep THEN Items[k] ELSE Changes[k]
  <2> HIDE DEF staying
  <2> QED
    BY <1>10, SameCardinality
<1>16. \A k \in DOMAIN Incoming :
         Items'[Elements!Cardinality(staying) + k] = Incoming[k]
  <2> HIDE DEF staying
  <2> QED
    BY <1>11, SameCardinality
<1> QED
  BY <1>12, <1>13, <1>14, <1>15, <1>16, Zenon DEF Elements!Edge

(* A step that leaves the entries alone leaves the ages alone.             *)
LEMMA SameAges ==
  ASSUME UNCHANGED entries
  PROVE  /\ Taken' = Taken /\ Ages' = Ages /\ Items' = Items
         /\ \A k \in Ages : ByAge(k)' = ByAge(k)
<1>1. Taken' = Taken /\ Ages' = Ages
  BY DEF Taken, Ages
<1>2. \A k : ByAge(k)' = ByAge(k)
  BY <1>1 DEF ByAge, Age
<1>3. Items' = Items
  BY <1>1, <1>2 DEF Items
<1> QED
  BY <1>1, <1>2, <1>3

(* Without elements the abstract queue is empty.                           *)
LEMMA NoElements ==
  ASSUME \A i \in Addresses : ~entries[i].valid
  PROVE  Items = <<>> /\ Changes = <<>> /\ Leaving = {}
<1>1. Taken = {}
  BY DEF Taken
<1>2. Ages = {}
  BY <1>1, FS_EmptySet DEF Ages
<1> QED
  BY <1>2 DEF Items, Changes, Leaving

(* The free entry is not among the elements, so there is room for another. *)
LEMMA RoomForOne ==
  ASSUME IInv, NEW p \in Addresses, ~entries[p].valid
  PROVE  Len(Items) < Size
<1>1. Taken \in SUBSET Addresses /\ p \notin Taken
  BY DEF Taken
<1>2. IsFiniteSet(Addresses) /\ Cardinality(Addresses) = Size
  BY MemoryAssumption, FS_Interval DEF Addresses
<1>3. /\ Cardinality(Taken) \in Nat /\ Cardinality(Taken) <= Size
      /\ Cardinality(Taken) # Size
  BY <1>1, <1>2, FiniteAddresses, FS_Subset
<1>4. Len(Items) = Cardinality(Taken)
  BY <1>3 DEF Items, Ages
<1> QED
  BY <1>3, <1>4, MemoryAssumption

LEMMA PushIsJoin ==
  ASSUME IInv, NEW payload \in Payload, Push(payload)
  PROVE  Elements!Join(payload)
<1> DEFINE p == NextTopAddress
<1>1. p \in Addresses /\ ~entries[p].valid
  BY NextTop, MemoryAssumption DEF Push, IInv, Addresses
<1>2. /\ payloadMod' = [payloadMod EXCEPT ![p] = payload]
      /\ validSet' = validSet \cup {p} /\ validClear' = validClear \ {p}
      /\ UNCHANGED entries
  BY DEF Push, SetPayload, SetValid
<1>3. Pushed \subseteq {p}
  BY DEF IInv, ModifiedInUse, Pushed, CMTypeOK
<1> HIDE DEF p
<1>4. Pushed' = {p}
  BY <1>1, <1>2, <1>3 DEF Pushed
<1>5. p \in DOMAIN payloadMod
  BY <1>1 DEF IInv, CMTypeOK
<1>6. Incoming' = <<payload>>
  <2>1. payloadMod'[p] = payload
    BY <1>2, <1>5
  <2>2. (CHOOSE i \in Pushed' : TRUE) = p
    BY <1>4
  <2> QED
    BY <1>4, <2>1, <2>2 DEF Incoming
<1>7. Ages' = Ages /\ Items' = Items /\ \A k \in Ages : ByAge(k)' = ByAge(k)
  BY <1>2, SameAges
<1>8. \A k \in Ages : ByAge(k) \in Addresses /\ ByAge(k) # p
  BY <1>1, ByAgeCorrect DEF IInv, Taken
<1>9. Changes' = Changes
  BY <1>2, <1>5, <1>7, <1>8 DEF Changes, IInv, CMTypeOK
<1>10. Leaving' = Leaving
  BY <1>2, <1>7, <1>8 DEF Leaving
<1>11. Len(Items) < Size
  BY <1>1, RoomForOne
<1> QED
  BY <1>6, <1>7, <1>9, <1>10, <1>11 DEF Elements!Join

LEMMA UpdateIsChangeOrJoin ==
  ASSUME IInv, NEW address \in Addresses, NEW payload \in Payload,
         Update(address, payload)
  PROVE  Elements!Next
<1>1. /\ payloadMod' = [payloadMod EXCEPT ![address] = payload]
      /\ UNCHANGED <<entries, validSet, validClear>>
      /\ address \in DOMAIN payloadMod
  BY DEF Update, SetPayload, IInv, CMTypeOK
<1>2. Ages' = Ages /\ Items' = Items /\ \A k \in Ages : ByAge(k)' = ByAge(k)
  BY <1>1, SameAges
<1>3. Leaving' = Leaving /\ Pushed' = Pushed
  BY <1>1, <1>2 DEF Leaving, Pushed
<1>4. \A k \in Ages : ByAge(k) \in Addresses /\ ByAge(k) \in Taken
  BY ByAgeCorrect DEF IInv, Taken
<1>5. CASE entries[address].valid
  <2> DEFINE n == Age(address)
  <2>1. n \in Ages /\ ByAge(n) = address
    BY <1>5, ByAgeCorrect DEF IInv, Taken
  <2>2. \A k \in Ages : ByAge(k) = address <=> k = n
    BY <2>1, ByAgeCorrect DEF IInv
  <2> HIDE DEF n
  <2>3. Changes' = [Changes EXCEPT ![n] = payload]
    BY <1>1, <1>2, <1>4, <2>1, <2>2 DEF Changes, IInv, CMTypeOK
  <2>4. Incoming' = Incoming
    <3>1. CASE Pushed = {}
      BY <1>3, <3>1 DEF Incoming
    <3>2. CASE Pushed # {}
      <4>1. PICK p \in Pushed : p = CHOOSE i \in Pushed : TRUE
        BY <3>2
      <4>2. p # address /\ p \in Addresses
        BY <1>5, PushedIsNext DEF Pushed
      <4>3. payloadMod'[p] = payloadMod[p]
        BY <1>1, <4>2 DEF IInv, CMTypeOK
      <4> QED
        BY <1>3, <3>2, <4>1, <4>3 DEF Incoming
    <3> QED
      BY <3>1, <3>2
  <2>5. n \in DOMAIN Items
    BY <2>1 DEF Items
  <2>6. Elements!Change(n, payload)
    BY <1>2, <1>3, <2>3, <2>4 DEF Elements!Change
  <2> QED
    BY <2>5, <2>6 DEF Elements!Next
<1>6. CASE ~entries[address].valid
  <2>1. address \in Pushed
    BY <1>6 DEF Update, InUse, Pushed
  <2>2. Pushed = {address}
    BY <2>1, PushedIsNext
  <2>3. Incoming' = <<payload>>
    <3>1. payloadMod'[address] = payload
      BY <1>1
    <3>2. (CHOOSE i \in Pushed' : TRUE) = address
      BY <1>3, <2>2
    <3> QED
      BY <1>3, <2>2, <3>1, <3>2 DEF Incoming
  <2>4. Changes' = Changes
    <3>1. \A k \in Ages : ByAge(k) # address
      BY <1>4, <1>6 DEF Taken
    <3> QED
      BY <1>1, <1>2, <1>4, <3>1 DEF Changes, IInv, CMTypeOK
  <2>5. Len(Items) < Size
    BY <1>6, RoomForOne
  <2>6. Elements!Join(payload)
    BY <1>2, <1>3, <2>3, <2>4, <2>5 DEF Elements!Join
  <2> QED
    BY <2>6 DEF Elements!Next
<1> QED
  BY <1>5, <1>6

LEMMA FlagIsLeaveOrRemain ==
  ASSUME IInv, NEW address \in Addresses, NEW valid \in BOOLEAN,
         Flag(address, valid)
  PROVE  [Elements!Next]_Elements!ageVars
<1>1. /\ UNCHANGED <<entries, payloadMod>>
      /\ \/ validSet' = validSet \cup {address} /\ validClear' = validClear \ {address}
         \/ validSet' = validSet \ {address} /\ validClear' = validClear \cup {address}
  BY DEF Flag, SetValid
<1>2. Ages' = Ages /\ Items' = Items /\ \A k \in Ages : ByAge(k)' = ByAge(k)
  BY <1>1, SameAges
<1>3. Changes' = Changes
  BY <1>1, <1>2 DEF Changes
<1>4. CASE entries[address].valid
  <2> DEFINE n == Age(address)
  <2>1. n \in Ages /\ ByAge(n) = address
    BY <1>4, ByAgeCorrect DEF IInv, Taken
  <2>2. \A k \in Ages : ByAge(k) = address <=> k = n
    BY <2>1, ByAgeCorrect DEF IInv
  <2> HIDE DEF n
  <2>3. Pushed' = Pushed
    BY <1>1, <1>4 DEF Pushed
  <2>4. Incoming' = Incoming
    BY <1>1, <2>3 DEF Incoming
  <2>5. n \in DOMAIN Items
    BY <2>1 DEF Items
  <2>6. Leaving' = Leaving \ {n} \/ Leaving' = Leaving \cup {n}
    BY <1>1, <1>2, <2>1, <2>2 DEF Leaving
  <2>7. Elements!Remain(n) \/ Elements!Leave(n)
    BY <1>2, <1>3, <2>4, <2>6 DEF Elements!Remain, Elements!Leave
  <2> QED
    BY <2>5, <2>7 DEF Elements!Next
<1>5. CASE ~entries[address].valid
  <2>1. address \in Pushed /\ address \in validSet
    BY <1>5 DEF Flag, InUse, Pushed
  <2>2. Pushed = {address} /\ address \notin validClear
    BY <2>1, PushedIsNext
  <2>3. \A k \in Ages : ByAge(k) # address
    BY <1>5, ByAgeCorrect DEF IInv, Taken
  <2>4. Leaving' = Leaving
    BY <1>1, <1>2, <2>3 DEF Leaving
  <2>5. CASE validSet' = validSet \cup {address}
    <3>1. Pushed' = Pushed
      BY <1>1, <2>1, <2>5 DEF Pushed
    <3>2. Incoming' = Incoming
      BY <1>1, <3>1 DEF Incoming
    <3> QED
      BY <1>2, <1>3, <2>4, <3>2 DEF Elements!ageVars
  <2>6. CASE validSet' = validSet \ {address}
    <3>1. Pushed' = {}
      BY <1>1, <2>2, <2>6 DEF Pushed
    <3>2. Incoming' = <<>>
      BY <3>1 DEF Incoming
    <3>3. Elements!Stay
      BY <1>2, <1>3, <2>4, <3>2 DEF Elements!Stay
    <3> QED
      BY <3>3 DEF Elements!Next
  <2> QED
    BY <1>1, <2>5, <2>6
<1> QED
  BY <1>4, <1>5

LEMMA ResetIsWithdraw ==
  ASSUME IInv, ResetInput
  PROVE  Elements!Withdraw
<1>1. /\ UNCHANGED entries /\ payloadMod' = [i \in Addresses |-> Keep]
      /\ validSet' = {} /\ validClear' = {}
  BY DEF ResetInput, Reset
<1>2. Ages' = Ages /\ Items' = Items /\ \A k \in Ages : ByAge(k)' = ByAge(k)
  BY <1>1, SameAges
<1>3. \A k \in Ages : ByAge(k) \in Addresses
  BY ByAgeCorrect DEF IInv, Taken
<1>4. Changes' = [k \in DOMAIN Items |-> Keep]
  BY <1>1, <1>2, <1>3 DEF Changes, Items
<1>5. Leaving' = {} /\ Incoming' = <<>>
  BY <1>1 DEF Leaving, Incoming, Pushed
<1> QED
  BY <1>2, <1>4, <1>5 DEF Elements!Withdraw, Elements!Unchanged

LEMMA ClearIsEmpty ==
  ASSUME NoModification, Clear
  PROVE  Elements!Empty
<1>1. \A i \in Addresses : ~entries'[i].valid
  BY DEF Clear
<1>2. Taken' = {}
  BY <1>1 DEF Taken
<1>3. Ages' = {}
  BY <1>2, FS_EmptySet DEF Ages
<1>4. Items' = <<>> /\ Changes' = <<>> /\ Leaving' = {}
  BY <1>3 DEF Items, Changes, Leaving
<1>5. Incoming' = <<>>
  BY DEF Incoming, Pushed, NoModification, Clear, cmMod
<1> QED
  BY <1>4, <1>5 DEF Elements!Empty

(* For every size the compressing memory implements the queue that keeps   *)
(* the age of its elements: whatever joins, leaves, moves and is modified  *)
(* in one cycle, nothing is lost, doubled, overtaken or given the          *)
(* modification of another.                                                *)
THEOREM MemoryImplementation == CMSpec => ImplementsAgeQueue
<1>1. CMInit => Elements!Init
  <2> SUFFICES ASSUME CMInit PROVE Elements!Init
    OBVIOUS
  <2>1. Items = <<>> /\ Changes = <<>> /\ Leaving = {}
    BY NoElements DEF CMInit
  <2>2. Incoming = <<>>
    BY DEF CMInit, NoModification, Incoming, Pushed
  <2> QED
    BY <2>1, <2>2 DEF Elements!Init
<1>2. IInv /\ IInv' /\ [CMNext]_cmVars => [Elements!Next]_Elements!ageVars
  <2> SUFFICES ASSUME IInv, IInv', [CMNext]_cmVars
               PROVE  [Elements!Next]_Elements!ageVars
    OBVIOUS
  <2>1. ASSUME NEW payload \in Payload, Push(payload)
        PROVE  Elements!Next
    BY <2>1, PushIsJoin DEF Elements!Next
  <2>2. ASSUME NEW address \in Addresses, NEW payload \in Payload, Update(address, payload)
        PROVE  Elements!Next
    BY <2>2, UpdateIsChangeOrJoin
  <2>3. ASSUME NEW address \in Addresses, NEW valid \in BOOLEAN, Flag(address, valid)
        PROVE  [Elements!Next]_Elements!ageVars
    BY <2>3, FlagIsLeaveOrRemain
  <2>4. CASE ResetInput
    BY <2>4, ResetIsWithdraw DEF Elements!Next
  <2>5. CASE NoModification /\ Clear
    BY <2>5, ClearIsEmpty DEF Elements!Next
  <2>6. CASE Eval
    BY <2>6, EvalIsEdge DEF Elements!Next
  <2>7. CASE UNCHANGED cmVars
    <3>1. UNCHANGED <<entries, payloadMod, validSet, validClear>>
      BY <2>7 DEF cmVars, cmMod
    <3>2. Ages' = Ages /\ Items' = Items /\ \A k \in Ages : ByAge(k)' = ByAge(k)
      BY <3>1, SameAges
    <3>3. UNCHANGED <<Changes, Leaving, Incoming>>
      BY <3>1, <3>2 DEF Changes, Leaving, Incoming, Pushed
    <3> QED
      BY <3>2, <3>3 DEF Elements!ageVars
  <2> QED
    BY <2>1, <2>2, <2>3, <2>4, <2>5, <2>6, <2>7 DEF CMNext
<1>3. CMSpec => []IInv
  BY MemoryInductive
<1> QED
  BY <1>1, <1>2, <1>3, PTL DEF CMSpec, Elements!Spec, ImplementsAgeQueue
=============================================================================
