------------------------------ MODULE CsrProofs ------------------------------
(***************************************************************************)
(* Proofs about the spaces of control and status registers, for any spaces *)
(* and addresses: every pointer has an object of its own, a register that  *)
(* is replaced is all that is ever lost, and a space is a map.             *)
(***************************************************************************)
EXTENDS CsrSpace, TLAPS

CsrSpec == CsrInit /\ [][CsrNext]_csrVars

(* The arrays below the root of a space.                                   *)
L1(s, i)    == <<s, <<i>>>>
L2(s, i, j) == <<s, <<i, j>>>>

Arrays == DOMAIN array

Triples == Nibbles \X Nibbles \X Nibbles

(* What the array of the last level points to, None if there is no array.  *)
Reg(s, a) == IF L2(s, a[1], a[2]) \in Arrays THEN array[L2(s, a[1], a[2])][a[3]] ELSE None

(* No array is another, nor a register.                                    *)
LEMMA ArraysDiffer ==
  /\ \A s, t : Root(s) = Root(t) <=> s = t
  /\ \A s, t, i, l : L1(s, i) = L1(t, l) <=> s = t /\ i = l
  /\ \A s, t, i, j, l, m : L2(s, i, j) = L2(t, l, m) <=> s = t /\ i = l /\ j = m
  /\ \A s, t, l : Root(s) # L1(t, l)
  /\ \A s, t, l, m : Root(s) # L2(t, l, m)
  /\ \A s, t, i, l, m : L1(s, i) # L2(t, l, m)
BY DEF Root, L1, L2

LEMMA RegistersApart ==
  ASSUME NEW o \in Heap
  PROVE  \A s, i, j : o # Root(s) /\ o # L1(s, i) /\ o # L2(s, i, j)
<1>1. PICK x \in Spaces, a \in Addresses, n \in Nat : o = <<x, a, n>>
  BY CsrAssumption
<1>2. \A s, q : <<x, a, n>> # <<s, q>>
  OBVIOUS
<1> QED
  BY <1>1, <1>2 DEF Root, L1, L2

(* The paths to an address.                                                *)
LEMMA Paths ==
  ASSUME NEW a \in Addresses
  PROVE  /\ a[1] \in Nibbles /\ a[2] \in Nibbles /\ a[3] \in Nibbles
         /\ Path(a, 1) = <<a[1]>> /\ Path(a, 2) = <<a[1], a[2]>>
         /\ a = <<a[1], a[2], a[3]>>
<1>1. a = <<a[1], a[2], a[3]>>
  BY CsrAssumption
<1>2. a[1] \in Nibbles /\ a[2] \in Nibbles /\ a[3] \in Nibbles
  BY DEF Nibbles
<1>3. a \in Seq(Nibbles) /\ Len(a) = 3
  <2>1. <<a[1], a[2], a[3]>> \in Seq(Nibbles) /\ Len(<<a[1], a[2], a[3]>>) = 3
    BY <1>2
  <2> QED
    BY <1>1, <2>1, Zenon
<1>4. Path(a, 1) = <<a[1]>> /\ Path(a, 2) = <<a[1], a[2]>>
  <2> DEFINE p == SubSeq(a, 1, 1)
             q == SubSeq(a, 1, 2)
  <2>1. p \in Seq(Nibbles) /\ Len(p) = 1 /\ p[1] = a[1]
    BY <1>3
  <2>2. q \in Seq(Nibbles) /\ Len(q) = 2 /\ q[1] = a[1] /\ q[2] = a[2]
    BY <1>3
  <2>3. p = <<a[1]>> /\ q = <<a[1], a[2]>>
    <3> HIDE DEF p, q
    <3> QED
      BY <2>1, <2>2
  <2> QED
    BY <2>3 DEF Path
<1> QED
  BY <1>1, <1>2, <1>4

LEMMA Tripled ==
  /\ Addresses \subseteq Triples
  /\ \A a \in Triples :
       a[1] \in Nibbles /\ a[2] \in Nibbles /\ a[3] \in Nibbles /\ a = <<a[1], a[2], a[3]>>
  /\ \A i, j, k \in Nibbles : <<i, j, k>> \in Triples
<1>1. \A i, j, k \in Nibbles : <<i, j, k>> \in Triples
  BY DEF Triples
<1>2. ASSUME NEW a \in Addresses PROVE a \in Triples
  <2> DEFINE b == <<a[1], a[2], a[3]>>
  <2>1. a = b
    BY Paths
  <2>2. b \in Triples
    BY <1>1, Paths
  <2> HIDE DEF b
  <2> QED
    BY <2>1, <2>2
<1>3. \A a \in Triples :
        a[1] \in Nibbles /\ a[2] \in Nibbles /\ a[3] \in Nibbles /\ a = <<a[1], a[2], a[3]>>
  BY DEF Triples
<1> QED
  BY <1>1, <1>2, <1>3

LEMMA NoNullObject ==
  ASSUME NEW s \in Spaces, NEW i \in Nibbles, NEW j \in Nibbles
  PROVE  None # Root(s) /\ None # L1(s, i) /\ None # L2(s, i, j)
<1>1. <<>> \in Seq(Nibbles) /\ <<i>> \in Seq(Nibbles) /\ <<i, j>> \in Seq(Nibbles)
  OBVIOUS
<1>2. \A q \in Seq(Nibbles) : None # <<s, q>>
  BY CsrAssumption
<1> QED
  BY <1>1, <1>2 DEF Root, L1, L2

(* A new register has a place of its own.                                  *)
LEMMA Allocation ==
  ASSUME NEW s, NEW a, Free(s, a) # {}
  PROVE  /\ Allocated(s, a) \in Heap \ DOMAIN value /\ Allocated(s, a) # None
         /\ Allocated(s, a)[1] = s /\ Allocated(s, a)[2] = a
<1>1. Allocated(s, a) \in Free(s, a)
  BY DEF Allocated
<1> QED
  BY <1>1, CsrAssumption DEF Free

-----------------------------------------------------------------------------
(* An array belongs to a space and hangs at an array that is live.         *)
Rooted ==
  /\ \A o \in Arrays :
       \E s \in Spaces :
         \/ o = Root(s)
         \/ \E i \in Nibbles : o = L1(s, i) /\ Root(s) \in Arrays
         \/ \E i, j \in Nibbles : o = L2(s, i, j) /\ L1(s, i) \in Arrays

(* A pointer is null exactly where the array it would lead to is not live. *)
Linked ==
  /\ \A s \in Spaces, i \in Nibbles : Root(s) \in Arrays =>
       array[Root(s)][i] = IF L1(s, i) \in Arrays THEN L1(s, i) ELSE None
  /\ \A s \in Spaces, i, j \in Nibbles : L1(s, i) \in Arrays =>
       array[L1(s, i)][j] = IF L2(s, i, j) \in Arrays THEN L2(s, i, j) ELSE None

(* A register that is pointed to is live and was made for that place.      *)
Held ==
  \A s \in Spaces, a \in Triples : Reg(s, a) # None =>
    Reg(s, a) \in DOMAIN value /\ Reg(s, a)[1] = s /\ Reg(s, a)[2] = a

Typed ==
  /\ array = [o \in Arrays |-> array[o]]
  /\ \A o \in Arrays : array[o] = [i \in Nibbles |-> array[o][i]]
  /\ DOMAIN value \subseteq Heap
  /\ value \in [DOMAIN value -> Values]

IInv == Typed /\ Rooted /\ Linked /\ Held

(* The parents of what is live.                                            *)
LEMMA Parents ==
  ASSUME Rooted
  PROVE  /\ \A s \in Spaces, i \in Nibbles : L1(s, i) \in Arrays => Root(s) \in Arrays
         /\ \A s \in Spaces, i, j \in Nibbles : L2(s, i, j) \in Arrays => L1(s, i) \in Arrays
<1>1. ASSUME NEW s \in Spaces, NEW i \in Nibbles, L1(s, i) \in Arrays
      PROVE  Root(s) \in Arrays
  <2>1. PICK t \in Spaces :
          \/ L1(s, i) = Root(t)
          \/ \E l \in Nibbles : L1(s, i) = L1(t, l) /\ Root(t) \in Arrays
          \/ \E l, m \in Nibbles : L1(s, i) = L2(t, l, m) /\ L1(t, l) \in Arrays
    BY <1>1 DEF Rooted
  <2> QED
    BY <2>1, ArraysDiffer
<1>2. ASSUME NEW s \in Spaces, NEW i \in Nibbles, NEW j \in Nibbles, L2(s, i, j) \in Arrays
      PROVE  L1(s, i) \in Arrays
  <2>1. PICK t \in Spaces :
          \/ L2(s, i, j) = Root(t)
          \/ \E l \in Nibbles : L2(s, i, j) = L1(t, l) /\ Root(t) \in Arrays
          \/ \E l, m \in Nibbles : L2(s, i, j) = L2(t, l, m) /\ L1(t, l) \in Arrays
    BY <1>2 DEF Rooted
  <2> QED
    BY <2>1, ArraysDiffer
<1> QED
  BY <1>1, <1>2

(* Where a register is pointed to.                                         *)
LEMMA Registers ==
  ASSUME IInv, NEW s \in Spaces, NEW a \in Triples, Reg(s, a) # None
  PROVE  /\ Root(s) \in Arrays /\ L2(s, a[1], a[2]) \in Arrays
         /\ Reg(s, a) \in DOMAIN value /\ Reg(s, a) \in Heap
         /\ Reg(s, a)[1] = s /\ Reg(s, a)[2] = a
         /\ a \in Addresses
<1>1. L2(s, a[1], a[2]) \in Arrays
  BY DEF Reg
<1>2. Root(s) \in Arrays
  BY <1>1, Parents, Tripled DEF IInv
<1>3. Reg(s, a) \in DOMAIN value /\ Reg(s, a)[1] = s /\ Reg(s, a)[2] = a
  BY DEF IInv, Held
<1>4. Reg(s, a) \in Heap
  BY <1>3 DEF IInv, Typed
<1>5. Reg(s, a)[2] \in Addresses
  BY <1>4, CsrAssumption
<1> QED
  BY <1>1, <1>2, <1>3, <1>4, <1>5

LEMMA RegistersDiffer ==
  ASSUME IInv, NEW s \in Spaces, NEW a \in Triples, Reg(s, a) # None,
         NEW t \in Spaces, NEW b \in Triples, Reg(s, a) = Reg(t, b)
  PROVE  s = t /\ a = b
BY Registers

(* GetCSR returns what the last level points to.                           *)
LEMMA Found ==
  ASSUME IInv, NEW s \in Spaces, NEW a \in Addresses, IsConstructed(s)
  PROVE  GetCSR(s, a) = Reg(s, a)
<1> DEFINE i == a[1]
           j == a[2]
           k == a[3]
<1>1. i \in Nibbles /\ j \in Nibbles /\ k \in Nibbles
  BY Paths
<1>2. GetCSR(s, a) = Pointer(Pointer(Pointer(Root(s), i), j), k)
  BY DEF GetCSR
<1>3. Reg(s, a) = IF L2(s, i, j) \in Arrays THEN array[L2(s, i, j)][k] ELSE None
  BY DEF Reg
<1> HIDE DEF i, j, k
<1>4. None # Root(s) /\ None # L1(s, i) /\ None # L2(s, i, j)
  BY <1>1, NoNullObject
<1>5. Root(s) \in Arrays
  BY DEF IsConstructed, Arrays
<1>6. Pointer(Root(s), i) = IF L1(s, i) \in Arrays THEN L1(s, i) ELSE None
  BY <1>1, <1>4, <1>5 DEF Pointer, IInv, Linked
<1>7. Pointer(Pointer(Root(s), i), j) = IF L2(s, i, j) \in Arrays THEN L2(s, i, j) ELSE None
  <2>1. CASE L1(s, i) \in Arrays
    BY <1>1, <1>4, <1>6, <2>1 DEF Pointer, IInv, Linked
  <2>2. CASE L1(s, i) \notin Arrays
    <3>1. L2(s, i, j) \notin Arrays
      BY <1>1, <2>2, Parents DEF IInv
    <3> QED
      BY <1>6, <2>2, <3>1 DEF Pointer
  <2> QED
    BY <2>1, <2>2
<1>8. Pointer(Pointer(Pointer(Root(s), i), j), k) = Reg(s, a)
  BY <1>3, <1>4, <1>7 DEF Pointer
<1> QED
  BY <1>2, <1>8

(* What the copies and the destructors of the three levels reach.          *)
LEMMA Reached ==
  ASSUME IInv, NEW s \in Spaces, IsConstructed(s)
  PROVE  /\ L1s(s) = {L1(s, i) : i \in Nibbles} \cap Arrays
         /\ L2s(s) = {L2(s, p[1], p[2]) : p \in Nibbles \X Nibbles} \cap Arrays
         /\ \A o : o \in CSRs(s) <=>
              o # None /\ \E a \in Triples : o = Reg(s, a)
<1>0. Root(s) \in Arrays
  BY DEF IsConstructed, Arrays
<1>1. L1s(s) = {L1(s, i) : i \in Nibbles} \cap Arrays
  <2>1. \A i \in Nibbles :
          /\ array[Root(s)][i] = IF L1(s, i) \in Arrays THEN L1(s, i) ELSE None
          /\ L1(s, i) # None
    BY <1>0, NoNullObject DEF IInv, Linked
  <2> QED
    BY <2>1 DEF L1s, Children
<1>2. L2s(s) = {L2(s, p[1], p[2]) : p \in Nibbles \X Nibbles} \cap Arrays
  <2>1. \A i, j \in Nibbles :
          /\ L1(s, i) \in Arrays =>
               array[L1(s, i)][j] = IF L2(s, i, j) \in Arrays THEN L2(s, i, j) ELSE None
          /\ L2(s, i, j) \in Arrays => L1(s, i) \in Arrays
          /\ L2(s, i, j) # None
    BY NoNullObject, Parents DEF IInv, Linked
  <2>2. \A i \in Nibbles : L1(s, i) \in Arrays =>
          Children(L1(s, i)) = {L2(s, i, j) : j \in Nibbles} \cap Arrays
    BY <2>1 DEF Children
  <2>3. ASSUME NEW o PROVE o \in L2s(s) <=> \E i, j \in Nibbles : o = L2(s, i, j) /\ o \in Arrays
    BY <1>1, <2>1, <2>2 DEF L2s
  <2>4. ASSUME NEW o
        PROVE  o \in {L2(s, p[1], p[2]) : p \in Nibbles \X Nibbles} <=>
                 \E i, j \in Nibbles : o = L2(s, i, j)
    <3>1. ASSUME NEW i \in Nibbles, NEW j \in Nibbles, o = L2(s, i, j)
          PROVE  o \in {L2(s, p[1], p[2]) : p \in Nibbles \X Nibbles}
      <4>1. <<i, j>> \in Nibbles \X Nibbles /\ o = L2(s, <<i, j>>[1], <<i, j>>[2])
        BY <3>1
      <4> QED
        BY <4>1
    <3> QED
      BY <3>1
  <2> QED
    BY <2>3, <2>4
<1>3. ASSUME NEW o
      PROVE  o \in CSRs(s) <=> o # None /\ \E a \in Triples : o = Reg(s, a)
  <2>1. \A i, j \in Nibbles : L2(s, i, j) \in Arrays =>
          Children(L2(s, i, j)) = {Reg(s, <<i, j, k>>) : k \in Nibbles} \ {None}
    BY DEF Children, Reg
  <2>2. ASSUME o \in CSRs(s)
        PROVE  o # None /\ \E a \in Triples : o = Reg(s, a)
    <3>1. PICK q \in L2s(s) : o \in Children(q)
      BY <2>2 DEF CSRs
    <3>2. PICK p \in Nibbles \X Nibbles : q = L2(s, p[1], p[2]) /\ q \in Arrays
      BY <1>2, <3>1
    <3>3. p[1] \in Nibbles /\ p[2] \in Nibbles
      BY <3>2
    <3>4. o \in {Reg(s, <<p[1], p[2], k>>) : k \in Nibbles} \ {None}
      BY <2>1, <3>1, <3>2, <3>3
    <3> QED
      BY <3>3, <3>4, Tripled
  <2>3. ASSUME NEW a \in Triples, o = Reg(s, a), o # None
        PROVE  o \in CSRs(s)
    <3>0. PICK i \in Nibbles, j \in Nibbles, k \in Nibbles : a = <<i, j, k>>
      BY Tripled
    <3>1. L2(s, i, j) \in Arrays
      BY <2>3, <3>0 DEF Reg
    <3>2. o \in Children(L2(s, i, j))
      BY <2>1, <2>3, <3>0, <3>1
    <3>3. L2(s, i, j) \in L2s(s)
      <4>1. <<i, j>> \in Nibbles \X Nibbles /\ L2(s, i, j) = L2(s, <<i, j>>[1], <<i, j>>[2])
        OBVIOUS
      <4> QED
        BY <1>2, <3>1, <4>1
    <3> QED
      BY <3>2, <3>3 DEF CSRs
  <2> QED
    BY <2>2, <2>3
<1> QED
  BY <1>1, <1>2, <1>3

(* A pointer that is not null leads to the object one level below.         *)
LEMMA Pointers ==
  ASSUME IInv, NEW o \in Arrays, NEW i \in Nibbles, array[o][i] # None
  PROVE  \E s \in Spaces :
           \/ o = Root(s) /\ array[o][i] = L1(s, i) /\ L1(s, i) \in Arrays
           \/ \E j \in Nibbles :
                o = L1(s, j) /\ array[o][i] = L2(s, j, i) /\ L2(s, j, i) \in Arrays
           \/ \E j, k \in Nibbles : o = L2(s, j, k) /\ array[o][i] = Reg(s, <<j, k, i>>)
<1>1. PICK s \in Spaces :
        \/ o = Root(s)
        \/ \E j \in Nibbles : o = L1(s, j)
        \/ \E j, k \in Nibbles : o = L2(s, j, k)
  BY DEF IInv, Rooted
<1>2. CASE o = Root(s)
  BY <1>2 DEF IInv, Linked
<1>3. ASSUME NEW j \in Nibbles, o = L1(s, j)
      PROVE  array[o][i] = L2(s, j, i) /\ L2(s, j, i) \in Arrays
  BY <1>3 DEF IInv, Linked
<1>4. ASSUME NEW j \in Nibbles, NEW k \in Nibbles, o = L2(s, j, k)
      PROVE  array[o][i] = Reg(s, <<j, k, i>>)
  BY <1>4 DEF Reg
<1> QED
  BY <1>1, <1>2, <1>3, <1>4

(* Every slot and what it points to.                                       *)
LEMMA SlotsLead ==
  ASSUME IInv, NEW p \in Slots
  PROVE  /\ p[1] \in Arrays /\ p[2] \in Nibbles /\ p = <<p[1], p[2]>> /\ Target(p) # None
         /\ \E s \in Spaces :
              \/ p[1] = Root(s) /\ Target(p) = L1(s, p[2]) /\ Target(p) \in Arrays
              \/ \E j \in Nibbles :
                   p[1] = L1(s, j) /\ Target(p) = L2(s, j, p[2]) /\ Target(p) \in Arrays
              \/ \E j, k \in Nibbles : p[1] = L2(s, j, k) /\ Target(p) = Reg(s, <<j, k, p[2]>>)
<1>1. p[1] \in Arrays /\ p[2] \in Nibbles /\ p = <<p[1], p[2]>> /\ Target(p) # None
  BY DEF Slots, Arrays, Target
<1>2. Target(p) = array[p[1]][p[2]]
  BY DEF Target
<1>3. \E s \in Spaces :
         \/ p[1] = Root(s) /\ Target(p) = L1(s, p[2]) /\ L1(s, p[2]) \in Arrays
         \/ \E j \in Nibbles :
              p[1] = L1(s, j) /\ Target(p) = L2(s, j, p[2]) /\ L2(s, j, p[2]) \in Arrays
         \/ \E j, k \in Nibbles : p[1] = L2(s, j, k) /\ Target(p) = Reg(s, <<j, k, p[2]>>)
  BY <1>1, <1>2, Pointers
<1> QED
  BY <1>1, <1>3

LEMMA SlotOf ==
  ASSUME NEW x \in Arrays, NEW i \in Nibbles, array[x][i] # None
  PROVE  \E p \in Slots : Target(p) = array[x][i]
<1>1. <<x, i>> \in Slots /\ Target(<<x, i>>) = array[x][i]
  BY DEF Arrays, Slots, Target
<1> QED
  BY <1>1

LEMMA OwnedOnce == IInv => OneOwner
<1> SUFFICES ASSUME IInv PROVE OneOwner
  OBVIOUS
<1>1. ASSUME NEW p \in Slots
      PROVE  Target(p) \in DOMAIN array \cup DOMAIN value
  <2>1. ASSUME NEW s \in Spaces, NEW j \in Nibbles, NEW k \in Nibbles,
               Target(p) = Reg(s, <<j, k, p[2]>>)
        PROVE  Target(p) \in DOMAIN value
    <3>1. p[2] \in Nibbles /\ Target(p) # None
      BY SlotsLead
    <3> QED
      BY <2>1, <3>1, Registers, Tripled
  <2>2. p[2] \in Nibbles
    BY SlotsLead
  <2>3. PICK s \in Spaces :
          \/ p[1] = Root(s) /\ Target(p) = L1(s, p[2]) /\ Target(p) \in Arrays
          \/ \E j \in Nibbles :
               p[1] = L1(s, j) /\ Target(p) = L2(s, j, p[2]) /\ Target(p) \in Arrays
          \/ \E j, k \in Nibbles : p[1] = L2(s, j, k) /\ Target(p) = Reg(s, <<j, k, p[2]>>)
    BY SlotsLead
  <2> QED
    BY <2>1, <2>3 DEF Arrays
<1>2. ASSUME NEW p \in Slots, NEW q \in Slots, Target(p) = Target(q) PROVE p = q
  <2>1. PICK s \in Spaces :
          \/ p[1] = Root(s) /\ Target(p) = L1(s, p[2])
          \/ \E j \in Nibbles : p[1] = L1(s, j) /\ Target(p) = L2(s, j, p[2])
          \/ \E j, k \in Nibbles : p[1] = L2(s, j, k) /\ Target(p) = Reg(s, <<j, k, p[2]>>)
    BY SlotsLead
  <2>2. PICK t \in Spaces :
          \/ q[1] = Root(t) /\ Target(q) = L1(t, q[2])
          \/ \E j \in Nibbles : q[1] = L1(t, j) /\ Target(q) = L2(t, j, q[2])
          \/ \E j, k \in Nibbles : q[1] = L2(t, j, k) /\ Target(q) = Reg(t, <<j, k, q[2]>>)
    BY SlotsLead
  <2>3. /\ p = <<p[1], p[2]>> /\ q = <<q[1], q[2]>> /\ Target(p) # None
        /\ p[2] \in Nibbles /\ q[2] \in Nibbles
    BY SlotsLead
  <2>4. ASSUME NEW u \in Spaces, NEW a \in Triples, Target(p) = Reg(u, a)
        PROVE  \A x, m, n : Target(p) # L1(x, m) /\ Target(p) # L2(x, m, n)
    <3>1. Target(p) \in Heap
      BY <2>3, <2>4, Registers
    <3> QED
      BY <3>1, RegistersApart
  <2>5. CASE \E j, k \in Nibbles : p[1] = L2(s, j, k) /\ Target(p) = Reg(s, <<j, k, p[2]>>)
    <3>1. PICK j \in Nibbles, k \in Nibbles : p[1] = L2(s, j, k) /\ Target(p) = Reg(s, <<j, k, p[2]>>)
      BY <2>5
    <3>2. PICK l \in Nibbles, m \in Nibbles : q[1] = L2(t, l, m) /\ Target(q) = Reg(t, <<l, m, q[2]>>)
      BY <1>2, <2>2, <2>3, <2>4, <3>1, Tripled
    <3>3. s = t /\ <<j, k, p[2]>> = <<l, m, q[2]>>
      <4> DEFINE a == <<j, k, p[2]>>
                 b == <<l, m, q[2]>>
      <4>1. a \in Triples /\ b \in Triples
        BY <2>3, Tripled
      <4>2. Reg(s, a) # None /\ Reg(s, a) = Reg(t, b)
        BY <1>2, <2>3, <3>1, <3>2
      <4> HIDE DEF a, b
      <4>3. s = t /\ a = b
        BY <4>1, <4>2, RegistersDiffer
      <4> QED
        BY <4>3 DEF a, b
    <3> QED
      BY <2>3, <3>1, <3>2, <3>3
  <2>6. CASE \/ p[1] = Root(s) /\ Target(p) = L1(s, p[2])
             \/ \E j \in Nibbles : p[1] = L1(s, j) /\ Target(p) = L2(s, j, p[2])
    <3>1. \/ q[1] = Root(t) /\ Target(q) = L1(t, q[2])
          \/ \E j \in Nibbles : q[1] = L1(t, j) /\ Target(q) = L2(t, j, q[2])
      BY <1>2, <2>2, <2>3, <2>4, <2>6, Tripled
    <3>2. p[1] = q[1] /\ p[2] = q[2]
      BY <1>2, <2>6, <3>1, ArraysDiffer
    <3> QED
      BY <2>3, <3>2
  <2> QED
    BY <2>1, <2>5, <2>6
<1>3. ASSUME NEW o \in DOMAIN array
      PROVE  o \in {Root(s) : s \in Spaces} \/ \E p \in Slots : Target(p) = o
  <2>1. PICK s \in Spaces :
         \/ o = Root(s)
         \/ \E i \in Nibbles : o = L1(s, i) /\ Root(s) \in Arrays
         \/ \E i, j \in Nibbles : o = L2(s, i, j) /\ L1(s, i) \in Arrays
    BY DEF IInv, Rooted, Arrays
  <2>2. ASSUME NEW i \in Nibbles, o = L1(s, i), Root(s) \in Arrays
        PROVE  \E p \in Slots : Target(p) = o
    <3>1. array[Root(s)][i] = o /\ o # None
      BY <2>2, NoNullObject DEF IInv, Linked, Arrays
    <3> QED
      BY <2>2, <3>1, SlotOf
  <2>3. ASSUME NEW i \in Nibbles, NEW j \in Nibbles, o = L2(s, i, j), L1(s, i) \in Arrays
        PROVE  \E p \in Slots : Target(p) = o
    <3>1. array[L1(s, i)][j] = o /\ o # None
      BY <2>3, NoNullObject DEF IInv, Linked, Arrays
    <3> QED
      BY <2>3, <3>1, SlotOf
  <2> QED
    BY <2>1, <2>2, <2>3
<1> QED
  BY <1>1, <1>2, <1>3 DEF OneOwner

(* What is lost is live and at none of the places a register hangs at.     *)
LEMMA LostRegisters ==
  IInv => \A o : o \in Lost <=>
            /\ o \in DOMAIN value
            /\ ~\E s \in Spaces, a \in Triples : o = Reg(s, a)
<1> SUFFICES ASSUME IInv, NEW o \in DOMAIN value
             PROVE  (\E p \in Slots : o = Target(p)) <=>
                      \E s \in Spaces, a \in Triples : o = Reg(s, a)
  BY DEF Lost
<1>1. o \in Heap /\ o # None
  BY CsrAssumption DEF IInv, Typed
<1>2. ASSUME NEW p \in Slots, o = Target(p)
      PROVE  \E s \in Spaces, a \in Triples : o = Reg(s, a)
  <2>1. PICK s \in Spaces :
          \/ o = L1(s, p[2])
          \/ \E j \in Nibbles : o = L2(s, j, p[2])
          \/ \E j, k \in Nibbles : o = Reg(s, <<j, k, p[2]>>)
    BY <1>2, SlotsLead
  <2>2. p[2] \in Nibbles
    BY SlotsLead
  <2> QED
    BY <1>1, <2>1, <2>2, RegistersApart, Tripled
<1>3. ASSUME NEW s \in Spaces, NEW a \in Triples, o = Reg(s, a)
      PROVE  \E p \in Slots : o = Target(p)
  <2>1. L2(s, a[1], a[2]) \in Arrays /\ o = array[L2(s, a[1], a[2])][a[3]]
    BY <1>1, <1>3 DEF Reg
  <2> QED
    BY <1>1, <2>1, SlotOf, Tripled
<1> QED
  BY <1>2, <1>3

-----------------------------------------------------------------------------
LEMMA InitOwned == CsrInit => IInv
<1> SUFFICES ASSUME CsrInit PROVE IInv
  OBVIOUS
<1>1. Arrays = {} /\ DOMAIN value = {} /\ array = [o \in {} |-> NoPointers]
  BY DEF CsrInit, Arrays
<1>2. Typed
  BY <1>1 DEF Typed, CsrInit
<1>3. Rooted /\ Linked /\ Held
  BY <1>1 DEF Rooted, Linked, Held, Reg
<1> QED
  BY <1>2, <1>3 DEF IInv

(* A space that is not constructed has nothing below its root.             *)
LEMMA NothingOf ==
  ASSUME IInv, NEW t \in Spaces, Root(t) \notin Arrays
  PROVE  /\ \A i \in Nibbles : L1(t, i) \notin Arrays
         /\ \A i, j \in Nibbles : L2(t, i, j) \notin Arrays
         /\ \A a \in Triples : Reg(t, a) = None
<1>1. /\ \A i \in Nibbles : L1(t, i) \notin Arrays
      /\ \A i, j \in Nibbles : L2(t, i, j) \notin Arrays
  BY Parents DEF IInv
<1>2. \A a \in Triples : Reg(t, a) = None
  BY <1>1, Tripled DEF Reg
<1> QED
  BY <1>1, <1>2

(* The registers are pointed to as before if the last level is.            *)
LEMMA RegsKept ==
  ASSUME NEW s, NEW a \in Triples,
         L2(s, a[1], a[2]) \in Arrays' <=> L2(s, a[1], a[2]) \in Arrays,
         L2(s, a[1], a[2]) \in Arrays =>
           array'[L2(s, a[1], a[2])] = array[L2(s, a[1], a[2])]
  PROVE  Reg(s, a)' = Reg(s, a)
BY DEF Reg

LEMMA ConstructRegs ==
  ASSUME IInv, NEW s \in Spaces, Construct(s)
  PROVE  /\ \A u \in Spaces, a \in Triples : Reg(u, a)' = Reg(u, a)
         /\ \A u \in Spaces : Root(u) \in Arrays' <=> Root(u) \in Arrays \/ u = s
         /\ Root(s) \notin Arrays /\ value' = value
<1>1. /\ Root(s) \notin Arrays /\ Arrays' = Arrays \cup {Root(s)}
      /\ array' = [o \in Arrays' |-> IF o = Root(s) THEN NoPointers ELSE array[o]]
      /\ value' = value
  BY DEF Construct, IsConstructed, Arrays
<1>2. \A o \in Arrays' : array'[o] = IF o = Root(s) THEN NoPointers ELSE array[o]
  BY <1>1
<1>3. ASSUME NEW u \in Spaces, NEW a \in Triples PROVE Reg(u, a)' = Reg(u, a)
  <2>1. L2(u, a[1], a[2]) \in Arrays' <=> L2(u, a[1], a[2]) \in Arrays
    BY <1>1, ArraysDiffer
  <2>2. L2(u, a[1], a[2]) \in Arrays =>
          array'[L2(u, a[1], a[2])] = array[L2(u, a[1], a[2])]
    BY <1>1, <1>2, ArraysDiffer
  <2> QED
    BY <2>1, <2>2, RegsKept
<1> QED
  BY <1>1, <1>3, ArraysDiffer

LEMMA ConstructOwned ==
  ASSUME IInv, NEW s \in Spaces, Construct(s)
  PROVE  IInv'
<1>1. /\ Root(s) \notin Arrays /\ Arrays' = Arrays \cup {Root(s)}
      /\ array' = [o \in Arrays' |-> IF o = Root(s) THEN NoPointers ELSE array[o]]
      /\ value' = value
  BY DEF Construct, IsConstructed, Arrays
<1>2. \A o \in Arrays' : array'[o] = IF o = Root(s) THEN NoPointers ELSE array[o]
  BY <1>1
<1>3. Typed'
  BY <1>1, <1>2 DEF IInv, Typed, NoPointers
<1>4. Rooted'
  BY <1>1 DEF IInv, Rooted
<1>5. Linked'
  <2>1. ASSUME NEW u \in Spaces, NEW i \in Nibbles, Root(u) \in Arrays'
        PROVE  array'[Root(u)][i] = IF L1(u, i) \in Arrays' THEN L1(u, i) ELSE None
    <3>1. L1(u, i) \in Arrays' <=> L1(u, i) \in Arrays
      BY <1>1, ArraysDiffer
    <3>2. CASE u = s
      BY <1>1, <1>2, <2>1, <3>1, <3>2, Parents DEF IInv, NoPointers
    <3>3. CASE u # s
      <4>1. Root(u) \in Arrays /\ array'[Root(u)] = array[Root(u)]
        BY <1>1, <1>2, <2>1, <3>3, ArraysDiffer
      <4> QED
        BY <3>1, <4>1 DEF IInv, Linked
    <3> QED
      BY <3>2, <3>3
  <2>2. ASSUME NEW u \in Spaces, NEW i \in Nibbles, NEW j \in Nibbles, L1(u, i) \in Arrays'
        PROVE  array'[L1(u, i)][j] = IF L2(u, i, j) \in Arrays' THEN L2(u, i, j) ELSE None
    <3>1. L1(u, i) \in Arrays /\ array'[L1(u, i)] = array[L1(u, i)]
      BY <1>1, <1>2, <2>2, ArraysDiffer
    <3>2. L2(u, i, j) \in Arrays' <=> L2(u, i, j) \in Arrays
      BY <1>1, ArraysDiffer
    <3> QED
      BY <3>1, <3>2 DEF IInv, Linked
  <2> QED
    BY <2>1, <2>2 DEF Linked
<1>6. Held'
  BY <1>1, ConstructRegs DEF IInv, Held
<1> QED
  BY <1>3, <1>4, <1>5, <1>6 DEF IInv

(* A definition makes what is missing of the path to a register.           *)
PathMade(s, i, j, k, csr) ==
  /\ Root(s) \in Arrays
  /\ Arrays' = Arrays \cup {L1(s, i), L2(s, i, j)}
  /\ csr \in Heap \ DOMAIN value /\ csr # None /\ csr[1] = s /\ csr[2] = <<i, j, k>>
  /\ DOMAIN value' = DOMAIN value \cup {csr}
  /\ value' = [o \in DOMAIN value' |-> IF o = csr THEN Zero ELSE value[o]]
  /\ array' = [o \in Arrays' |-> array'[o]]
  /\ \A o \in Arrays' : array'[o] = [n \in Nibbles |-> array'[o][n]]
  /\ \A n \in Nibbles :
       array'[Root(s)][n] = IF n = i THEN L1(s, i) ELSE array[Root(s)][n]
  /\ \A n \in Nibbles :
       array'[L1(s, i)][n] =
         IF n = j THEN L2(s, i, j)
         ELSE IF L1(s, i) \in Arrays THEN array[L1(s, i)][n] ELSE None
  /\ \A n \in Nibbles :
       array'[L2(s, i, j)][n] =
         IF n = k THEN csr
         ELSE IF L2(s, i, j) \in Arrays THEN array[L2(s, i, j)][n] ELSE None
  /\ \A o \in Arrays \ {Root(s), L1(s, i), L2(s, i, j)} : array'[o] = array[o]

LEMMA SetMakesPath ==
  ASSUME IInv, NEW s \in Spaces, NEW a \in Addresses, SetCSR(s, a),
         NEW i \in Nibbles, NEW j \in Nibbles, NEW k \in Nibbles,
         i = a[1], j = a[2], k = a[3]
  PROVE  PathMade(s, i, j, k, Allocated(s, a))
<1> DEFINE r == Root(s)
           l1 == L1(s, i)
           l2 == L2(s, i, j)
           csr == Allocated(s, a)
           q1 == IF Missing(r, a[1]) THEN <<s, Path(a, 1)>> ELSE array[r][a[1]]
           q2 == IF Missing(q1, a[2]) THEN <<s, Path(a, 2)>> ELSE array[q1][a[2]]
           made(x, y) == (IF Missing(r, a[1]) THEN {x} ELSE {})
                           \cup (IF Missing(x, a[2]) THEN {y} ELSE {})
           arrays(x, y) == [o \in DOMAIN array \cup made(x, y) |->
                              IF o \in made(x, y) THEN NoPointers ELSE array[o]]
<1>1. <<s, Path(a, 1)>> = l1 /\ <<s, Path(a, 2)>> = l2
  BY Paths DEF L1, L2
<1>2. r \in Arrays /\ IsConstructed(s)
  BY DEF SetCSR, IsConstructed, Arrays
<1>3. None # l1 /\ None # l2
  BY NoNullObject
<1>4. Missing(r, i) <=> l1 \notin Arrays
  BY <1>2, <1>3 DEF Missing, IInv, Linked, Arrays
<1>5. q1 = l1
  BY <1>1, <1>2, <1>4 DEF IInv, Linked
<1>6. Missing(l1, j) <=> l2 \notin Arrays
  <2>1. CASE l1 \in Arrays
    BY <1>3, <2>1 DEF Missing, IInv, Linked, Arrays
  <2>2. CASE l1 \notin Arrays
    BY <2>2, Parents DEF Missing, IInv, Arrays
  <2> QED
    BY <2>1, <2>2
<1>7. q2 = l2
  <2>0. q2 = IF Missing(l1, j) THEN l2 ELSE array[l1][j]
    BY <1>1, <1>5
  <2>1. CASE l2 \in Arrays
    <3>1. l1 \in Arrays
      BY <2>1, Parents DEF IInv
    <3> HIDE DEF q2
    <3> QED
      BY <1>6, <2>0, <2>1, <3>1 DEF IInv, Linked
  <2>2. CASE l2 \notin Arrays
    BY <1>6, <2>0, <2>2
  <2> QED
    BY <2>1, <2>2
<1>8. /\ array' = [arrays(q1, q2) EXCEPT ![r][a[1]] = q1, ![q1][a[2]] = q2,
                                        ![q2][a[3]] = csr]
      /\ value' = [o \in DOMAIN value \cup {csr} |-> IF o = csr THEN Zero ELSE value[o]]
  BY Zenon DEF SetCSR
<1> HIDE DEF q1, q2
<1>9. /\ array' = [arrays(l1, l2) EXCEPT ![r][i] = l1, ![l1][j] = l2, ![l2][k] = csr]
      /\ value' = [o \in DOMAIN value \cup {csr} |-> IF o = csr THEN Zero ELSE value[o]]
  <2> HIDE DEF arrays, csr
  <2> QED
    BY <1>1, <1>5, <1>7, <1>8
<1>10. r # l1 /\ r # l2 /\ l1 # l2
  BY ArraysDiffer
<1> DEFINE F == arrays(l1, l2)
<1>11. /\ DOMAIN F = Arrays \cup {l1, l2}
       /\ \A o \in DOMAIN F :
            F[o] = [n \in Nibbles |-> IF o \in Arrays THEN array[o][n] ELSE None]
       /\ \A o \in Arrays : F[o] = array[o]
  <2> DEFINE m == made(l1, l2)
  <2>1. m = {l1, l2} \ Arrays
    BY <1>4, <1>6
  <2> HIDE DEF m
  <2>2. F = [o \in DOMAIN array \cup m |-> IF o \in m THEN NoPointers ELSE array[o]]
    BY DEF m
  <2> HIDE DEF F
  <2> QED
    BY <2>1, <2>2 DEF Arrays, NoPointers, IInv, Typed
<1>12. array' = [F EXCEPT ![r][i] = l1, ![l1][j] = l2, ![l2][k] = csr]
  BY <1>9
<1> HIDE DEF r, l1, l2, csr, F
<1>13. /\ Arrays' = Arrays \cup {l1, l2}
       /\ array' = [o \in Arrays' |-> array'[o]]
  BY <1>11, <1>12 DEF Arrays
<1>14. /\ array'[r] = [F[r] EXCEPT ![i] = l1]
       /\ array'[l1] = [F[l1] EXCEPT ![j] = l2]
       /\ array'[l2] = [F[l2] EXCEPT ![k] = csr]
       /\ \A o \in DOMAIN F \ {r, l1, l2} : array'[o] = F[o]
  BY <1>2, <1>10, <1>11, <1>12
<1>15. /\ F[r] = [n \in Nibbles |-> array[r][n]]
       /\ F[l1] = [n \in Nibbles |-> IF l1 \in Arrays THEN array[l1][n] ELSE None]
       /\ F[l2] = [n \in Nibbles |-> IF l2 \in Arrays THEN array[l2][n] ELSE None]
  BY <1>2, <1>11
<1>16. \A n \in Nibbles : array'[r][n] = IF n = i THEN l1 ELSE array[r][n]
  BY <1>14, <1>15
<1>19. \A n \in Nibbles : array'[l1][n] =
         IF n = j THEN l2 ELSE IF l1 \in Arrays THEN array[l1][n] ELSE None
  BY <1>14, <1>15
<1>20. \A n \in Nibbles : array'[l2][n] =
         IF n = k THEN csr ELSE IF l2 \in Arrays THEN array[l2][n] ELSE None
  BY <1>14, <1>15
<1>21. \A o \in Arrays \ {r, l1, l2} : array'[o] = array[o]
  BY <1>11, <1>14
<1>22. \A o \in Arrays' : array'[o] = [n \in Nibbles |-> array'[o][n]]
  <2>1. array'[r] = [n \in Nibbles |-> array'[r][n]]
    BY <1>14, <1>15
  <2>2. array'[l1] = [n \in Nibbles |-> array'[l1][n]]
    BY <1>14, <1>15
  <2>3. array'[l2] = [n \in Nibbles |-> array'[l2][n]]
    BY <1>14, <1>15
  <2>4. \A o \in Arrays \ {r, l1, l2} : array'[o] = [n \in Nibbles |-> array'[o][n]]
    BY <1>21 DEF IInv, Typed
  <2> QED
    BY <1>2, <1>13, <2>1, <2>2, <2>3, <2>4
<1>17. DOMAIN value' = DOMAIN value \cup {csr}
  BY <1>9
<1>18. value' = [o \in DOMAIN value' |-> IF o = csr THEN Zero ELSE value[o]]
  BY <1>9
<1>23. csr \in Heap \ DOMAIN value /\ csr # None /\ csr[1] = s /\ csr[2] = <<i, j, k>>
  <2>1. Free(s, a) # {}
    BY DEF SetCSR
  <2>2. a = <<i, j, k>>
    BY Paths
  <2> QED
    BY <2>1, <2>2, Allocation DEF csr
<1> QED
  BY <1>2, <1>13, <1>16, <1>17, <1>18, <1>19, <1>20, <1>21, <1>22, <1>23
     DEF PathMade, r, l1, l2, csr

(* It points to the new register, and no other pointer to a register       *)
(* changes.                                                                *)
LEMMA SetRegs ==
  ASSUME IInv, NEW s \in Spaces, NEW a \in Addresses, SetCSR(s, a), NEW csr,
         csr = Allocated(s, a)
  PROVE  /\ csr \in Heap \ DOMAIN value /\ csr # None /\ csr[1] = s /\ csr[2] = a
         /\ Root(s) \in Arrays
         /\ \A u \in Spaces : Root(u) \in Arrays' <=> Root(u) \in Arrays
         /\ DOMAIN value' = DOMAIN value \cup {csr}
         /\ value' = [o \in DOMAIN value' |-> IF o = csr THEN Zero ELSE value[o]]
         /\ \A u \in Spaces, b \in Triples :
              Reg(u, b)' = IF u = s /\ b = a THEN csr ELSE Reg(u, b)
<1>1. PICK i \in Nibbles, j \in Nibbles, k \in Nibbles : i = a[1] /\ j = a[2] /\ k = a[3]
  BY Paths
<1>2. a = <<i, j, k>>
  BY <1>1, Paths
<1>3. PathMade(s, i, j, k, csr)
  <2>1. i = a[1] /\ j = a[2] /\ k = a[3]
    BY <1>1
  <2> QED
    BY <2>1, SetMakesPath
<1>4. /\ csr \in Heap \ DOMAIN value /\ csr # None /\ csr[1] = s /\ csr[2] = a
      /\ Root(s) \in Arrays
      /\ Arrays' = Arrays \cup {L1(s, i), L2(s, i, j)}
      /\ DOMAIN value' = DOMAIN value \cup {csr}
      /\ value' = [o \in DOMAIN value' |-> IF o = csr THEN Zero ELSE value[o]]
  BY <1>2, <1>3 DEF PathMade
<1>5. \A u \in Spaces : Root(u) \in Arrays' <=> Root(u) \in Arrays
  BY <1>4, ArraysDiffer
<1>6. ASSUME NEW u \in Spaces, NEW b \in Triples
      PROVE  Reg(u, b)' = IF u = s /\ b = a THEN csr ELSE Reg(u, b)
  <2>1. PICK x \in Nibbles, y \in Nibbles, z \in Nibbles :
          b = <<x, y, z>> /\ b[1] = x /\ b[2] = y /\ b[3] = z
    BY Tripled
  <2>2. Reg(u, b) = IF L2(u, x, y) \in Arrays THEN array[L2(u, x, y)][z] ELSE None
    BY <2>1 DEF Reg
  <2>3. Reg(u, b)' = IF L2(u, x, y) \in Arrays' THEN array'[L2(u, x, y)][z] ELSE None
    BY <2>1 DEF Reg
  <2>4. u = s /\ b = a <=> u = s /\ x = i /\ y = j /\ z = k
    BY <1>1, <1>2, <2>1
  <2>5. CASE u = s /\ x = i /\ y = j
    <3>1. array'[L2(s, i, j)][z] =
            IF z = k THEN csr
            ELSE IF L2(s, i, j) \in Arrays THEN array[L2(s, i, j)][z] ELSE None
      BY <1>3 DEF PathMade
    <3> QED
      BY <1>4, <2>2, <2>3, <2>4, <2>5, <3>1
  <2>6. CASE ~(u = s /\ x = i /\ y = j)
    <3>1. L2(u, x, y) \notin {Root(s), L1(s, i), L2(s, i, j)}
      BY <2>6, ArraysDiffer
    <3>2. L2(u, x, y) \in Arrays => array'[L2(u, x, y)] = array[L2(u, x, y)]
      BY <1>3, <3>1 DEF PathMade
    <3> QED
      BY <1>4, <2>2, <2>3, <2>4, <2>6, <3>1, <3>2
  <2> QED
    BY <2>5, <2>6
<1> QED
  BY <1>4, <1>5, <1>6

LEMMA SetOwned ==
  ASSUME IInv, NEW s \in Spaces, NEW a \in Addresses, SetCSR(s, a)
  PROVE  IInv'
<1>1. PICK i \in Nibbles, j \in Nibbles, k \in Nibbles : i = a[1] /\ j = a[2] /\ k = a[3]
  BY Paths
<1> DEFINE r == Root(s)
           l1 == L1(s, i)
           l2 == L2(s, i, j)
           csr == Allocated(s, a)
<1>2. /\ r \in Arrays
      /\ Arrays' = Arrays \cup {l1, l2}
      /\ csr \in Heap
      /\ DOMAIN value' = DOMAIN value \cup {csr}
      /\ value' = [o \in DOMAIN value' |-> IF o = csr THEN Zero ELSE value[o]]
      /\ array' = [o \in Arrays' |-> array'[o]]
      /\ \A o \in Arrays' : array'[o] = [n \in Nibbles |-> array'[o][n]]
      /\ \A n \in Nibbles : array'[r][n] = IF n = i THEN l1 ELSE array[r][n]
      /\ \A n \in Nibbles : array'[l1][n] =
            IF n = j THEN l2 ELSE IF l1 \in Arrays THEN array[l1][n] ELSE None
      /\ \A n \in Nibbles : array'[l2][n] =
            IF n = k THEN csr ELSE IF l2 \in Arrays THEN array[l2][n] ELSE None
      /\ \A o \in Arrays \ {r, l1, l2} : array'[o] = array[o]
  <2>1. i = a[1] /\ j = a[2] /\ k = a[3]
    BY <1>1
  <2>2. PathMade(s, i, j, k, csr)
    BY <2>1, SetMakesPath
  <2> QED
    BY <2>2 DEF PathMade
<1>4. Typed'
  <2>2. value' \in [DOMAIN value' -> Values]
    BY <1>2, CsrAssumption DEF IInv, Typed
  <2>3. DOMAIN value' \subseteq Heap
    BY <1>2 DEF IInv, Typed
  <2> QED
    BY <1>2, <2>2, <2>3 DEF Typed, Arrays
<1>5. Rooted'
  <2>1. ASSUME NEW o \in Arrays'
        PROVE  \E u \in Spaces :
                 \/ o = Root(u)
                 \/ \E x \in Nibbles : o = L1(u, x) /\ Root(u) \in Arrays'
                 \/ \E x, y \in Nibbles : o = L2(u, x, y) /\ L1(u, x) \in Arrays'
    BY <1>2 DEF IInv, Rooted
  <2> QED
    BY <2>1 DEF Rooted
<1>6. Linked'
  <2>1. ASSUME NEW u \in Spaces, NEW x \in Nibbles, Root(u) \in Arrays'
        PROVE  array'[Root(u)][x] = IF L1(u, x) \in Arrays' THEN L1(u, x) ELSE None
    <3>1. Root(u) \in Arrays
      BY <1>2, <2>1, ArraysDiffer
    <3>2. L1(u, x) \in Arrays' <=> L1(u, x) \in Arrays \/ (u = s /\ x = i)
      BY <1>2, ArraysDiffer
    <3>3. array[Root(u)][x] = IF L1(u, x) \in Arrays THEN L1(u, x) ELSE None
      BY <3>1 DEF IInv, Linked
    <3>4. u # s => array'[Root(u)] = array[Root(u)]
      BY <1>2, <3>1, ArraysDiffer
    <3> QED
      BY <1>2, <3>2, <3>3, <3>4
  <2>2. ASSUME NEW u \in Spaces, NEW x \in Nibbles, NEW y \in Nibbles, L1(u, x) \in Arrays'
        PROVE  array'[L1(u, x)][y] = IF L2(u, x, y) \in Arrays' THEN L2(u, x, y) ELSE None
    <3>1. L2(u, x, y) \in Arrays' <=> L2(u, x, y) \in Arrays \/ (u = s /\ x = i /\ y = j)
      BY <1>2, ArraysDiffer
    <3>2. L1(u, x) \in Arrays =>
            array[L1(u, x)][y] = IF L2(u, x, y) \in Arrays THEN L2(u, x, y) ELSE None
      BY DEF IInv, Linked
    <3>3. L2(u, x, y) \in Arrays => L1(u, x) \in Arrays
      BY Parents DEF IInv
    <3>4. CASE u = s /\ x = i
      BY <1>2, <3>1, <3>2, <3>3, <3>4
    <3>5. CASE ~(u = s /\ x = i)
      <4>1. L1(u, x) \in Arrays /\ array'[L1(u, x)] = array[L1(u, x)]
        BY <1>2, <2>2, <3>5, ArraysDiffer
      <4> QED
        BY <3>1, <3>2, <3>5, <4>1
    <3> QED
      BY <3>4, <3>5
  <2> QED
    BY <2>1, <2>2 DEF Linked
<1>7. Held'
  <2>1. ASSUME NEW u \in Spaces, NEW b \in Triples, Reg(u, b)' # None
        PROVE  /\ Reg(u, b)' \in DOMAIN value'
               /\ Reg(u, b)'[1] = u /\ Reg(u, b)'[2] = b
    <3>1. /\ csr[1] = s /\ csr[2] = a
          /\ DOMAIN value' = DOMAIN value \cup {csr}
          /\ Reg(u, b)' = IF u = s /\ b = a THEN csr ELSE Reg(u, b)
      BY SetRegs
    <3> QED
      BY <2>1, <3>1 DEF IInv, Held
  <2> QED
    BY <2>1 DEF Held
<1> QED
  BY <1>4, <1>5, <1>6, <1>7 DEF IInv

LEMMA WriteRegs ==
  ASSUME IInv, NEW s \in Spaces, NEW a \in Addresses, NEW v \in Values, SetValue(s, a, v)
  PROVE  /\ array' = array /\ Arrays' = Arrays /\ Root(s) \in Arrays
         /\ \A u \in Spaces, b \in Triples : Reg(u, b)' = Reg(u, b)
         /\ DOMAIN value' = DOMAIN value
         /\ value' = IF Reg(s, a) = None THEN value ELSE [value EXCEPT ![Reg(s, a)] = v]
<1>1. array' = array /\ Arrays' = Arrays /\ Root(s) \in Arrays /\ IsConstructed(s)
  BY DEF SetValue, Arrays, IsConstructed
<1>2. \A u \in Spaces, b \in Triples : Reg(u, b)' = Reg(u, b)
  BY <1>1 DEF Reg
<1>3. GetCSR(s, a) = Reg(s, a)
  BY <1>1, Found
<1>4. value' = IF Reg(s, a) = None THEN value ELSE [value EXCEPT ![Reg(s, a)] = v]
  BY <1>3 DEF SetValue
<1> QED
  BY <1>1, <1>2, <1>4

LEMMA WriteOwned ==
  ASSUME IInv, NEW s \in Spaces, NEW a \in Addresses, NEW v \in Values, SetValue(s, a, v)
  PROVE  IInv'
<1>1. /\ array' = array /\ Arrays' = Arrays
      /\ \A u \in Spaces, b \in Triples : Reg(u, b)' = Reg(u, b)
      /\ DOMAIN value' = DOMAIN value
      /\ value' = IF Reg(s, a) = None THEN value ELSE [value EXCEPT ![Reg(s, a)] = v]
  BY WriteRegs
<1>2. Typed'
  BY <1>1 DEF IInv, Typed
<1>3. Rooted' /\ Linked'
  BY <1>1 DEF IInv, Rooted, Linked
<1>4. Held'
  BY <1>1 DEF IInv, Held
<1> QED
  BY <1>2, <1>3, <1>4 DEF IInv

-----------------------------------------------------------------------------
(* What a space reaches: its arrays, and the registers pointed to.         *)
LEMMA Reaches ==
  ASSUME IInv, NEW s \in Spaces, IsConstructed(s)
  PROVE  /\ \A o : o \in L1s(s) <=> o \in Arrays /\ \E i \in Nibbles : o = L1(s, i)
         /\ \A o : o \in L2s(s) <=> o \in Arrays /\ \E i, j \in Nibbles : o = L2(s, i, j)
         /\ \A o : o \in CSRs(s) <=> o # None /\ \E a \in Triples : o = Reg(s, a)
<1>1. ASSUME NEW o PROVE o \in L1s(s) <=> o \in Arrays /\ \E i \in Nibbles : o = L1(s, i)
  BY Reached
<1>2. ASSUME NEW o PROVE o \in L2s(s) <=> o \in Arrays /\ \E i, j \in Nibbles : o = L2(s, i, j)
  <2>1. o \in L2s(s) <=>
          o \in Arrays /\ \E p \in Nibbles \X Nibbles : o = L2(s, p[1], p[2])
    BY Reached
  <2>2. ASSUME NEW i \in Nibbles, NEW j \in Nibbles, o = L2(s, i, j)
        PROVE  \E p \in Nibbles \X Nibbles : o = L2(s, p[1], p[2])
    <3>1. <<i, j>> \in Nibbles \X Nibbles /\ o = L2(s, <<i, j>>[1], <<i, j>>[2])
      BY <2>2
    <3> QED
      BY <3>1
  <2> QED
    BY <2>1, <2>2
<1>3. \A o : o \in CSRs(s) <=> o # None /\ \E a \in Triples : o = Reg(s, a)
  BY Reached
<1> QED
  BY <1>1, <1>2, <1>3

LEMMA DestroyRegs ==
  ASSUME IInv, NEW s \in Spaces, Destroy(s)
  PROVE  /\ \A u \in Spaces : Root(u) \in Arrays' <=> Root(u) \in Arrays /\ u # s
         /\ \A u \in Spaces, i \in Nibbles : L1(u, i) \in Arrays' <=> L1(u, i) \in Arrays /\ u # s
         /\ \A u \in Spaces, i, j \in Nibbles :
              L2(u, i, j) \in Arrays' <=> L2(u, i, j) \in Arrays /\ u # s
         /\ \A u \in Spaces, a \in Triples : Reg(u, a)' = IF u = s THEN None ELSE Reg(u, a)
         /\ \A o : o \in DOMAIN value' <=>
              o \in DOMAIN value /\ ~\E a \in Triples : o = Reg(s, a)
         /\ Root(s) \in Arrays
         /\ Arrays' \subseteq Arrays /\ array' = [o \in Arrays' |-> array[o]]
         /\ value' = [o \in DOMAIN value' |-> value[o]]
<1>1. /\ IsConstructed(s) /\ Root(s) \in Arrays
      /\ Arrays' = Arrays \ ({Root(s)} \cup L1s(s) \cup L2s(s))
      /\ array' = [o \in Arrays' |-> array[o]]
      /\ DOMAIN value' = DOMAIN value \ CSRs(s)
      /\ value' = [o \in DOMAIN value' |-> value[o]]
  BY DEF Destroy, Deleted, Arrays, IsConstructed
<1>2. \A u \in Spaces : Root(u) \in Arrays' <=> Root(u) \in Arrays /\ u # s
  BY <1>1, Reaches, ArraysDiffer
<1>3. ASSUME NEW u \in Spaces, NEW i \in Nibbles
      PROVE  L1(u, i) \in Arrays' <=> L1(u, i) \in Arrays /\ u # s
  <2>1. L1(u, i) \in L1s(s) <=> L1(u, i) \in Arrays /\ u = s
    BY <1>1, Reaches, ArraysDiffer
  <2>2. L1(u, i) # Root(s) /\ L1(u, i) \notin L2s(s)
    BY <1>1, Reaches, ArraysDiffer
  <2> QED
    BY <1>1, <2>1, <2>2
<1>4. ASSUME NEW u \in Spaces, NEW i \in Nibbles, NEW j \in Nibbles
      PROVE  L2(u, i, j) \in Arrays' <=> L2(u, i, j) \in Arrays /\ u # s
  <2>1. L2(u, i, j) \in L2s(s) <=> L2(u, i, j) \in Arrays /\ u = s
    BY <1>1, Reaches, ArraysDiffer
  <2>2. L2(u, i, j) # Root(s) /\ L2(u, i, j) \notin L1s(s)
    BY <1>1, Reaches, ArraysDiffer
  <2> QED
    BY <1>1, <2>1, <2>2
<1>5. ASSUME NEW u \in Spaces, NEW a \in Triples
      PROVE  Reg(u, a)' = IF u = s THEN None ELSE Reg(u, a)
  <2>1. a[1] \in Nibbles /\ a[2] \in Nibbles /\ a[3] \in Nibbles
    BY Tripled
  <2>2. L2(u, a[1], a[2]) \in Arrays' <=> L2(u, a[1], a[2]) \in Arrays /\ u # s
    BY <1>4, <2>1
  <2>3. CASE u = s
    BY <2>2, <2>3 DEF Reg
  <2>4. CASE u # s
    <3>1. L2(u, a[1], a[2]) \in Arrays => array'[L2(u, a[1], a[2])] = array[L2(u, a[1], a[2])]
      BY <1>1, <2>2, <2>4
    <3> QED
      BY <2>2, <2>4, <3>1, RegsKept
  <2> QED
    BY <2>3, <2>4
<1>6. ASSUME NEW o
      PROVE  o \in DOMAIN value' <=> o \in DOMAIN value /\ ~\E a \in Triples : o = Reg(s, a)
  <2>1. None \notin DOMAIN value
    BY CsrAssumption DEF IInv, Typed
  <2> QED
    BY <1>1, <2>1, Reaches
<1> QED
  BY <1>1, <1>2, <1>3, <1>4, <1>5, <1>6

(* Nothing that hangs below the root that is deleted is left.              *)
LEMMA DestroyOwned ==
  ASSUME IInv, NEW s \in Spaces, Destroy(s)
  PROVE  IInv'
<1>2. /\ \A u \in Spaces : Root(u) \in Arrays' <=> Root(u) \in Arrays /\ u # s
      /\ \A u \in Spaces, i \in Nibbles : L1(u, i) \in Arrays' <=> L1(u, i) \in Arrays /\ u # s
      /\ \A u \in Spaces, i, j \in Nibbles :
           L2(u, i, j) \in Arrays' <=> L2(u, i, j) \in Arrays /\ u # s
      /\ \A u \in Spaces, a \in Triples : Reg(u, a)' = IF u = s THEN None ELSE Reg(u, a)
      /\ \A o : o \in DOMAIN value' <=>
           o \in DOMAIN value /\ ~\E a \in Triples : o = Reg(s, a)
      /\ array' = [o \in Arrays' |-> array[o]]
      /\ value' = [o \in DOMAIN value' |-> value[o]]
  BY DestroyRegs
<1>3. Arrays' \subseteq Arrays /\ \A o \in Arrays' : array'[o] = array[o]
  BY DestroyRegs
<1>5. Typed'
  <2>1. DOMAIN value' \subseteq Heap /\ value' \in [DOMAIN value' -> Values]
    BY <1>2 DEF IInv, Typed
  <2>2. \A o \in Arrays' : array'[o] = [i \in Nibbles |-> array'[o][i]]
    BY <1>3 DEF IInv, Typed
  <2>3. array' = [o \in Arrays' |-> array'[o]]
    BY <1>2
  <2> QED
    BY <2>1, <2>2, <2>3 DEF Typed
<1>6. Rooted'
  <2>1. ASSUME NEW o \in Arrays'
        PROVE  \E u \in Spaces :
                 \/ o = Root(u)
                 \/ \E i \in Nibbles : o = L1(u, i) /\ Root(u) \in Arrays'
                 \/ \E i, j \in Nibbles : o = L2(u, i, j) /\ L1(u, i) \in Arrays'
    <3>1. PICK u \in Spaces :
            \/ o = Root(u)
            \/ \E i \in Nibbles : o = L1(u, i) /\ Root(u) \in Arrays
            \/ \E i, j \in Nibbles : o = L2(u, i, j) /\ L1(u, i) \in Arrays
      BY <1>3 DEF IInv, Rooted
    <3> QED
      BY <1>2, <3>1
  <2> QED
    BY <2>1 DEF Rooted
<1>7. Linked'
  <2>1. ASSUME NEW u \in Spaces, NEW i \in Nibbles, Root(u) \in Arrays'
        PROVE  array'[Root(u)][i] = IF L1(u, i) \in Arrays' THEN L1(u, i) ELSE None
    <3>1. Root(u) \in Arrays /\ array'[Root(u)] = array[Root(u)]
      BY <1>3, <2>1
    <3>2. L1(u, i) \in Arrays' <=> L1(u, i) \in Arrays
      BY <1>2, <2>1
    <3> QED
      BY <3>1, <3>2 DEF IInv, Linked
  <2>2. ASSUME NEW u \in Spaces, NEW i \in Nibbles, NEW j \in Nibbles, L1(u, i) \in Arrays'
        PROVE  array'[L1(u, i)][j] = IF L2(u, i, j) \in Arrays' THEN L2(u, i, j) ELSE None
    <3>1. L1(u, i) \in Arrays /\ array'[L1(u, i)] = array[L1(u, i)]
      BY <1>3, <2>2
    <3>2. L2(u, i, j) \in Arrays' <=> L2(u, i, j) \in Arrays
      BY <1>2, <2>2
    <3> QED
      BY <3>1, <3>2 DEF IInv, Linked
  <2> QED
    BY <2>1, <2>2 DEF Linked
<1>8. Held'
  <2>1. ASSUME NEW u \in Spaces, NEW b \in Triples, Reg(u, b)' # None
        PROVE  /\ Reg(u, b)' \in DOMAIN value'
               /\ Reg(u, b)'[1] = u /\ Reg(u, b)'[2] = b
    <3>1. u # s /\ Reg(u, b)' = Reg(u, b) /\ Reg(u, b) # None
      BY <1>2, <2>1
    <3>2. Reg(u, b) \in DOMAIN value /\ Reg(u, b)[1] = u /\ Reg(u, b)[2] = b
      BY <3>1 DEF IInv, Held
    <3>3. \A a \in Triples : Reg(u, b) # Reg(s, a)
      BY <3>1, RegistersDiffer
    <3> QED
      BY <1>2, <3>1, <3>2, <3>3
  <2> QED
    BY <2>1 DEF Held
<1> QED
  BY <1>5, <1>6, <1>7, <1>8 DEF IInv

-----------------------------------------------------------------------------
(* What the copy of the space s at t makes: the arrays s reaches, below t, *)
(* and a new register for each that s points to.                           *)
CopyMade(s, t) ==
  /\ s # t /\ Root(s) \in Arrays /\ Root(t) \notin Arrays
  /\ \A o : o \in Arrays' <=>
       \/ o \in Arrays
       \/ o = Root(t)
       \/ \E i \in Nibbles : o = L1(t, i) /\ L1(s, i) \in Arrays
       \/ \E i, j \in Nibbles : o = L2(t, i, j) /\ L2(s, i, j) \in Arrays
  /\ array' = [o \in Arrays' |-> array'[o]]
  /\ \A o \in Arrays : array'[o] = array[o]
  /\ \A o \in Arrays' \ Arrays : array'[o] = [n \in Nibbles |-> array'[o][n]]
  /\ \A n \in Nibbles :
       array'[Root(t)][n] = IF L1(s, n) \in Arrays THEN L1(t, n) ELSE None
  /\ \A i, n \in Nibbles : L1(s, i) \in Arrays =>
       array'[L1(t, i)][n] = IF L2(s, i, n) \in Arrays THEN L2(t, i, n) ELSE None
  /\ \A a \in Triples : Reg(s, a) # None =>
       /\ Allocated(t, a) \in Heap \ DOMAIN value /\ Allocated(t, a) # None
       /\ Allocated(t, a)[1] = t /\ Allocated(t, a)[2] = a
  /\ \A u \in Spaces, a \in Triples :
       Reg(u, a)' = IF u # t THEN Reg(u, a)
                    ELSE IF Reg(s, a) = None THEN None ELSE Allocated(t, a)
  /\ \A o : o \in DOMAIN value' <=>
       \/ o \in DOMAIN value
       \/ \E a \in Triples : Reg(s, a) # None /\ o = Allocated(t, a)
  /\ value' = [o \in DOMAIN value' |-> value'[o]]
  /\ \A o \in DOMAIN value : value'[o] = value[o]
  /\ \A a \in Triples : Reg(s, a) # None =>
       value'[Allocated(t, a)] = value[Reg(s, a)]

LEMMA CopyMakesTree ==
  ASSUME IInv, NEW s \in Spaces, NEW t \in Spaces, CopySpace(s, t)
  PROVE  CopyMade(s, t)
<1> DEFINE copied    == Copied(s)
           CopyOf(o) == IF o \notin copied THEN o
                        ELSE IF o \in DOMAIN array THEN <<t, o[2]>> ELSE Allocated(t, o[2])
           arrays    == {CopyOf(o) : o \in copied \cap DOMAIN array}
           clones    == {CopyOf(o) : o \in copied \cap DOMAIN value}
<1>1. /\ IsConstructed(s) /\ Root(s) \in Arrays /\ Root(t) \notin Arrays /\ s # t
      /\ \A o \in copied \cap DOMAIN value : Free(t, o[2]) # {}
      /\ array' = [o \in DOMAIN array \cup arrays |->
                    IF o \in arrays THEN [i \in Nibbles |-> CopyOf(array[<<s, o[2]>>][i])]
                    ELSE array[o]]
      /\ value' = [o \in DOMAIN value \cup clones |->
                    IF o \in clones THEN value[GetCSR(s, o[2])] ELSE value[o]]
  BY DEF CopySpace, IsConstructed, Arrays
<1>2. \A o : o \in copied <=>
        \/ o = Root(s)
        \/ \E i \in Nibbles : o = L1(s, i) /\ L1(s, i) \in Arrays
        \/ \E i, j \in Nibbles : o = L2(s, i, j) /\ L2(s, i, j) \in Arrays
        \/ o # None /\ \E a \in Triples : o = Reg(s, a)
  <2>1. ASSUME NEW o
        PROVE  /\ o \in L1s(s) <=> \E i \in Nibbles : o = L1(s, i) /\ L1(s, i) \in Arrays
               /\ o \in L2s(s) <=> \E i, j \in Nibbles : o = L2(s, i, j) /\ L2(s, i, j) \in Arrays
               /\ o \in CSRs(s) <=> o # None /\ \E a \in Triples : o = Reg(s, a)
    BY <1>1, Reaches
  <2> QED
    BY <2>1 DEF Copied
<1>3. /\ <<t, Root(s)[2]>> = Root(t)
      /\ \A i : <<t, L1(s, i)[2]>> = L1(t, i)
      /\ \A i, j : <<t, L2(s, i, j)[2]>> = L2(t, i, j)
      /\ <<s, Root(t)[2]>> = Root(s)
      /\ \A i : <<s, L1(t, i)[2]>> = L1(s, i)
      /\ \A i, j : <<s, L2(t, i, j)[2]>> = L2(s, i, j)
  BY DEF Root, L1, L2
<1>4. \A a \in Triples : Reg(s, a) # None =>
        /\ Reg(s, a) \in copied /\ Reg(s, a) \in DOMAIN value /\ Reg(s, a) \notin Arrays
        /\ Reg(s, a)[2] = a /\ a \in Addresses
  <2>1. ASSUME NEW a \in Triples, Reg(s, a) # None
        PROVE  /\ Reg(s, a) \in DOMAIN value /\ Reg(s, a) \notin Arrays
               /\ Reg(s, a)[2] = a /\ a \in Addresses
    <3>1. /\ Reg(s, a) \in DOMAIN value /\ Reg(s, a) \in Heap
          /\ Reg(s, a)[2] = a /\ a \in Addresses
      BY <2>1, Registers
    <3>2. Reg(s, a) \notin Arrays
      BY <3>1, RegistersApart DEF IInv, Rooted
    <3> QED
      BY <3>1, <3>2
  <2> HIDE DEF copied
  <2> QED
    BY <1>2, <2>1
<1>5. ASSUME NEW o \in DOMAIN value PROVE o \notin Arrays /\ o # None
  <2>1. o \in Heap
    BY DEF IInv, Typed
  <2>2. o # None
    BY <2>1, CsrAssumption
  <2>3. o \notin Arrays
    BY <2>1, RegistersApart DEF IInv, Rooted
  <2> QED
    BY <2>2, <2>3
<1>6. None \notin copied
  <2>1. /\ None # Root(s)
        /\ \A i \in Nibbles : None # L1(s, i)
        /\ \A i, j \in Nibbles : None # L2(s, i, j)
    <3>1. None # Root(s)
      <4>1. <<>> \in Seq(Nibbles)
        OBVIOUS
      <4>2. \A q \in Seq(Nibbles) : None # <<s, q>>
        BY CsrAssumption
      <4> QED
        BY <4>1, <4>2 DEF Root
    <3> QED
      BY <3>1, NoNullObject
  <2> HIDE DEF copied
  <2> QED
    BY <1>2, <2>1
<1>7. /\ CopyOf(Root(s)) = Root(t)
      /\ \A i \in Nibbles : L1(s, i) \in Arrays => CopyOf(L1(s, i)) = L1(t, i)
      /\ \A i, j \in Nibbles : L2(s, i, j) \in Arrays => CopyOf(L2(s, i, j)) = L2(t, i, j)
      /\ \A a \in Triples : Reg(s, a) # None => CopyOf(Reg(s, a)) = Allocated(t, a)
      /\ CopyOf(None) = None
  <2> HIDE DEF copied
  <2>1. CopyOf(Root(s)) = Root(t)
    BY <1>1, <1>2, <1>3 DEF Arrays
  <2>2. \A i \in Nibbles : L1(s, i) \in Arrays => CopyOf(L1(s, i)) = L1(t, i)
    BY <1>2, <1>3 DEF Arrays
  <2>3. \A i, j \in Nibbles : L2(s, i, j) \in Arrays => CopyOf(L2(s, i, j)) = L2(t, i, j)
    BY <1>2, <1>3 DEF Arrays
  <2>4. \A a \in Triples : Reg(s, a) # None => CopyOf(Reg(s, a)) = Allocated(t, a)
    BY <1>4 DEF Arrays
  <2>5. CopyOf(None) = None
    BY <1>6
  <2> QED
    BY <2>1, <2>2, <2>3, <2>4, <2>5
<1>8. \A a \in Triples : Reg(s, a) # None =>
        /\ Allocated(t, a) \in Heap \ DOMAIN value /\ Allocated(t, a) # None
        /\ Allocated(t, a)[1] = t /\ Allocated(t, a)[2] = a
  <2>1. ASSUME NEW a \in Triples, Reg(s, a) # None PROVE Free(t, a) # {}
    <3> HIDE DEF copied
    <3>1. Reg(s, a) \in copied \cap DOMAIN value /\ Reg(s, a)[2] = a
      BY <1>4, <2>1
    <3> QED
      BY <1>1, <3>1
  <2> QED
    BY <2>1, Allocation
<1>9. \A o : o \in copied \cap DOMAIN array <=>
        \/ o = Root(s)
        \/ \E i \in Nibbles : o = L1(s, i) /\ L1(s, i) \in Arrays
        \/ \E i, j \in Nibbles : o = L2(s, i, j) /\ L2(s, i, j) \in Arrays
  <2> HIDE DEF copied
  <2> QED
    BY <1>1, <1>2, <1>4 DEF Arrays
<1>10. \A o : o \in copied \cap DOMAIN value <=> o # None /\ \E a \in Triples : o = Reg(s, a)
  <2> HIDE DEF copied
  <2> QED
    BY <1>1, <1>2, <1>4, <1>5
<1>11. \A o : o \in arrays <=>
        \/ o = Root(t)
        \/ \E i \in Nibbles : o = L1(t, i) /\ L1(s, i) \in Arrays
        \/ \E i, j \in Nibbles : o = L2(t, i, j) /\ L2(s, i, j) \in Arrays
  <2> DEFINE from == copied \cap DOMAIN array
  <2>1. arrays = {CopyOf(o) : o \in from}
    OBVIOUS
  <2> HIDE DEF copied, CopyOf, arrays, from
  <2>2. \A o : o \in from <=>
        \/ o = Root(s)
        \/ \E i \in Nibbles : o = L1(s, i) /\ L1(s, i) \in Arrays
        \/ \E i, j \in Nibbles : o = L2(s, i, j) /\ L2(s, i, j) \in Arrays
    BY <1>9 DEF from
  <2>3. ASSUME NEW o, o \in arrays
        PROVE  \/ o = Root(t)
               \/ \E i \in Nibbles : o = L1(t, i) /\ L1(s, i) \in Arrays
               \/ \E i, j \in Nibbles : o = L2(t, i, j) /\ L2(s, i, j) \in Arrays
    <3>1. PICK x \in from : o = CopyOf(x)
      BY <2>1, <2>3
    <3> QED
      BY <1>7, <2>2, <3>1
  <2>4. \A x \in from : CopyOf(x) \in arrays
    BY <2>1
  <2>5. Root(t) \in arrays
    BY <1>7, <2>2, <2>4
  <2>6. \A i \in Nibbles : L1(s, i) \in Arrays => L1(t, i) \in arrays
    BY <1>7, <2>2, <2>4
  <2>7. \A i, j \in Nibbles : L2(s, i, j) \in Arrays => L2(t, i, j) \in arrays
    BY <1>7, <2>2, <2>4
  <2> QED
    BY <2>3, <2>5, <2>6, <2>7
<1>12. \A o : o \in clones <=> \E a \in Triples : Reg(s, a) # None /\ o = Allocated(t, a)
  <2> DEFINE from == copied \cap DOMAIN value
  <2>1. clones = {CopyOf(o) : o \in from}
    OBVIOUS
  <2> HIDE DEF copied, CopyOf, clones, from
  <2>2. \A o : o \in from <=> o # None /\ \E a \in Triples : o = Reg(s, a)
    BY <1>10 DEF from
  <2>3. ASSUME NEW o, o \in clones
        PROVE  \E a \in Triples : Reg(s, a) # None /\ o = Allocated(t, a)
    <3>1. PICK x \in from : o = CopyOf(x)
      BY <2>1, <2>3
    <3> QED
      BY <1>7, <2>2, <3>1
  <2>4. ASSUME NEW a \in Triples, Reg(s, a) # None PROVE Allocated(t, a) \in clones
    <3>1. Reg(s, a) \in from /\ CopyOf(Reg(s, a)) = Allocated(t, a)
      BY <1>7, <2>2, <2>4
    <3> QED
      BY <2>1, <3>1
  <2> QED
    BY <2>3, <2>4
<1> HIDE DEF copied, CopyOf, arrays, clones
<1>13. \A o \in Arrays : o \notin arrays
  BY <1>1, <1>11, NothingOf
<1>14. \A o \in DOMAIN value : o \notin clones
  BY <1>8, <1>12
<1>15. /\ Arrays' = Arrays \cup arrays
       /\ DOMAIN value' = DOMAIN value \cup clones
       /\ \A o \in Arrays : array'[o] = array[o]
       /\ \A o \in arrays : array'[o] = [i \in Nibbles |-> CopyOf(array[<<s, o[2]>>][i])]
       /\ \A o \in DOMAIN value : value'[o] = value[o]
       /\ \A o \in clones : value'[o] = value[GetCSR(s, o[2])]
  BY <1>1, <1>13, <1>14 DEF Arrays
<1>16. array' = [o \in Arrays' |-> array'[o]] /\ value' = [o \in DOMAIN value' |-> value'[o]]
  BY <1>1, <1>15 DEF Arrays
<1>17. \A o \in Arrays' \ Arrays : array'[o] = [n \in Nibbles |-> array'[o][n]]
  BY <1>15
<1>18. \A o : o \in Arrays' <=>
         \/ o \in Arrays
         \/ o = Root(t)
         \/ \E i \in Nibbles : o = L1(t, i) /\ L1(s, i) \in Arrays
         \/ \E i, j \in Nibbles : o = L2(t, i, j) /\ L2(s, i, j) \in Arrays
  BY <1>11, <1>15
<1>19. \A o : o \in DOMAIN value' <=>
         \/ o \in DOMAIN value
         \/ \E a \in Triples : Reg(s, a) # None /\ o = Allocated(t, a)
  BY <1>12, <1>15
<1>20. ASSUME NEW n \in Nibbles
       PROVE  array'[Root(t)][n] = IF L1(s, n) \in Arrays THEN L1(t, n) ELSE None
  <2>1. array'[Root(t)] = [i \in Nibbles |-> CopyOf(array[Root(s)][i])]
    BY <1>3, <1>11, <1>15
  <2>2. array[Root(s)][n] = IF L1(s, n) \in Arrays THEN L1(s, n) ELSE None
    BY <1>1 DEF IInv, Linked
  <2> QED
    BY <1>7, <2>1, <2>2
<1>21. ASSUME NEW i \in Nibbles, NEW n \in Nibbles, L1(s, i) \in Arrays
       PROVE  array'[L1(t, i)][n] = IF L2(s, i, n) \in Arrays THEN L2(t, i, n) ELSE None
  <2>1. array'[L1(t, i)] = [x \in Nibbles |-> CopyOf(array[L1(s, i)][x])]
    BY <1>3, <1>11, <1>15, <1>21
  <2>2. array[L1(s, i)][n] = IF L2(s, i, n) \in Arrays THEN L2(s, i, n) ELSE None
    BY <1>21 DEF IInv, Linked
  <2> QED
    BY <1>7, <2>1, <2>2
<1>22. ASSUME NEW a \in Triples
       PROVE  Reg(t, a)' = IF Reg(s, a) = None THEN None ELSE Allocated(t, a)
  <2> DEFINE i == a[1]
             j == a[2]
             k == a[3]
  <2>1. i \in Nibbles /\ j \in Nibbles /\ k \in Nibbles
    BY Tripled
  <2>2. /\ Reg(s, a) = IF L2(s, i, j) \in Arrays THEN array[L2(s, i, j)][k] ELSE None
        /\ Reg(t, a)' = IF L2(t, i, j) \in Arrays' THEN array'[L2(t, i, j)][k] ELSE None
    BY DEF Reg
  <2> HIDE DEF i, j, k
  <2>3. L2(t, i, j) \in Arrays' <=> L2(s, i, j) \in Arrays
    BY <1>1, <1>18, <2>1, NothingOf, ArraysDiffer
  <2>4. CASE L2(s, i, j) \in Arrays
    <3>1. array'[L2(t, i, j)] = [x \in Nibbles |-> CopyOf(array[L2(s, i, j)][x])]
      BY <1>3, <1>11, <1>15, <2>1, <2>4
    <3>2. array'[L2(t, i, j)][k] = CopyOf(Reg(s, a))
      BY <2>1, <2>2, <2>4, <3>1
    <3> QED
      BY <1>7, <2>2, <2>3, <2>4, <3>2
  <2>5. CASE L2(s, i, j) \notin Arrays
    BY <2>2, <2>3, <2>5
  <2> QED
    BY <2>4, <2>5
<1>23. ASSUME NEW u \in Spaces, NEW a \in Triples, u # t
       PROVE  Reg(u, a)' = Reg(u, a)
  <2>1. L2(u, a[1], a[2]) \in Arrays' <=> L2(u, a[1], a[2]) \in Arrays
    BY <1>18, <1>23, ArraysDiffer
  <2>2. L2(u, a[1], a[2]) \in Arrays => array'[L2(u, a[1], a[2])] = array[L2(u, a[1], a[2])]
    BY <1>15
  <2> QED
    BY <2>1, <2>2, RegsKept
<1>24. ASSUME NEW a \in Triples, Reg(s, a) # None
       PROVE  value'[Allocated(t, a)] = value[Reg(s, a)]
  <2>1. Allocated(t, a) \in clones /\ Allocated(t, a)[2] = a /\ a \in Addresses
    BY <1>4, <1>8, <1>12, <1>24
  <2>2. GetCSR(s, a) = Reg(s, a)
    BY <1>1, <2>1, Found
  <2> QED
    BY <1>15, <2>1, <2>2
<1>25. \A u \in Spaces, a \in Triples :
         Reg(u, a)' = IF u # t THEN Reg(u, a)
                      ELSE IF Reg(s, a) = None THEN None ELSE Allocated(t, a)
  BY <1>22, <1>23
<1>26. s # t /\ Root(s) \in Arrays /\ Root(t) \notin Arrays
  BY <1>1
<1>27. /\ \A o \in Arrays : array'[o] = array[o]
       /\ \A o \in DOMAIN value : value'[o] = value[o]
  BY <1>15
<1> QED
  BY <1>8, <1>16, <1>17, <1>18, <1>19, <1>20, <1>21, <1>24, <1>25, <1>26, <1>27, Zenon
     DEF CopyMade

LEMMA CopyOwned ==
  ASSUME IInv, NEW s \in Spaces, NEW t \in Spaces, CopySpace(s, t)
  PROVE  IInv'
<1>0. CopyMade(s, t)
  BY CopyMakesTree
<1>1. /\ \A i \in Nibbles : L1(t, i) \notin Arrays
      /\ \A i, j \in Nibbles : L2(t, i, j) \notin Arrays
  BY <1>0, NothingOf DEF CopyMade
<1>2. /\ \A u \in Spaces : Root(u) \in Arrays' <=> Root(u) \in Arrays \/ u = t
      /\ \A u \in Spaces, i \in Nibbles :
           L1(u, i) \in Arrays' <=> L1(u, i) \in Arrays \/ (u = t /\ L1(s, i) \in Arrays)
      /\ \A u \in Spaces, i, j \in Nibbles :
           L2(u, i, j) \in Arrays' <=>
             L2(u, i, j) \in Arrays \/ (u = t /\ L2(s, i, j) \in Arrays)
  <2>1. \A o : o \in Arrays' <=>
          \/ o \in Arrays
          \/ o = Root(t)
          \/ \E i \in Nibbles : o = L1(t, i) /\ L1(s, i) \in Arrays
          \/ \E i, j \in Nibbles : o = L2(t, i, j) /\ L2(s, i, j) \in Arrays
    BY <1>0 DEF CopyMade
  <2>2. \A u \in Spaces : Root(u) \in Arrays' <=> Root(u) \in Arrays \/ u = t
    BY <2>1, ArraysDiffer
  <2>3. \A u \in Spaces, i \in Nibbles :
          L1(u, i) \in Arrays' <=> L1(u, i) \in Arrays \/ (u = t /\ L1(s, i) \in Arrays)
    BY <2>1, ArraysDiffer
  <2>4. \A u \in Spaces, i, j \in Nibbles :
          L2(u, i, j) \in Arrays' <=>
            L2(u, i, j) \in Arrays \/ (u = t /\ L2(s, i, j) \in Arrays)
    BY <2>1, ArraysDiffer
  <2> QED
    BY <2>2, <2>3, <2>4
<1>3. Typed'
  <2>1. \A o \in Arrays' : array'[o] = [n \in Nibbles |-> array'[o][n]]
    BY <1>0 DEF CopyMade, IInv, Typed
  <2>2. ASSUME NEW o \in DOMAIN value' PROVE o \in Heap /\ value'[o] \in Values
    <3>1. \/ o \in DOMAIN value
          \/ \E a \in Triples : Reg(s, a) # None /\ o = Allocated(t, a)
      BY <1>0 DEF CopyMade
    <3>2. CASE o \in DOMAIN value
      <4>1. value'[o] = value[o]
        BY <1>0, <3>2 DEF CopyMade
      <4> QED
        BY <3>2, <4>1 DEF IInv, Typed
    <3>3. ASSUME NEW a \in Triples, Reg(s, a) # None, o = Allocated(t, a)
          PROVE  o \in Heap /\ value'[o] \in Values
      <4>1. o \in Heap /\ value'[o] = value[Reg(s, a)]
        BY <1>0, <3>3 DEF CopyMade
      <4>2. Reg(s, a) \in DOMAIN value
        BY <3>3, Registers
      <4> QED
        BY <4>1, <4>2 DEF IInv, Typed
    <3> QED
      BY <3>1, <3>2, <3>3
  <2>3. array' = [o \in Arrays' |-> array'[o]] /\ value' = [o \in DOMAIN value' |-> value'[o]]
    BY <1>0 DEF CopyMade
  <2>4. value' \in [DOMAIN value' -> Values] /\ DOMAIN value' \subseteq Heap
    BY <2>2, <2>3
  <2> QED
    BY <2>1, <2>3, <2>4 DEF Typed
<1>4. Rooted'
  <2>1. ASSUME NEW o \in Arrays'
        PROVE  \E u \in Spaces :
                 \/ o = Root(u)
                 \/ \E i \in Nibbles : o = L1(u, i) /\ Root(u) \in Arrays'
                 \/ \E i, j \in Nibbles : o = L2(u, i, j) /\ L1(u, i) \in Arrays'
    <3>1. CASE o \in Arrays
      <4>1. PICK u \in Spaces :
              \/ o = Root(u)
              \/ \E i \in Nibbles : o = L1(u, i) /\ Root(u) \in Arrays
              \/ \E i, j \in Nibbles : o = L2(u, i, j) /\ L1(u, i) \in Arrays
        BY <3>1 DEF IInv, Rooted
      <4> QED
        BY <1>2, <4>1
    <3>2. ASSUME NEW i \in Nibbles, NEW j \in Nibbles, o = L2(t, i, j), L2(s, i, j) \in Arrays
          PROVE  L1(t, i) \in Arrays'
      BY <1>2, <3>2, Parents DEF IInv
    <3>3. Root(t) \in Arrays'
      BY <1>2
    <3>4. \/ o \in Arrays
          \/ o = Root(t)
          \/ \E i \in Nibbles : o = L1(t, i) /\ L1(s, i) \in Arrays
          \/ \E i, j \in Nibbles : o = L2(t, i, j) /\ L2(s, i, j) \in Arrays
      BY <1>0 DEF CopyMade
    <3> QED
      BY <3>1, <3>2, <3>3, <3>4
  <2> QED
    BY <2>1 DEF Rooted
<1>5. Linked'
  <2>1. ASSUME NEW u \in Spaces, NEW i \in Nibbles, Root(u) \in Arrays'
        PROVE  array'[Root(u)][i] = IF L1(u, i) \in Arrays' THEN L1(u, i) ELSE None
    <3>1. CASE u = t
      <4>1. array'[Root(t)][i] = IF L1(s, i) \in Arrays THEN L1(t, i) ELSE None
        BY <1>0 DEF CopyMade
      <4> QED
        BY <1>1, <1>2, <3>1, <4>1
    <3>2. CASE u # t
      <4>1. Root(u) \in Arrays /\ array'[Root(u)] = array[Root(u)]
        BY <1>0, <1>2, <2>1, <3>2 DEF CopyMade
      <4> QED
        BY <1>2, <3>2, <4>1 DEF IInv, Linked
    <3> QED
      BY <3>1, <3>2
  <2>2. ASSUME NEW u \in Spaces, NEW i \in Nibbles, NEW j \in Nibbles, L1(u, i) \in Arrays'
        PROVE  array'[L1(u, i)][j] = IF L2(u, i, j) \in Arrays' THEN L2(u, i, j) ELSE None
    <3>1. CASE u = t
      <4>1. L1(s, i) \in Arrays
        BY <1>1, <1>2, <2>2, <3>1
      <4>2. array'[L1(t, i)][j] = IF L2(s, i, j) \in Arrays THEN L2(t, i, j) ELSE None
        BY <1>0, <4>1 DEF CopyMade
      <4> QED
        BY <1>1, <1>2, <3>1, <4>2
    <3>2. CASE u # t
      <4>1. L1(u, i) \in Arrays /\ array'[L1(u, i)] = array[L1(u, i)]
        BY <1>0, <1>2, <2>2, <3>2 DEF CopyMade
      <4> QED
        BY <1>2, <3>2, <4>1 DEF IInv, Linked
    <3> QED
      BY <3>1, <3>2
  <2> QED
    BY <2>1, <2>2 DEF Linked
<1>6. Held'
  <2>1. ASSUME NEW u \in Spaces, NEW a \in Triples, Reg(u, a)' # None
        PROVE  Reg(u, a)' \in DOMAIN value' /\ Reg(u, a)'[1] = u /\ Reg(u, a)'[2] = a
    <3>1. Reg(u, a)' = IF u # t THEN Reg(u, a)
                       ELSE IF Reg(s, a) = None THEN None ELSE Allocated(t, a)
      BY <1>0 DEF CopyMade
    <3>2. CASE u # t
      <4>1. Reg(u, a) \in DOMAIN value /\ Reg(u, a)[1] = u /\ Reg(u, a)[2] = a
        BY <2>1, <3>1, <3>2, Registers
      <4>2. Reg(u, a) \in DOMAIN value'
        BY <1>0, <4>1 DEF CopyMade
      <4> QED
        BY <3>1, <3>2, <4>1, <4>2
    <3>3. CASE u = t
      <4>1. Reg(s, a) # None /\ Reg(u, a)' = Allocated(t, a)
        BY <2>1, <3>1, <3>3
      <4>2. /\ Allocated(t, a)[1] = t /\ Allocated(t, a)[2] = a
            /\ Allocated(t, a) \in DOMAIN value'
        BY <1>0, <4>1 DEF CopyMade
      <4> QED
        BY <3>3, <4>1, <4>2
    <3> QED
      BY <3>2, <3>3
  <2> QED
    BY <2>1 DEF Held
<1> QED
  BY <1>3, <1>4, <1>5, <1>6 DEF IInv

LEMMA NextOwned == IInv /\ [CsrNext]_csrVars => IInv'
<1> SUFFICES ASSUME IInv, [CsrNext]_csrVars PROVE IInv'
  OBVIOUS
<1>1. CASE CsrNext
  BY <1>1, ConstructOwned, SetOwned, WriteOwned, CopyOwned, DestroyOwned DEF CsrNext
<1>2. CASE UNCHANGED csrVars
  BY <1>2 DEF csrVars, IInv, Typed, Rooted, Linked, Held, Reg, Arrays
<1> QED
  BY <1>1, <1>2

(* The arrays of a space are a tree below its root, in which a pointer is  *)
(* null exactly where the array is missing, and a register that is pointed *)
(* to is live and was made for that place; every call of the constructors, *)
(* SetCSR, SetValue and the destructors keeps it so.                       *)
THEOREM SpacesInductive == CsrSpec => []IInv
<1>1. CsrInit => IInv
  BY InitOwned
<1>2. IInv /\ [CsrNext]_csrVars => IInv'
  BY NextOwned
<1> QED
  BY <1>1, <1>2, PTL DEF CsrSpec

(* Whatever is copied from what, redefined and deleted in which order, no  *)
(* pointer dangles and no two lead to the same object, for any spaces and  *)
(* addresses: no destructor deletes twice, and no space shares a register  *)
(* with its copy.  Of registers that nothing leads to it says nothing.     *)
THEOREM ObjectsOwnedOnce == CsrSpec => []OneOwner
BY SpacesInductive, OwnedOnce, PTL

-----------------------------------------------------------------------------
(* What is lost, read off the places registers hang at.                    *)
Unreached ==
  \A o : o \in Lost <=>
    o \in DOMAIN value /\ ~\E s \in Spaces, a \in Triples : o = Reg(s, a)

LEMMA LostUnreached == IInv => Unreached
BY LostRegisters DEF Unreached

LEMMA ConstructLoses ==
  ASSUME IInv, Unreached, Unreached', NEW s \in Spaces, Construct(s)
  PROVE  Lost' = Lost
<1>1. value' = value /\ \A u \in Spaces, a \in Triples : Reg(u, a)' = Reg(u, a)
  BY ConstructRegs
<1>2. ASSUME NEW o PROVE o \in Lost' <=> o \in Lost
  BY <1>1 DEF Unreached
<1> QED
  BY <1>2 DEF Lost

LEMMA WriteLoses ==
  ASSUME IInv, Unreached, Unreached',
         NEW s \in Spaces, NEW a \in Addresses, NEW v \in Values, SetValue(s, a, v)
  PROVE  Lost' = Lost
<1>1. /\ DOMAIN value' = DOMAIN value
      /\ \A u \in Spaces, b \in Triples : Reg(u, b)' = Reg(u, b)
  BY WriteRegs
<1>2. ASSUME NEW o PROVE o \in Lost' <=> o \in Lost
  BY <1>1 DEF Unreached
<1> QED
  BY <1>2 DEF Lost

LEMMA DestroyLoses ==
  ASSUME IInv, Unreached, Unreached', NEW s \in Spaces, Destroy(s)
  PROVE  Lost' = Lost
<1>1. /\ \A u \in Spaces, a \in Triples : Reg(u, a)' = IF u = s THEN None ELSE Reg(u, a)
      /\ \A o : o \in DOMAIN value' <=> o \in DOMAIN value /\ ~\E a \in Triples : o = Reg(s, a)
  BY DestroyRegs
<1>2. None \notin DOMAIN value
  BY CsrAssumption DEF IInv, Typed
<1>3. ASSUME NEW o PROVE o \in Lost' <=> o \in Lost
  <2>1. CASE o \in Lost
    BY <1>1, <1>2, <2>1 DEF Unreached
  <2>2. CASE o \in Lost'
    BY <1>1, <1>2, <2>2 DEF Unreached
  <2> QED
    BY <2>1, <2>2
<1> QED
  BY <1>3 DEF Lost

LEMMA CopyLoses ==
  ASSUME IInv, Unreached, Unreached', NEW s \in Spaces, NEW t \in Spaces, CopySpace(s, t)
  PROVE  Lost' = Lost
<1>1. /\ Root(t) \notin Arrays
      /\ \A a \in Triples : Reg(s, a) # None => Allocated(t, a) \notin DOMAIN value
      /\ \A u \in Spaces, a \in Triples :
           Reg(u, a)' = IF u # t THEN Reg(u, a)
                        ELSE IF Reg(s, a) = None THEN None ELSE Allocated(t, a)
      /\ \A o : o \in DOMAIN value' <=>
           \/ o \in DOMAIN value
           \/ \E a \in Triples : Reg(s, a) # None /\ o = Allocated(t, a)
  <2>1. CopyMade(s, t)
    BY CopyMakesTree
  <2> QED
    BY <2>1 DEF CopyMade
<1>2. None \notin DOMAIN value
  BY CsrAssumption DEF IInv, Typed
<1>3. \A a \in Triples : Reg(t, a) = None
  BY <1>1, NothingOf
<1>4. ASSUME NEW o, o \in Lost PROVE o \in Lost'
  <2>1. o \in DOMAIN value'
    BY <1>1, <1>4 DEF Unreached
  <2>2. ASSUME NEW u \in Spaces, NEW a \in Triples, o = Reg(u, a)' PROVE FALSE
    BY <1>1, <1>2, <1>4, <2>2 DEF Unreached
  <2> QED
    BY <2>1, <2>2 DEF Unreached
<1>5. ASSUME NEW o, o \in Lost' PROVE o \in Lost
  <2>1. o \in DOMAIN value
    <3>1. ASSUME NEW a \in Triples, Reg(s, a) # None, o = Allocated(t, a) PROVE FALSE
      <4>1. o = Reg(t, a)'
        BY <1>1, <3>1
      <4> QED
        BY <1>5, <4>1 DEF Unreached
    <3> QED
      BY <1>1, <1>5, <3>1 DEF Unreached
  <2>2. ASSUME NEW u \in Spaces, NEW a \in Triples, o = Reg(u, a) PROVE FALSE
    <3>1. u # t
      BY <1>2, <1>3, <2>1, <2>2
    <3>2. o = Reg(u, a)'
      BY <1>1, <2>2, <3>1
    <3> QED
      BY <1>5, <3>2 DEF Unreached
  <2> QED
    BY <2>1, <2>2 DEF Unreached
<1> QED
  BY <1>4, <1>5 DEF Lost

LEMMA SetLoses ==
  ASSUME IInv, Unreached, Unreached', NEW s \in Spaces, NEW a \in Addresses, SetCSR(s, a)
  PROVE  Lost' = Lost \cup ({GetCSR(s, a)} \ {None})
<1> DEFINE csr == Allocated(s, a)
<1>1. /\ csr \notin DOMAIN value
      /\ DOMAIN value' = DOMAIN value \cup {csr}
      /\ \A u \in Spaces, b \in Triples :
           Reg(u, b)' = IF u = s /\ b = a THEN csr ELSE Reg(u, b)
  BY SetRegs
<1>2. GetCSR(s, a) = Reg(s, a)
  BY Found DEF SetCSR
<1>3. a \in Triples /\ None \notin DOMAIN value
  BY Tripled, CsrAssumption DEF IInv, Typed
<1> HIDE DEF csr
<1>4. ASSUME NEW o, o \in Lost PROVE o \in Lost'
  BY <1>1, <1>4 DEF Unreached
<1>5. Reg(s, a) # None => Reg(s, a) \in Lost'
  <2> SUFFICES ASSUME Reg(s, a) # None PROVE Reg(s, a) \in Lost'
    OBVIOUS
  <2>1. Reg(s, a) \in DOMAIN value
    BY <1>3, Registers
  <2>2. ASSUME NEW u \in Spaces, NEW b \in Triples, Reg(s, a) = Reg(u, b)' PROVE FALSE
    <3>1. ~(u = s /\ b = a)
      BY <1>1, <2>1, <2>2
    <3>2. Reg(s, a) = Reg(u, b)
      BY <1>1, <2>2, <3>1
    <3> QED
      BY <1>3, <3>1, <3>2, RegistersDiffer
  <2> QED
    BY <1>1, <2>1, <2>2 DEF Unreached
<1>6. ASSUME NEW o, o \in Lost' PROVE o \in Lost \/ (o = Reg(s, a) /\ o # None)
  <2>1. o \in DOMAIN value
    <3>1. o # Reg(s, a)'
      BY <1>3, <1>6 DEF Unreached
    <3>2. Reg(s, a)' = csr
      BY <1>1, <1>3
    <3>3. o \in DOMAIN value'
      BY <1>6 DEF Unreached
    <3> QED
      BY <1>1, <3>1, <3>2, <3>3
  <2>2. ASSUME NEW u \in Spaces, NEW b \in Triples, o = Reg(u, b) PROVE o = Reg(s, a)
    <3>1. o # Reg(u, b)'
      BY <1>6 DEF Unreached
    <3> QED
      BY <1>1, <2>2, <3>1
  <2> QED
    BY <1>3, <2>1, <2>2 DEF Unreached
<1>7. ASSUME NEW o PROVE o \in Lost' <=> o \in Lost \cup ({GetCSR(s, a)} \ {None})
  BY <1>2, <1>4, <1>5, <1>6
<1> QED
  BY <1>7 DEF Lost

(* SetCSR never deletes the register it replaces, and that is all a space  *)
(* ever loses: a copy and a destruction lose nothing, for any spaces and   *)
(* addresses, and what is lost is never found again.                       *)
THEOREM OnlyTheReplacedAreLost == CsrSpec => OnlyRedefinitionLoses
<1> DEFINE Loses ==
      /\ \A s \in Spaces, a \in Addresses :
           SetCSR(s, a) => Lost' = Lost \cup ({GetCSR(s, a)} \ {None})
      /\ Lost' # Lost => \E s \in Spaces, a \in Addresses : SetCSR(s, a)
<1>1. (IInv => Unreached)'
  BY LostUnreached, PTL
<1>2. ASSUME IInv, IInv', CsrNext PROVE Loses
  <2>1. Unreached /\ Unreached'
    BY <1>1, <1>2, LostUnreached
  <2>2. \A s \in Spaces, a \in Addresses :
          SetCSR(s, a) => Lost' = Lost \cup ({GetCSR(s, a)} \ {None})
    BY <1>2, <2>1, SetLoses
  <2>3. Lost' # Lost => \E s \in Spaces, a \in Addresses : SetCSR(s, a)
    BY <1>2, <2>1, ConstructLoses, WriteLoses, CopyLoses, DestroyLoses DEF CsrNext
  <2> QED
    BY <2>2, <2>3
<1>3. IInv /\ IInv' /\ [CsrNext]_csrVars => [Loses]_csrVars
  BY <1>2
<1> HIDE DEF Loses
<1>4. CsrSpec => [][Loses]_csrVars
  BY <1>3, SpacesInductive, PTL DEF CsrSpec
<1> QED
  BY <1>4 DEF OnlyRedefinitionLoses, Loses

-----------------------------------------------------------------------------
(* The map, read off what is live.                                         *)
Holdings ==
  /\ Contents = [s \in Spaces |-> Contents[s]]
  /\ \A s \in Spaces : Root(s) \notin Arrays => Contents[s] = None
  /\ \A s \in Spaces : Root(s) \in Arrays =>
       /\ Contents[s] # None
       /\ Contents[s] = [a \in Addresses |-> Contents[s][a]]
  /\ \A s \in Spaces, a \in Addresses : Root(s) \in Arrays =>
       Contents[s][a] = IF Reg(s, a) = None THEN None ELSE value[Reg(s, a)]

LEMMA ContentsHeld == IInv => Holdings
<1> SUFFICES ASSUME IInv PROVE Holdings
  OBVIOUS
<1>1. Contents = [s \in Spaces |-> Contents[s]]
  BY DEF Contents
<1>2. ASSUME NEW s \in Spaces, Root(s) \notin Arrays PROVE Contents[s] = None
  BY <1>2 DEF Contents, IsConstructed, Arrays
<1>3. ASSUME NEW s \in Spaces, Root(s) \in Arrays
      PROVE  /\ Contents[s] # None
             /\ Contents[s] = [a \in Addresses |-> Contents[s][a]]
             /\ \A a \in Addresses :
                  Contents[s][a] = IF Reg(s, a) = None THEN None ELSE value[Reg(s, a)]
  <2>1. IsConstructed(s)
    BY <1>3 DEF IsConstructed, Arrays
  <2>2. Contents[s] =
          [a \in Addresses |-> IF GetCSR(s, a) = None THEN None ELSE value[GetCSR(s, a)]]
    BY <2>1 DEF Contents
  <2>3. ASSUME NEW a \in Addresses
        PROVE  Contents[s][a] = IF Reg(s, a) = None THEN None ELSE value[Reg(s, a)]
    <3>1. GetCSR(s, a) = Reg(s, a)
      BY <2>1, Found
    <3> QED
      BY <2>2, <3>1
  <2>4. \A a \in Addresses : Contents[s][a] \in Values \cup {None}
    BY <2>3, Registers, Tripled DEF IInv, Typed
  <2>5. Contents[s] \in [Addresses -> Values \cup {None}]
    <3> DEFINE m == Contents[s]
    <3>1. m = [a \in Addresses |-> m[a]] /\ \A a \in Addresses : m[a] \in Values \cup {None}
      BY <2>2, <2>4
    <3> HIDE DEF m
    <3>2. m \in [Addresses -> Values \cup {None}]
      BY <3>1
    <3> QED
      BY <3>2 DEF m
  <2>6. Contents[s] # None
    BY <2>5, CsrAssumption
  <2> QED
    BY <2>2, <2>3, <2>6
<1> QED
  BY <1>1, <1>2, <1>3 DEF Holdings

(* A space keeps its map if its pointers and what they lead to are kept.   *)
LEMMA MapKept ==
  ASSUME Holdings, Holdings', NEW s \in Spaces,
         Root(s) \in Arrays' <=> Root(s) \in Arrays,
         \A a \in Addresses :
           /\ Reg(s, a)' = Reg(s, a)
           /\ Reg(s, a) # None => value'[Reg(s, a)] = value[Reg(s, a)]
  PROVE  Contents'[s] = Contents[s]
<1>1. CASE Root(s) \notin Arrays
  BY <1>1 DEF Holdings
<1>2. CASE Root(s) \in Arrays
  <2>1. ASSUME NEW a \in Addresses PROVE Contents'[s][a] = Contents[s][a]
    <3>1. Contents'[s][a] = IF Reg(s, a)' = None THEN None ELSE value'[Reg(s, a)']
      BY <1>2 DEF Holdings
    <3>2. Contents[s][a] = IF Reg(s, a) = None THEN None ELSE value[Reg(s, a)]
      BY <1>2 DEF Holdings
    <3>3. /\ Reg(s, a)' = Reg(s, a)
          /\ Reg(s, a) # None => value'[Reg(s, a)] = value[Reg(s, a)]
      OBVIOUS
    <3> QED
      BY <3>1, <3>2, <3>3
  <2>2. /\ Contents'[s] = [a \in Addresses |-> Contents'[s][a]]
        /\ Contents[s] = [a \in Addresses |-> Contents[s][a]]
    BY <1>2 DEF Holdings
  <2> QED
    BY <2>1, <2>2
<1> QED
  BY <1>1, <1>2

LEMMA ConstructMaps ==
  ASSUME IInv, Holdings, Holdings', NEW s \in Spaces, Construct(s)
  PROVE  Map!Construct(s)
<1>1. /\ Root(s) \notin Arrays /\ value' = value
      /\ \A u \in Spaces : Root(u) \in Arrays' <=> Root(u) \in Arrays \/ u = s
      /\ \A u \in Spaces, a \in Addresses : Reg(u, a)' = Reg(u, a)
  BY ConstructRegs, Tripled
<1>2. ASSUME NEW u \in Spaces, u # s PROVE Contents'[u] = Contents[u]
  <2>1. Root(u) \in Arrays' <=> Root(u) \in Arrays
    BY <1>1, <1>2
  <2> QED
    BY <1>1, <2>1, MapKept
<1>3. Contents'[s] = Map!Empty
  <2>1. \A a \in Addresses : Reg(s, a)' = None
    BY <1>1, NothingOf, Tripled
  <2>2. \A a \in Addresses : Contents'[s][a] = None
    BY <1>1, <2>1 DEF Holdings
  <2>3. Contents'[s] = [a \in Addresses |-> Contents'[s][a]]
    BY <1>1 DEF Holdings
  <2> QED
    BY <2>2, <2>3 DEF Map!Empty
<1>4. Contents[s] = None
  BY <1>1 DEF Holdings
<1>5. Contents' = [Contents EXCEPT ![s] = Map!Empty]
  <2>1. Contents' = [u \in Spaces |-> Contents'[u]] /\ Contents = [u \in Spaces |-> Contents[u]]
    BY DEF Holdings
  <2> QED
    BY <1>2, <1>3, <2>1
<1> QED
  BY <1>4, <1>5 DEF Map!Construct

LEMMA SetMaps ==
  ASSUME IInv, Holdings, Holdings', NEW s \in Spaces, NEW a \in Addresses, SetCSR(s, a)
  PROVE  Map!Define(s, a)
<1> DEFINE csr == Allocated(s, a)
<1>1. /\ csr \notin DOMAIN value /\ csr # None /\ Root(s) \in Arrays
      /\ \A u \in Spaces : Root(u) \in Arrays' <=> Root(u) \in Arrays
      /\ DOMAIN value' = DOMAIN value \cup {csr}
      /\ value' = [o \in DOMAIN value' |-> IF o = csr THEN Zero ELSE value[o]]
      /\ \A u \in Spaces, b \in Addresses :
           Reg(u, b)' = IF u = s /\ b = a THEN csr ELSE Reg(u, b)
  BY SetRegs, Tripled
<1> HIDE DEF csr
<1>2. \A u \in Spaces, b \in Addresses :
        Reg(u, b) # None => value'[Reg(u, b)] = value[Reg(u, b)]
  <2>1. \A u \in Spaces, b \in Addresses : Reg(u, b) # None => Reg(u, b) \in DOMAIN value
    BY Registers, Tripled
  <2> QED
    BY <1>1, <2>1
<1>3. ASSUME NEW u \in Spaces, u # s PROVE Contents'[u] = Contents[u]
  BY <1>1, <1>2, <1>3, MapKept
<1>4. Contents'[s] = [Contents[s] EXCEPT ![a] = Zero]
  <2>1. Contents'[s][a] = Zero
    <3>1. Contents'[s][a] = IF Reg(s, a)' = None THEN None ELSE value'[Reg(s, a)']
      BY <1>1 DEF Holdings
    <3> QED
      BY <1>1, <3>1
  <2>2. ASSUME NEW b \in Addresses, b # a PROVE Contents'[s][b] = Contents[s][b]
    <3>1. Contents'[s][b] = IF Reg(s, b)' = None THEN None ELSE value'[Reg(s, b)']
      BY <1>1 DEF Holdings
    <3>2. Contents[s][b] = IF Reg(s, b) = None THEN None ELSE value[Reg(s, b)]
      BY <1>1 DEF Holdings
    <3>3. Reg(s, b)' = Reg(s, b)
      BY <1>1, <2>2
    <3> QED
      BY <1>2, <3>1, <3>2, <3>3
  <2>3. /\ Contents'[s] = [b \in Addresses |-> Contents'[s][b]]
        /\ Contents[s] = [b \in Addresses |-> Contents[s][b]]
    BY <1>1 DEF Holdings
  <2> QED
    BY <2>1, <2>2, <2>3
<1>5. Contents[s] # None
  BY <1>1 DEF Holdings
<1>6. Contents' = [Contents EXCEPT ![s][a] = Zero]
  <2>1. Contents' = [u \in Spaces |-> Contents'[u]] /\ Contents = [u \in Spaces |-> Contents[u]]
    BY DEF Holdings
  <2> QED
    BY <1>3, <1>4, <2>1
<1> QED
  BY <1>5, <1>6 DEF Map!Define

LEMMA WriteMaps ==
  ASSUME IInv, Holdings, Holdings', NEW s \in Spaces, NEW a \in Addresses, NEW v \in Values,
         SetValue(s, a, v)
  PROVE  Map!Write(s, a, v)
<1>1. /\ Root(s) \in Arrays /\ Arrays' = Arrays
      /\ \A u \in Spaces, b \in Addresses : Reg(u, b)' = Reg(u, b)
      /\ value' = IF Reg(s, a) = None THEN value ELSE [value EXCEPT ![Reg(s, a)] = v]
  BY WriteRegs, Tripled
<1>2. value = [o \in DOMAIN value |-> value[o]] /\ \A o \in DOMAIN value : value[o] \in Values
  BY DEF IInv, Typed
<1>3. \A u \in Spaces, b \in Addresses : Reg(u, b) # None => Reg(u, b) \in DOMAIN value
  BY Registers, Tripled
<1>4. Contents[s] # None
  BY <1>1 DEF Holdings
<1>5. Contents[s][a] = None <=> Reg(s, a) = None
  <2>1. Contents[s][a] = IF Reg(s, a) = None THEN None ELSE value[Reg(s, a)]
    BY <1>1 DEF Holdings
  <2> QED
    BY <1>2, <1>3, <2>1, CsrAssumption
<1>6. /\ Contents' = [u \in Spaces |-> Contents'[u]]
      /\ Contents = [u \in Spaces |-> Contents[u]]
      /\ Contents'[s] = [b \in Addresses |-> Contents'[s][b]]
      /\ Contents[s] = [b \in Addresses |-> Contents[s][b]]
  BY <1>1 DEF Holdings
<1>7. CASE Reg(s, a) = None
  <2>1. \A u \in Spaces : Contents'[u] = Contents[u]
    BY <1>1, <1>7, MapKept
  <2> QED
    BY <1>4, <1>5, <1>6, <1>7, <2>1 DEF Map!Write
<1>8. CASE Reg(s, a) # None
  <2>1. \A o \in DOMAIN value : value'[o] = IF o = Reg(s, a) THEN v ELSE value[o]
    BY <1>1, <1>2, <1>8
  <2>2. \A u \in Spaces, b \in Addresses :
          Reg(u, b) # None /\ ~(u = s /\ b = a) => value'[Reg(u, b)] = value[Reg(u, b)]
    <3>1. ASSUME NEW u \in Spaces, NEW b \in Addresses, Reg(u, b) # None, ~(u = s /\ b = a)
          PROVE  Reg(u, b) # Reg(s, a)
      BY <3>1, RegistersDiffer, Tripled
    <3> QED
      BY <1>3, <2>1, <3>1
  <2>3. ASSUME NEW u \in Spaces, u # s PROVE Contents'[u] = Contents[u]
    BY <1>1, <2>2, <2>3, MapKept
  <2>4. Contents'[s] = [Contents[s] EXCEPT ![a] = v]
    <3>1. Contents'[s][a] = v
      <4>1. Contents'[s][a] = IF Reg(s, a)' = None THEN None ELSE value'[Reg(s, a)']
        BY <1>1 DEF Holdings
      <4> QED
        BY <1>1, <1>3, <1>8, <2>1, <4>1
    <3>2. ASSUME NEW b \in Addresses, b # a PROVE Contents'[s][b] = Contents[s][b]
      <4>1. Contents'[s][b] = IF Reg(s, b)' = None THEN None ELSE value'[Reg(s, b)']
        BY <1>1 DEF Holdings
      <4>2. Contents[s][b] = IF Reg(s, b) = None THEN None ELSE value[Reg(s, b)]
        BY <1>1 DEF Holdings
      <4>3. Reg(s, b)' = Reg(s, b)
        BY <1>1
      <4> QED
        BY <2>2, <3>2, <4>1, <4>2, <4>3
    <3> QED
      BY <1>6, <3>1, <3>2
  <2>5. Contents' = [Contents EXCEPT ![s][a] = v]
    BY <1>6, <2>3, <2>4
  <2> QED
    BY <1>4, <1>5, <1>8, <2>5 DEF Map!Write
<1> QED
  BY <1>7, <1>8

LEMMA CopyMaps ==
  ASSUME IInv, Holdings, Holdings', NEW s \in Spaces, NEW t \in Spaces, CopySpace(s, t)
  PROVE  Map!Copy(s, t)
<1>0. CopyMade(s, t)
  BY CopyMakesTree
<1>1. /\ s # t /\ Root(s) \in Arrays /\ Root(t) \notin Arrays
      /\ \A u \in Spaces : Root(u) \in Arrays' <=> Root(u) \in Arrays \/ u = t
  <2>1. \A o : o \in Arrays' <=>
          \/ o \in Arrays
          \/ o = Root(t)
          \/ \E i \in Nibbles : o = L1(t, i) /\ L1(s, i) \in Arrays
          \/ \E i, j \in Nibbles : o = L2(t, i, j) /\ L2(s, i, j) \in Arrays
    BY <1>0 DEF CopyMade
  <2>2. \A u \in Spaces : Root(u) \in Arrays' <=> Root(u) \in Arrays \/ u = t
    BY <2>1, ArraysDiffer
  <2> QED
    BY <1>0, <2>2 DEF CopyMade
<1>2. /\ \A u \in Spaces, a \in Addresses :
           Reg(u, a)' = IF u # t THEN Reg(u, a)
                        ELSE IF Reg(s, a) = None THEN None ELSE Allocated(t, a)
      /\ \A o \in DOMAIN value : value'[o] = value[o]
      /\ \A a \in Addresses : Reg(s, a) # None =>
           Allocated(t, a) # None /\ value'[Allocated(t, a)] = value[Reg(s, a)]
  BY <1>0, Tripled DEF CopyMade
<1>3. ASSUME NEW u \in Spaces, u # t PROVE Contents'[u] = Contents[u]
  <2>1. \A a \in Addresses : Reg(u, a) # None => Reg(u, a) \in DOMAIN value
    BY Registers, Tripled
  <2> QED
    BY <1>1, <1>2, <1>3, <2>1, MapKept
<1>4. Contents'[t] = Contents[s]
  <2>1. ASSUME NEW a \in Addresses PROVE Contents'[t][a] = Contents[s][a]
    <3>1. Contents'[t][a] = IF Reg(t, a)' = None THEN None ELSE value'[Reg(t, a)']
      BY <1>1 DEF Holdings
    <3>2. Contents[s][a] = IF Reg(s, a) = None THEN None ELSE value[Reg(s, a)]
      BY <1>1 DEF Holdings
    <3> QED
      BY <1>2, <3>1, <3>2
  <2>2. /\ Contents'[t] = [a \in Addresses |-> Contents'[t][a]]
        /\ Contents[s] = [a \in Addresses |-> Contents[s][a]]
    BY <1>1 DEF Holdings
  <2> QED
    BY <2>1, <2>2
<1>5. Contents[s] # None /\ Contents[t] = None
  BY <1>1 DEF Holdings
<1>6. Contents' = [Contents EXCEPT ![t] = Contents[s]]
  <2>1. Contents' = [u \in Spaces |-> Contents'[u]] /\ Contents = [u \in Spaces |-> Contents[u]]
    BY DEF Holdings
  <2> QED
    BY <1>3, <1>4, <2>1
<1> QED
  BY <1>5, <1>6 DEF Map!Copy

LEMMA DestroyMaps ==
  ASSUME IInv, Holdings, Holdings', NEW s \in Spaces, Destroy(s)
  PROVE  Map!Destroy(s)
<1>1. /\ Root(s) \in Arrays
      /\ \A u \in Spaces : Root(u) \in Arrays' <=> Root(u) \in Arrays /\ u # s
      /\ \A u \in Spaces, a \in Triples : Reg(u, a)' = IF u = s THEN None ELSE Reg(u, a)
      /\ \A o : o \in DOMAIN value' <=> o \in DOMAIN value /\ ~\E a \in Triples : o = Reg(s, a)
      /\ value' = [o \in DOMAIN value' |-> value[o]]
  BY DestroyRegs
<1>2. ASSUME NEW u \in Spaces, u # s PROVE Contents'[u] = Contents[u]
  <2>1. ASSUME NEW a \in Addresses, Reg(u, a) # None
        PROVE  value'[Reg(u, a)] = value[Reg(u, a)]
    <3>1. a \in Triples /\ Reg(u, a) \in DOMAIN value
      BY <2>1, Registers, Tripled
    <3>2. ~\E b \in Triples : Reg(u, a) = Reg(s, b)
      BY <1>2, <2>1, <3>1, RegistersDiffer
    <3>3. Reg(u, a) \in DOMAIN value'
      BY <1>1, <3>1, <3>2
    <3> QED
      BY <1>1, <3>3
  <2>2. \A a \in Addresses : Reg(u, a)' = Reg(u, a)
    BY <1>1, <1>2, Tripled
  <2> QED
    BY <1>1, <1>2, <2>1, <2>2, MapKept
<1>3. Contents'[s] = None /\ Contents[s] # None
  BY <1>1 DEF Holdings
<1>4. Contents' = [Contents EXCEPT ![s] = None]
  <2>1. Contents' = [u \in Spaces |-> Contents'[u]] /\ Contents = [u \in Spaces |-> Contents[u]]
    BY DEF Holdings
  <2> QED
    BY <1>2, <1>3, <2>1
<1> QED
  BY <1>3, <1>4 DEF Map!Destroy

(* The spaces are maps: through the tree, every definition, write, copy    *)
(* and destruction does to the map of its space what CsrMap says, and to   *)
(* no other space anything.                                                *)
THEOREM SpacesImplementation == CsrSpec => CsrImplementsMap
<1> DEFINE Calls ==
      \A s \in Spaces :
          /\ Construct(s) => Map!Construct(s)
          /\ Destroy(s) => Map!Destroy(s)
          /\ \A t \in Spaces : CopySpace(s, t) => Map!Copy(s, t)
          /\ \A a \in Addresses :
               /\ SetCSR(s, a) => Map!Define(s, a)
               /\ \A v \in Values : SetValue(s, a, v) => Map!Write(s, a, v)
<1>1. CsrInit => Map!Init
  BY DEF CsrInit, Map!Init, Contents, IsConstructed
<1>2. (IInv => Holdings)'
  BY ContentsHeld, PTL
<1>3. IInv /\ IInv' => Calls
  BY <1>2, ContentsHeld, ConstructMaps, SetMaps, WriteMaps, CopyMaps, DestroyMaps
<1>4. IInv /\ IInv' /\ [CsrNext]_csrVars => [Map!Next]_Contents
  <2> SUFFICES ASSUME IInv, IInv', [CsrNext]_csrVars PROVE [Map!Next]_Contents
    OBVIOUS
  <2>1. CASE CsrNext
    <3>1. Calls
      BY <1>3
    <3>2. Map!Next
      BY <2>1, <3>1 DEF CsrNext, Map!Next
    <3> QED
      BY <3>2
  <2>2. CASE UNCHANGED csrVars
    BY <2>2 DEF csrVars, Contents, IsConstructed, GetCSR, Pointer
  <2> QED
    BY <2>1, <2>2
<1>5. IInv /\ IInv' => [Calls]_csrVars
  BY <1>3
<1> HIDE DEF Calls
<1>6. CsrSpec => Map!Spec
  BY <1>1, <1>4, SpacesInductive, PTL DEF CsrSpec, Map!Spec
<1>7. CsrSpec => [][Calls]_csrVars
  BY <1>5, SpacesInductive, PTL
<1> QED
  BY <1>6, <1>7, PTL DEF CsrImplementsMap, Calls
=============================================================================
