------------------------------ MODULE CsrSpace ------------------------------
(***************************************************************************)
(* RVCSRSpace (main/emulated/isa/riscvcsr.hpp): the registers hang in a    *)
(* tree of three levels, an array for every four bits of the address, made *)
(* when it is first needed.  Objects live on a heap.  An array is known by *)
(* the space it was made for and the path to it, which no two arrays share *)
(* as long as each has one owner; of the registers made for a space and an *)
(* address several may be live, and the heap has a place for each.         *)
(***************************************************************************)
EXTENDS Integers, Sequences

CONSTANTS
  Spaces,
  Addresses,  \* <<bits 11:8, bits 7:4, bits 3:0>>
  Values, Zero, None,
  Heap        \* where a register can be: <<space, address, number>>

VARIABLES
  array,  \* array[o][i]: the pointers of the arrays that are live
  value   \* value[o]: the RVCSR objects that are live

csrVars == <<array, value>>

Nibbles == UNION {{a[1], a[2], a[3]} : a \in Addresses}

ASSUME CsrAssumption ==
  /\ \A a \in Addresses : a = <<a[1], a[2], a[3]>>
  /\ Zero \in Values
  /\ None \notin Values \cup [Addresses -> Values \cup {None}]
  /\ Heap \subseteq Spaces \X Addresses \X Nat
  /\ None \notin Heap \cup (Spaces \X Seq(Nibbles))

Path(a, level) == SubSeq(a, 1, level)
NoPointers == [i \in Nibbles |-> None]

Root(s) == <<s, <<>>>>
IsConstructed(s) == Root(s) \in DOMAIN array
Pointer(o, i) == IF o = None THEN None ELSE array[o][i]

(* GetCSR: through SubspaceL1 and SubspaceL2, nullptr where one is.        *)
GetCSR(s, a) == Pointer(Pointer(Pointer(Root(s), a[1]), a[2]), a[3])

(* The objects that hang at an array.                                      *)
Children(o) == {array[o][i] : i \in Nibbles} \ {None}
L1s(s)  == Children(Root(s))
L2s(s)  == UNION {Children(o) : o \in L1s(s)}
CSRs(s) == UNION {Children(o) : o \in L2s(s)}

(* The places a register that is made for address a of s can have, and the *)
(* one it gets from the allocator, or from Clone, which both call new.     *)
Free(s, a) == {o \in Heap \ DOMAIN value : o[1] = s /\ o[2] = a}
Allocated(s, a) == CHOOSE o \in Free(s, a) : TRUE

CsrInit ==
  /\ array = [o \in {} |-> NoPointers]
  /\ value = [o \in {} |-> Zero]

-----------------------------------------------------------------------------
Construct(s) ==
  /\ ~IsConstructed(s)
  /\ array' = [o \in DOMAIN array \cup {Root(s)} |-> IF o = Root(s) THEN NoPointers ELSE array[o]]
  /\ UNCHANGED value

(* Mutant: a subspace is made even if there is one.                        *)
MissingAlways(o, i) == TRUE

(* !subspaces[i] of the array o, which may be new itself.                  *)
Missing(o, i) == o \notin DOMAIN array \/ array[o][i] = None

(* SetCSR of the three levels: the arrays that are missing are made, and   *)
(* what the allocator makes is pointed to in place of what was there,      *)
(* which is not deleted.  Bound: a place on the heap is free.              *)
SetCSR(s, a) ==
  LET l1 == IF Missing(Root(s), a[1]) THEN <<s, Path(a, 1)>> ELSE array[Root(s)][a[1]]
      l2 == IF Missing(l1, a[2]) THEN <<s, Path(a, 2)>> ELSE array[l1][a[2]]
      made == (IF Missing(Root(s), a[1]) THEN {l1} ELSE {})
                \cup (IF Missing(l1, a[2]) THEN {l2} ELSE {})
      arrays == [o \in DOMAIN array \cup made |-> IF o \in made THEN NoPointers ELSE array[o]]
      csr == Allocated(s, a)
  IN  /\ IsConstructed(s) /\ Free(s, a) # {}
      /\ array' = [arrays EXCEPT ![Root(s)][a[1]] = l1, ![l1][a[2]] = l2, ![l2][a[3]] = csr]
      /\ value' = [o \in DOMAIN value \cup {csr} |-> IF o = csr THEN Zero ELSE value[o]]

(* RequireCSR(a)->SetValue(v): throws where nothing is defined; a read     *)
(* only address stores all the same.                                       *)
SetValue(s, a, v) ==
  /\ IsConstructed(s)
  /\ value' = IF GetCSR(s, a) = None THEN value ELSE [value EXCEPT ![GetCSR(s, a)] = v]
  /\ UNCHANGED array

(* Mutant: the copy of a SubspaceL2 takes the pointers and does not Clone. *)
CopiedShallow(s) == {Root(s)} \cup L1s(s) \cup L2s(s)

(* The copy constructors of the three levels and Clone of the registers    *)
(* make a new object of each that the original reaches.                    *)
Copied(s) == {Root(s)} \cup L1s(s) \cup L2s(s) \cup CSRs(s)

(* Bound: the heap has a place for every clone.                            *)
CopySpace(s, t) ==
  LET CopyOf(o) == IF o \notin Copied(s) THEN o
                   ELSE IF o \in DOMAIN array THEN <<t, o[2]>> ELSE Allocated(t, o[2])
      arrays == {CopyOf(o) : o \in Copied(s) \cap DOMAIN array}
      clones == {CopyOf(o) : o \in Copied(s) \cap DOMAIN value}
  IN  /\ IsConstructed(s) /\ ~IsConstructed(t)
      /\ \A o \in Copied(s) \cap DOMAIN value : Free(t, o[2]) # {}
      /\ array' = [o \in DOMAIN array \cup arrays |->
                    IF o \in arrays THEN [i \in Nibbles |-> CopyOf(array[<<s, o[2]>>][i])]
                    ELSE array[o]]
      /\ value' = [o \in DOMAIN value \cup clones |->
                    IF o \in clones THEN value[GetCSR(s, o[2])] ELSE value[o]]

(* Mutant: ~SubspaceL2 deletes the array and not what hangs at it.         *)
DeletedNot(s) == {}

(* The destructors delete all that the space reaches.                      *)
Deleted(s) == CSRs(s)

Destroy(s) ==
  /\ IsConstructed(s)
  /\ array' = [o \in DOMAIN array \ ({Root(s)} \cup L1s(s) \cup L2s(s)) |-> array[o]]
  /\ value' = [o \in DOMAIN value \ Deleted(s) |-> value[o]]

CsrNext ==
  \E s \in Spaces :
    \/ Construct(s) \/ Destroy(s)
    \/ \E t \in Spaces : CopySpace(s, t)
    \/ \E a \in Addresses : SetCSR(s, a) \/ \E v \in Values : SetValue(s, a, v)

-----------------------------------------------------------------------------
Slots == {p \in (DOMAIN array) \X Nibbles : array[p[1]][p[2]] # None}
Target(p) == array[p[1]][p[2]]

(* No pointer dangles, no two lead to the same object, and every array     *)
(* that is live is the root of a space or pointed to: the destructors      *)
(* delete no object twice, and no space reaches into another, whatever was *)
(* copied from what.                                                       *)
OneOwner ==
  /\ \A p \in Slots : Target(p) \in DOMAIN array \cup DOMAIN value
  /\ \A p, q \in Slots : Target(p) = Target(q) => p = q
  /\ \A o \in DOMAIN array : o \in {Root(s) : s \in Spaces} \/ \E p \in Slots : Target(p) = o

(* The registers that are live and that nothing points to any more.        *)
Lost == DOMAIN value \ {Target(p) : p \in Slots}

(* A register that SetCSR replaces is lost, and nothing else ever is: not  *)
(* by a copy, not when a space is destroyed; and what is lost stays so, no *)
(* destructor and no later definition gets hold of it again.               *)
OnlyRedefinitionLoses ==
  [][/\ \A s \in Spaces, a \in Addresses :
          SetCSR(s, a) => Lost' = Lost \cup ({GetCSR(s, a)} \ {None})
     /\ Lost' # Lost => \E s \in Spaces, a \in Addresses : SetCSR(s, a)]_csrVars

(* The map a space is.                                                     *)
Contents ==
  [s \in Spaces |->
    IF IsConstructed(s)
    THEN [a \in Addresses |-> IF GetCSR(s, a) = None THEN None ELSE value[GetCSR(s, a)]]
    ELSE None]

Map == INSTANCE CsrMap WITH map <- Contents

(* Every call does to the map what it promises, and nothing else happens   *)
(* to any space: a definition of one register disturbs no other, and a     *)
(* write to a copy is not seen in the original.                            *)
CsrImplementsMap ==
  /\ Map!Spec
  /\ [][\A s \in Spaces :
          /\ Construct(s) => Map!Construct(s)
          /\ Destroy(s) => Map!Destroy(s)
          /\ \A t \in Spaces : CopySpace(s, t) => Map!Copy(s, t)
          /\ \A a \in Addresses :
               /\ SetCSR(s, a) => Map!Define(s, a)
               /\ \A v \in Values : SetValue(s, a, v) => Map!Write(s, a, v)]_csrVars
=============================================================================
