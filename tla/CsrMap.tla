------------------------------- MODULE CsrMap -------------------------------
(***************************************************************************)
(* What a space of control and status registers promises: a map from the   *)
(* addresses that were defined to values, one for each space, and a copy   *)
(* that has nothing more to do with its original.                          *)
(***************************************************************************)
CONSTANTS Spaces, Addresses, Values, Zero, None

VARIABLE map  \* map[s][a]: the value at a, None if undefined; None: no space s

Empty == [a \in Addresses |-> None]

Init == map = [s \in Spaces |-> None]

Construct(s) == map[s] = None /\ map' = [map EXCEPT ![s] = Empty]

(* A register that is defined anew starts over.                            *)
Define(s, a) == map[s] # None /\ map' = [map EXCEPT ![s][a] = Zero]

Write(s, a, v) ==
  /\ map[s] # None
  /\ map' = IF map[s][a] = None THEN map ELSE [map EXCEPT ![s][a] = v]

Copy(s, t) == map[s] # None /\ map[t] = None /\ map' = [map EXCEPT ![t] = map[s]]

Destroy(s) == map[s] # None /\ map' = [map EXCEPT ![s] = None]

Next ==
  \E s \in Spaces :
    \/ Construct(s) \/ Destroy(s)
    \/ \E t \in Spaces : Copy(s, t)
    \/ \E a \in Addresses : Define(s, a) \/ \E v \in Values : Write(s, a, v)

Spec == Init /\ [][Next]_map
=============================================================================
