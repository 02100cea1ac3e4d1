------------------------------ MODULE Renaming ------------------------------
(***************************************************************************)
(* What register renaming promises, whatever tables implement it: an       *)
(* instruction that writes an architectural register gets a physical one   *)
(* no live value is in, lookups give the newest name in program order, and *)
(* a squash takes every trace of the dropped instructions back.            *)
(***************************************************************************)
EXTENDS Integers, Sequences

CONSTANTS
  Registers,      \* the physical registers
  Architectural,  \* the architectural registers that are renamed
  Nil             \* "no register"

VARIABLES
  window,  \* the instructions in flight, <<architectural, physical>>
  home,    \* the register of the committed value
  alias,   \* the register of the newest value
  ready    \* the registers no instruction in flight is about to write

absVars == <<window, home, alias, ready>>

Written(w) == {w[j][2] : j \in {i \in DOMAIN w : w[i][1] \in Architectural}}

Homes == {home[a] : a \in Architectural} \ {Nil}

(* The newest name after the instructions of w.                            *)
Newest(w, a) ==
  LET writers == {j \in DOMAIN w : w[j][1] = a}
  IN  IF writers = {} THEN home[a]
      ELSE w[CHOOSE j \in writers : \A i \in writers : i <= j][2]

Init ==
  /\ window = <<>>
  /\ home = [a \in Architectural |-> Nil]
  /\ alias = [a \in Architectural |-> Nil]
  /\ ready = Registers

Rename(a, p) ==
  /\ a \in Architectural /\ p \in Registers
  /\ p \notin Written(window) \cup Homes
  /\ window' = Append(window, <<a, p>>)
  /\ alias' = [alias EXCEPT ![a] = p]
  /\ ready' = ready \ {p}
  /\ UNCHANGED home

Pass(a) ==
  /\ a \notin Architectural
  /\ window' = Append(window, <<a, Nil>>)
  /\ UNCHANGED <<home, alias, ready>>

Retire ==
  /\ window # <<>>
  /\ window' = Tail(window)
  /\ LET a == Head(window)[1]
         p == Head(window)[2]
     IN  IF a \in Architectural
         THEN home' = [home EXCEPT ![a] = p] /\ ready' = ready \cup {p}
         ELSE UNCHANGED <<home, ready>>
  /\ UNCHANGED alias

Squash(k) ==
  /\ window' = SubSeq(window, 1, k)
  /\ alias' = [a \in Architectural |-> Newest(window', a)]
  /\ ready' = Registers \ Written(window')
  /\ UNCHANGED home

Overwrite(a, p) ==
  /\ window = <<>>
  /\ p \in Registers \ Homes
  /\ home' = [home EXCEPT ![a] = p]
  /\ alias' = [alias EXCEPT ![a] = p]
  /\ UNCHANGED <<window, ready>>

Next ==
  \/ \E a \in Architectural, p \in Registers : Rename(a, p) \/ Overwrite(a, p)
  \/ Pass(0)
  \/ Retire
  \/ \E k \in DOMAIN window : Squash(k)

Spec == Init /\ [][Next]_absVars

=============================================================================
