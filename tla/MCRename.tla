------------------------------ MODULE MCRename ------------------------------
(***************************************************************************)
(* Instances of RenameCore small enough for TLC.                           *)
(***************************************************************************)
EXTENDS RenameCore

(* Two registers, each computed from the other, and an instruction without *)
(* a destination.                                                          *)
MCInstructions == {<<1, 2>>, <<2, 1>>, <<0, 1>>}
MCBranches     == {1}

(* One register, computed from itself, and branches that wait for nothing. *)
MCOneRegister   == {<<1, 1>>}
MCUnconditional == {0}

=============================================================================
