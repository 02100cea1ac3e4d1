------------------------- MODULE DecoderCollection -------------------------
(***************************************************************************)
(* RVDecoderCollection (main/emulated/isa/riscv.hpp): decoders in the      *)
(* order they were added, asked in turn.                                   *)
(***************************************************************************)
EXTENDS Integers, Sequences

CONSTANTS
  Decoders,  \* the RVDecoder objects: [name, canonical, accepts]
  None

VARIABLE decoders

S == INSTANCE SequencesExt

Indices == DOMAIN decoders

DecodersInit == decoders = <<>>

(* The overloads for a std::string forward to those for a const char*; but *)
(* that of HasCanonical to Has, which compares it with the plain names.    *)
Has(name) == \E i \in Indices : decoders[i].name = name
HasCanonical(canonical) == \E i \in Indices : decoders[i].canonical = canonical
HasCanonicalString(canonical) == Has(canonical)

(* Mutant: the newest decoder is asked first.                              *)
AddFront(d) ==
  decoders' = IF Has(d.name) \/ HasCanonical(d.canonical) THEN decoders ELSE <<d>> \o decoders

Add(d) ==
  decoders' = IF Has(d.name) \/ HasCanonical(d.canonical) THEN decoders ELSE Append(decoders, d)

(* Remove and RemoveCanonical: the first that has the name goes.           *)
Remove(name) ==
  decoders' = S!RemoveFirstMatch(decoders, LAMBDA d : d.name = name)
RemoveCanonical(canonical) ==
  decoders' = S!RemoveFirstMatch(decoders, LAMBDA d : d.canonical = canonical)

Clear == decoders' = <<>>

(* Decode: the first that accepts the word.                                *)
DecoderOf(w) ==
  LET first == S!SelectInSeq(decoders, LAMBDA d : w \in d.accepts)
  IN  IF first = 0 THEN None ELSE decoders[first]

DecodersNext ==
  \/ \E d \in Decoders : Add(d) \/ Remove(d.name) \/ RemoveCanonical(d.canonical)
  \/ Clear

-----------------------------------------------------------------------------
(* A word keeps its decoder for as long as that one is in the collection,  *)
(* whichever others come and go; and after a removal by one of its names   *)
(* no decoder is left with that name, so that Has, or HasCanonical of a    *)
(* const char*, is false of it.  HasCanonical of a std::string stays true  *)
(* exactly if another decoder has the canonical name as its plain name: it *)
(* is about something else than what was removed.                          *)
KeepsItsDecoder ==
  [][/\ \A d \in Decoders, w \in UNION {e.accepts : e \in Decoders} :
          DecoderOf(w) = d /\ (\E i \in DOMAIN decoders' : decoders'[i] = d) => DecoderOf(w)' = d
     /\ \A d \in Decoders :
          /\ Remove(d.name) => ~Has(d.name)'
          /\ RemoveCanonical(d.canonical) =>
               /\ ~HasCanonical(d.canonical)'
               /\ HasCanonicalString(d.canonical)' <=>
                    \E i \in Indices :
                      decoders[i].name = d.canonical /\ decoders[i].canonical # d.canonical]_decoders
=============================================================================
