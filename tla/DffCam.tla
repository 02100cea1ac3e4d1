------------------------------- MODULE DffCam -------------------------------
(***************************************************************************)
(* common_dffcam_1a1w1r1qa with common_tcam_1qa (main/verilog/common/mem/  *)
(* cam): a RAM of contents and a RAM of valid bits under one address, and  *)
(* a comparator per word whose one-hot result is encoded and checked.      *)
(***************************************************************************)
EXTENDS Integers, FiniteSets

CONSTANTS
  CAM_ADDRESS_WIDTH,  \* $clog2(CAM_DEPTH); the depth is a power of two
  CAM_BITS            \* CAM_WIDTH of them

CAM_DEPTH == 2 ^ CAM_ADDRESS_WIDTH

VARIABLES tdata, tvalid

Content == INSTANCE DffRam WITH
  RAM_DEPTH <- CAM_DEPTH, RAM_BITS <- CAM_BITS, dff <- tdata
Valid == INSTANCE DffRam WITH
  RAM_DEPTH <- CAM_DEPTH, RAM_BITS <- {0}, dff <- tvalid

CamInit == Content!DffInit /\ Valid!DffInit

(* BIT_WRITE_ENABLE is 0: we is one bit and goes to both RAMs.             *)
CamEdge(addr, en, we, din, dinValid) ==
  /\ Content!DffEdge(addr, en, IF we THEN CAM_BITS ELSE {}, din)
  /\ Valid!DffEdge(addr, en, IF we THEN {0} ELSE {}, dinValid)

(* qaddr_1h                                                                *)
Matching(qdata) == {i \in 0 .. CAM_DEPTH - 1 : tvalid[i] = {0} /\ tdata[i] = qdata}

BitOf(i, k) == (i \div 2 ^ k) % 2

(* macro_encoder_onehot_bin: the wires of an address; each is the OR of    *)
(* the inputs whose index has that bit.                                    *)
EncodedOneHot(d) == {k \in 0 .. CAM_ADDRESS_WIDTH - 1 : \E i \in d : BitOf(i, k) = 1}

(* macro_encoder_onehot_detect: valid is asserted for exactly one input.   *)
DetectedOneHot(d) == Cardinality(d) = 1

QAddr(qdata) == EncodedOneHot(Matching(qdata))

QValid(qdata) == DetectedOneHot(Matching(qdata))
=============================================================================
