---------------------------- MODULE BypassBuffers ----------------------------
(***************************************************************************)
(* NormalBypassBuffer and FlushableBypassBuffer (main/emulated/common/     *)
(* buffer.hpp) beside the hardware they stand for, common_bypass_buffer    *)
(* and common_bypass_bufferf, as the differential tests drive them: a call *)
(* sets a wire, Eval comes with the clock edge.  All four get the same     *)
(* calls; Flush is for the two that have it.  Ports is {0}.                *)
(***************************************************************************)
EXTENDS BypassBuffer, Sequences

VARIABLES
  input,    \* buffer_input if valid, else None: prev_i_data and prev_i_valid
  readed,   \* buffer_readed: next_i_ready
  flushed,  \* buffer_flushed: flush
  bypass,   \* NormalBypassBuffer: buffer_bypass if valid, else None
  bypassf,  \* FlushableBypassBuffer: the same
  flush,    \* FlushableBypassBuffer: buffer_flush
  bufferf_q, validf_q, flush_q  \* common_bypass_bufferf

wires == <<input, readed, flushed>>
state == <<bypass, bypassf, flush, bufferVars, bufferf_q, validf_q, flush_q>>
vars  == <<wires, state>>

-----------------------------------------------------------------------------
(* The outputs of the two classes.                                         *)
IsWritable  == bypass = None
GetOutput   == IF bypass # None THEN bypass ELSE input
IsWritableF == bypassf = None /\ ~flush
GetOutputF  == IF flush THEN None ELSE IF bypassf # None THEN bypassf ELSE input

(* The outputs of common_bypass_bufferf.                                   *)
PrevReadyF == ~validf_q /\ ~flush_q
NextValidF == (validf_q \/ input # None) /\ ~flush_q
NextDataF  == IF validf_q THEN bufferf_q ELSE input

(* NormalBypassBuffer::Eval.                                               *)
BypassNext ==
  IF readed THEN None
  ELSE IF input # None /\ bypass = None THEN input ELSE bypass

(* Mutant: a flush does not win against an input.                          *)
BypassNextFLate ==
  IF readed THEN None
  ELSE IF input # None /\ bypassf = None THEN input
  ELSE IF flushed THEN None ELSE bypassf

(* FlushableBypassBuffer::Eval.                                            *)
BypassNextF ==
  IF flushed \/ readed THEN None
  ELSE IF input # None /\ bypassf = None THEN input ELSE bypassf

(* common_bypass_bufferf: buffer_en and valid_d.                           *)
BufferEnF  == ~validf_q /\ input # None /\ ~readed
ValidNextF == ~flushed /\ IF validf_q THEN ~readed ELSE BufferEnF

-----------------------------------------------------------------------------
Init ==
  /\ BufferInit
  /\ bypass = None /\ bypassf = None /\ flush = FALSE
  /\ bufferf_q = Zero /\ validf_q = FALSE /\ flush_q = FALSE
  /\ input = None /\ readed = FALSE /\ flushed = FALSE

SetInput(src) == input' = src /\ UNCHANGED <<readed, flushed, state>>
ResetInput == input' = None /\ UNCHANGED <<readed, flushed, state>>

ReadOutput == readed' = TRUE /\ UNCHANGED <<input, flushed, state>>
ResetOutput == readed' = FALSE /\ UNCHANGED <<input, flushed, state>>

Flush == flushed' = TRUE /\ UNCHANGED <<input, readed, state>>
ResetFlush == flushed' = FALSE /\ UNCHANGED <<input, readed, state>>

Eval ==
  /\ bypass' = BypassNext
  /\ bypassf' = BypassNextF
  /\ flush' = flushed
  /\ BufferEdge([i \in Ports |-> input], IF readed THEN Ports ELSE {})
  /\ bufferf_q' = IF BufferEnF THEN input ELSE bufferf_q
  /\ validf_q' = ValidNextF
  /\ flush_q' = flushed
  /\ readed' = FALSE /\ flushed' = FALSE
  /\ UNCHANGED input

Next ==
  \/ \E src \in Data : SetInput(src)
  \/ ResetInput
  \/ ReadOutput \/ ResetOutput
  \/ Flush \/ ResetFlush
  \/ Eval

Spec == Init /\ [][Next]_vars

-----------------------------------------------------------------------------
(* The classes show what the hardware shows, whatever is called and        *)
(* whenever, ready included, which the differential tests do not compare.  *)
SameOutputs ==
  LET in == [i \in Ports |-> input] IN
    /\ IsWritable = Ready(0)
    /\ GetOutput = IF OutValid(0, in) THEN OutData(0, in) ELSE None
    /\ IsWritableF = PrevReadyF
    /\ GetOutputF = IF NextValidF THEN NextDataF ELSE None

One(x) == IF x = None THEN <<>> ELSE <<x>>

(* What an edge does with the data: what is delivered, before what is kept *)
(* for later, is what was kept, before what was accepted.  Nothing is lost *)
(* and nothing comes twice, whatever the next stage does.  With a flush    *)
(* the rest is dropped; and in the cycle after one, when neither stage is  *)
(* told that data went over, an input is kept all the same if the next     *)
(* stage is not ready.                                                     *)
Conserves ==
  [][Eval =>
       /\ One(IF readed THEN GetOutput ELSE None) \o One(bypass')
            = One(bypass) \o One(IF IsWritable THEN input ELSE None)
       /\ CASE flushed -> bypassf' = None
            [] ~flushed /\ flush ->
                 bypassf = None /\ bypassf' = IF readed THEN None ELSE input
            [] ~flushed /\ ~flush ->
                 One(IF readed THEN GetOutputF ELSE None) \o One(bypassf')
                   = One(bypassf) \o One(IF IsWritableF THEN input ELSE None)]_vars

=============================================================================
