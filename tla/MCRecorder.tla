----------------------------- MODULE MCRecorder ------------------------------
(***************************************************************************)
(* Bounded instances of Recorder.  With CHUNK_SIZE = 3 the sizes 2, 3, 4   *)
(* and 6 give one unsliced object, one as large as a chunk, a chunk and a  *)
(* remnant, and an exact multiple, whose extra chunk has the range of the  *)
(* second.                                                                 *)
(***************************************************************************)
EXTENDS Recorder

R(start, size) == [start |-> start, size |-> size]

mcRanges == {R(0, 2), R(0, 4), R(0, 6), R(6, 3)}
mcNone   == {}
=============================================================================
