---------------------------- MODULE MCChunkWriter ----------------------------
(* ChunkWriter for TLC: every buffer of up to three bytes.                  *)
EXTENDS ChunkWriter, SequencesExt

AllBuffers == BoundedSeq({"x", "nl"}, 3)
=============================================================================
