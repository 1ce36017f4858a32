-------------------------- MODULE MCCoreChunkWriter --------------------------
(* CoreChunkWriter for TLC; the sizes are in the .cfg file.  The number of   *)
(* chunks is what ChunkCount makes of a request.                             *)
EXTENDS CoreChunkWriter, ChunkCount

CONSTANTS Requested, MinCount, EstimatedBytes
MCCount == EffectiveCount(Requested, MinCount, EstimatedBytes)
=============================================================================
