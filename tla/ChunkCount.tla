----------------------------- MODULE ChunkCount -----------------------------
(* How many chunks the mode `cores` of the quad writer gets (chunk_writer.rs, *)
(* resolve_effective_core_chunk_count_for_estimated_bytes): as many as were  *)
(* asked for, or cores of the machine, held between what the limits on the   *)
(* size of a chunk allow.                                                    *)
EXTENDS Naturals

CONSTANTS MinBytes,   \* MIN_CORE_CHUNK_BYTES
          MaxBytes    \* MAX_CORE_CHUNK_BYTES

ASSUME SizeAssumption ==
    /\ MinBytes \in Nat \ {0}
    /\ MaxBytes \in Nat \ {0}
    /\ MinBytes <= MaxBytes

Larger(a, b) == IF a >= b THEN a ELSE b
DivCeil(a, b) == (a + b - 1) \div b

(* What must fit into the largest chunks, and what the caller insists on.    *)
Floor(minCount, bytes) == Larger(minCount, Larger(DivCeil(bytes, MaxBytes), 1))

(* What the smallest chunks allow, unless the floor is above that.           *)
Ceiling(minCount, bytes) == Larger(Larger(bytes \div MinBytes, 1), Floor(minCount, bytes))

(* clamp; it panics when the bounds have crossed.                            *)
EffectiveCount(requested, minCount, bytes) ==
    LET asked == Larger(requested, minCount)
        lo == Floor(minCount, bytes)
        hi == Ceiling(minCount, bytes)
    IN  IF asked < lo THEN lo ELSE IF asked > hi THEN hi ELSE asked
=============================================================================
