----------------------------- MODULE ChunkOutput -----------------------------
(***************************************************************************)
(* What a loader that watches the output directory may rely on for one     *)
(* chunk prefix (README.md, neo-nquads-chunked-serializer).  Items are     *)
(* accepted into hidden `.partial` files, become visible when their chunk  *)
(* is renamed, and never change or disappear afterwards.  The manifest     *)
(* appears once every accepted item is visible; nothing follows it.        *)
(***************************************************************************)
VARIABLES
  pending,  \* items in chunks that are still hidden
  visible,  \* items in chunks with their final name
  status    \* "writing", "complete" (manifest published) or "failed"

outputVars == <<pending, visible, status>>

OutputInit == pending = {} /\ visible = {} /\ status = "writing"

\* Items are written; before them the open chunk may be rotated away.
Accept ==
  /\ status = "writing"
  /\ \/ pending \subseteq pending' /\ visible' = visible
     \/ visible' = visible \cup pending
  /\ pending' \cap visible' = {}
  /\ UNCHANGED status

\* Chunks are closed: what they hold becomes visible, nothing else does.
Publish ==
  /\ status = "writing"
  /\ pending' \subseteq pending
  /\ visible' = visible \cup (pending \ pending')
  /\ UNCHANGED status

Complete ==
  /\ status = "writing"
  /\ pending = {}
  /\ status' = "complete"
  /\ UNCHANGED <<pending, visible>>

\* The writer gives up: what is hidden stays hidden.
Fail ==
  /\ status = "writing"
  /\ status' = "failed"
  /\ UNCHANGED <<pending, visible>>

OutputNext == Accept \/ Publish \/ Complete \/ Fail

OutputSpec == OutputInit /\ [][OutputNext]_outputVars
=============================================================================
