----------------------------- MODULE ChunkWriter -----------------------------
(***************************************************************************)
(* QuadChunkWriter (chunk_writer.rs) in its modes `lines` and `bytes`: a   *)
(* serializer writes buffers that end anywhere in a line; the writer cuts  *)
(* them into complete lines and starts a new chunk file when the next line *)
(* would go over the limit.  Chunks are hidden until they are closed; the  *)
(* manifest comes last.  (The mode `none` never makes a writer.)           *)
(*                                                                         *)
(* One action is one effect on the export session or one decision between  *)
(* two of them.  Any of the session's operations may fail; the writer then *)
(* is dropped by its owner and never used again.                           *)
(***************************************************************************)
EXTENDS Naturals, Sequences, FiniteSets

CONSTANTS Modes,         \* "lines", "bytes" or both
          LinesPerChunk, \* chunk_size_lines
          BytesPerChunk, \* chunk_size_bytes
          Buffers,       \* buffers the serializer may pass to write
          MaxInput       \* bound of the model: bytes written altogether

ASSUME ChunkAssumption ==
  /\ Modes \subseteq {"lines", "bytes"}
  /\ LinesPerChunk \in Nat \ {0}
  /\ BytesPerChunk \in Nat \ {0}
  /\ Buffers \subseteq Seq({"x", "nl"})
  /\ MaxInput \in Nat

Byte == {"x", "nl"}

VARIABLES
  mode,     \* mode
  input,    \* every byte passed to write so far
  buf,      \* what is left of the buffer in the current call of write
  pending,  \* pending_buffer: the start of a line
  line,     \* the line in the hands of write_complete_line, <<>> if none
  file,     \* content of the open chunk file
  isOpen,   \* whether there is one (current_file)
  bytes, lines,  \* current_bytes, current_lines
  total,    \* total_lines
  chunks,   \* contents of the published chunks
  entries,  \* manifest_entries
  status    \* "writing", "finishing", "complete" (manifest published), "failed"

inVars == <<mode, input, buf, pending>>
fileVars == <<file, isOpen, bytes, lines, total>>
outVars == <<chunks, entries>>
vars == <<inVars, line, fileVars, outVars, status>>

Init ==
  /\ mode \in Modes
  /\ input = <<>> /\ buf = <<>> /\ pending = <<>> /\ line = <<>>
  /\ file = <<>> /\ isOpen = FALSE
  /\ bytes = 0 /\ lines = 0 /\ total = 0
  /\ chunks = <<>> /\ entries = <<>>
  /\ status = "writing"

Idle == buf = <<>> /\ line = <<>>

\* The writer is not used again once it failed.
Used == status \in {"writing", "finishing"}
-----------------------------------------------------------------------------
(* impl Write for QuadChunkWriter.                                         *)
Write(b) ==
  /\ status = "writing"
  /\ Idle
  /\ b # <<>>
  /\ Len(input) + Len(b) <= MaxInput
  /\ input' = input \o b
  /\ buf' = b
  /\ UNCHANGED <<mode, pending, line, fileVars, outVars, status>>

\* pos is where the buffer's first line ends.
EndsLine(pos) ==
  /\ pos \in 1..Len(buf)
  /\ buf[pos] = "nl"
  /\ \A i \in 1..(pos - 1) : buf[i] # "nl"

\* A line is complete; what was pending is its start.
TakeLine ==
  /\ Used
  /\ line = <<>>
  /\ \E pos \in 1..Len(buf) :
       /\ EndsLine(pos)
       /\ line' = pending \o SubSeq(buf, 1, pos)
       /\ buf' = SubSeq(buf, pos + 1, Len(buf))
  /\ pending' = <<>>
  /\ UNCHANGED <<mode, input, fileVars, outVars, status>>

\* Mutant of KeepRest: the new rest replaces what was pending.
KeepRestOnly ==
  /\ Used
  /\ line = <<>>
  /\ buf # <<>>
  /\ \A i \in 1..Len(buf) : buf[i] # "nl"
  /\ pending' = buf
  /\ buf' = <<>>
  /\ UNCHANGED <<mode, input, line, fileVars, outVars, status>>

\* The rest of the buffer has no line end.
KeepRest ==
  /\ Used
  /\ line = <<>>
  /\ buf # <<>>
  /\ \A i \in 1..Len(buf) : buf[i] # "nl"
  /\ pending' = pending \o buf
  /\ buf' = <<>>
  /\ UNCHANGED <<mode, input, line, fileVars, outVars, status>>
-----------------------------------------------------------------------------
(* write_complete_line.                                                    *)

\* Mutant of ShouldRotate: the line to come is not counted.
ShouldRotateLate ==
  /\ lines > 0
  /\ \/ mode = "lines" /\ lines > LinesPerChunk
     \/ mode = "bytes" /\ bytes > BytesPerChunk

ShouldRotate ==
  /\ lines > 0
  /\ \/ mode = "lines" /\ lines >= LinesPerChunk
     \/ mode = "bytes" /\ bytes + Len(line) > BytesPerChunk

OpenChunk ==
  /\ Used
  /\ line # <<>>
  /\ ~isOpen
  /\ isOpen' = TRUE
  /\ file' = <<>>
  /\ bytes' = 0 /\ lines' = 0
  /\ UNCHANGED <<inVars, line, total, outVars, status>>

\* close_current_file: flush, commit, and an entry for the manifest.  The
\* counts go back to 0, as they do again when the next chunk is opened.
PublishChunk ==
  /\ isOpen
  /\ isOpen' = FALSE
  /\ chunks' = Append(chunks, file)
  /\ entries' = Append(entries, [bytes |-> bytes, lines |-> lines])
  /\ file' = <<>>
  /\ bytes' = 0 /\ lines' = 0

Rotate ==
  /\ Used
  /\ line # <<>>
  /\ ShouldRotate
  /\ PublishChunk
  /\ UNCHANGED <<inVars, line, total, status>>

PutLine ==
  /\ Used
  /\ line # <<>>
  /\ isOpen
  /\ ~ShouldRotate
  /\ file' = file \o line
  /\ bytes' = bytes + Len(line)
  /\ lines' = lines + 1
  /\ total' = total + 1
  /\ line' = <<>>
  /\ UNCHANGED <<inVars, isOpen, outVars, status>>
-----------------------------------------------------------------------------
(* finish.                                                                 *)

\* A last line without line end gets one.
Finish ==
  /\ status = "writing"
  /\ Idle
  /\ status' = "finishing"
  /\ line' = IF pending = <<>> THEN <<>> ELSE Append(pending, "nl")
  /\ pending' = <<>>
  /\ UNCHANGED <<mode, input, buf, fileVars, outVars>>

FinishChunk ==
  /\ status = "finishing"
  /\ line = <<>>
  /\ PublishChunk
  /\ UNCHANGED <<inVars, line, total, status>>

\* Mutant of FinishManifest: the manifest does not wait for the last chunk.
FinishManifestEarly ==
  /\ status = "finishing"
  /\ line = <<>>
  /\ status' = "complete"
  /\ UNCHANGED <<inVars, line, fileVars, outVars>>

FinishManifest ==
  /\ status = "finishing"
  /\ line = <<>>
  /\ ~isOpen
  /\ status' = "complete"
  /\ UNCHANGED <<inVars, line, fileVars, outVars>>

\* Opening, writing, flushing or renaming a file fails.
Fail ==
  /\ \/ status = "writing" /\ line # <<>>
     \/ status = "finishing"
  /\ status' = "failed"
  /\ UNCHANGED <<inVars, line, fileVars, outVars>>

Next ==
  \/ \E b \in Buffers : Write(b)
  \/ TakeLine \/ KeepRest
  \/ OpenChunk \/ Rotate \/ PutLine
  \/ Finish \/ FinishChunk \/ FinishManifest \/ Fail

Spec == Init /\ [][Next]_vars
-----------------------------------------------------------------------------
TypeOK ==
  /\ mode \in Modes
  /\ input \in Seq(Byte) /\ buf \in Seq(Byte) /\ line \in Seq(Byte)
  /\ pending \in Seq({"x"})
  /\ file \in Seq(Byte)
  /\ isOpen \in BOOLEAN
  /\ bytes \in Nat /\ lines \in Nat /\ total \in Nat
  /\ chunks \in Seq(Seq(Byte))
  /\ entries \in Seq([bytes : Nat, lines : Nat])
  /\ status \in {"writing", "finishing", "complete", "failed"}

\* The places of the line ends in s.
LineEnds(s) == {i \in 1..Len(s) : s[i] = "nl"}

\* The first n chunks, one after the other.
Concat[n \in 0..Len(chunks)] == IF n = 0 THEN <<>> ELSE Concat[n - 1] \o chunks[n]

(* What went in comes out: published chunks, the open chunk, the line under   *)
(* way, the pending start of a line and the rest of the buffer are the input, *)
(* byte for byte and in order, but for one line end added to a last line that *)
(* had none.                                                                  *)
NothingLost ==
  status # "failed" =>
    LET all == Concat[Len(chunks)] \o file \o line \o pending \o buf
    IN  IF status = "writing" THEN all = input
        ELSE all \in {input, Append(input, "nl")} /\ (all # <<>> => all[Len(all)] = "nl")

(* A chunk that a loader can see is not empty and holds only complete lines.  *)
WholeLines ==
  \A k \in 1..Len(chunks) :
    chunks[k] # <<>> /\ chunks[k][Len(chunks[k])] = "nl"

(* The manifest says of every file what is in it.                             *)
EntriesMatch ==
  /\ Len(entries) = Len(chunks)
  /\ \A k \in 1..Len(chunks) :
       entries[k] = [bytes |-> Len(chunks[k]), lines |-> Cardinality(LineEnds(chunks[k]))]

(* A chunk stays within the limit, unless it is a single line over the limit  *)
(* of bytes.                                                                  *)
WithinLimit(e) ==
  /\ mode = "lines" => e.lines <= LinesPerChunk
  /\ mode = "bytes" => e.bytes <= BytesPerChunk \/ e.lines = 1
ChunksWithinLimit == \A k \in 1..Len(entries) : entries[k].lines > 0 /\ WithinLimit(entries[k])

(* To a loader the writer is a ChunkOutput whose items are lines: it sees      *)
(* whole chunks, which never change, and the manifest after the last of them. *)
Output == INSTANCE ChunkOutput WITH
  pending <- {Len(chunks) + 1} \X LineEnds(file),
  visible <- UNION {{k} \X LineEnds(chunks[k]) : k \in 1..Len(chunks)},
  status <- IF status = "finishing" THEN "writing" ELSE status
ImplementsOutput == Output!OutputSpec
=============================================================================
