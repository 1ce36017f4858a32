--------------------------- MODULE CoreChunkWriter ---------------------------
(***************************************************************************)
(* QuadChunkWriter (chunk_writer.rs) in its mode `cores`: a fixed number of *)
(* chunks, filled round robin in blocks of lines.  The writer collects the *)
(* lines of each chunk in a buffer of its own and sends full buffers over  *)
(* a bounded channel to a thread that holds the files.  `finish` sends the *)
(* rest, closes the channel, joins the thread, and only then publishes.    *)
(*                                                                         *)
(* Lines are numbered in the order they are written.  A buffer's limit is  *)
(* counted in lines where the code counts bytes.                           *)
(***************************************************************************)
EXTENDS Naturals, Sequences, FiniteSets, Functions

CONSTANTS Count,      \* core_chunk_count
          BlockLines, \* CORE_CHUNK_BLOCK_LINES
          BatchLines, \* CORE_CHUNK_BATCH_BYTES
          Capacity,   \* slots of the channel to the thread
          MaxLines    \* bound of the model: lines written altogether

ASSUME CoreAssumption ==
  /\ Count \in Nat \ {0}
  /\ BlockLines \in Nat \ {0}
  /\ BatchLines \in Nat \ {0}
  /\ Capacity \in Nat \ {0}
  /\ MaxLines \in Nat

Index == 0..(Count - 1)

VARIABLES
  total,    \* total_lines
  current, inBlock,  \* core_current_writer, core_lines_in_block
  pending,  \* core_pending_buffers
  lines,    \* core_lines
  todo,     \* buffers the writer is about to send
  sender,   \* whether core_sender is alive
  chan,     \* the channel: <<index, lines>>
  thread,   \* "opening", "receiving", "ended" or "failed"
  written,  \* per chunk, what the thread passed to its BufWriter
  file,     \* per chunk, what certainly is in the file
  entries,  \* manifest_entries; a chunk with an entry is published
  status    \* the caller: "writing", "finishing", "joining", "committing",
            \* "complete" (manifest published) or "failed"

lineVars == <<total, current, inBlock, lines>>
sendVars == <<pending, todo, sender, chan>>
threadVars == <<thread, written, file>>
outVars == <<entries, status>>
vars == <<lineVars, sendVars, threadVars, outVars>>

Init ==
  /\ total = 0 /\ current = 0 /\ inBlock = 0
  /\ pending = [k \in Index |-> <<>>]
  /\ lines = [k \in Index |-> 0]
  /\ todo = <<>>
  /\ sender = TRUE
  /\ chan = <<>>
  /\ thread = "opening"
  /\ written = [k \in Index |-> <<>>]
  /\ file = [k \in Index |-> <<>>]
  /\ entries = <<>>
  /\ status = "writing"

\* The thread returned: its receiver and its clone of the session are dropped.
ThreadOver == thread \in {"ended", "failed"}

\* The owner drops a writer that failed, and with it the sender.
GiveUp ==
  /\ status' = "failed"
  /\ sender' = FALSE
  /\ todo' = <<>>
-----------------------------------------------------------------------------
(* The caller.                                                             *)

\* A block is full: the next line goes to the next chunk.
NextBlock ==
  IF inBlock + 1 >= BlockLines
  THEN current' = (current + 1) % Count /\ inBlock' = 0
  ELSE current' = current /\ inBlock' = inBlock + 1

\* write_round_robin_line, but for the send of a full buffer.
WriteLine ==
  /\ status = "writing"
  /\ todo = <<>>
  /\ total < MaxLines
  /\ total' = total + 1
  /\ pending' = [pending EXCEPT ![current] = Append(@, total')]
  /\ lines' = [lines EXCEPT ![current] = @ + 1]
  /\ todo' = IF Len(pending'[current]) >= BatchLines THEN <<current>> ELSE <<>>
  /\ NextBlock
  /\ UNCHANGED <<sender, chan, threadVars, outVars>>

\* Mutant of FlushBuffer: the buffer keeps what was sent.
FlushBufferKept ==
  /\ todo # <<>>
  /\ LET k == Head(todo)
     IN  /\ pending[k] # <<>> => /\ ~ThreadOver
                                 /\ Len(chan) < Capacity
         /\ chan' = IF pending[k] = <<>> THEN chan ELSE Append(chan, <<k, pending[k]>>)
  /\ todo' = Tail(todo)
  /\ UNCHANGED <<lineVars, pending, sender, threadVars, outVars>>

\* flush_core_buffer: an empty buffer is not sent, and a full channel blocks.
FlushBuffer ==
  /\ todo # <<>>
  /\ LET k == Head(todo)
     IN  /\ pending[k] # <<>> => /\ ~ThreadOver
                                 /\ Len(chan) < Capacity
         /\ chan' = IF pending[k] = <<>> THEN chan ELSE Append(chan, <<k, pending[k]>>)
         /\ pending' = [pending EXCEPT ![k] = <<>>]
  /\ todo' = Tail(todo)
  /\ UNCHANGED <<lineVars, sender, threadVars, outVars>>

\* The thread failed and its receiver is gone: so is the writer.
FlushFails ==
  /\ todo # <<>>
  /\ pending[Head(todo)] # <<>>
  /\ ThreadOver
  /\ GiveUp
  /\ UNCHANGED <<lineVars, pending, chan, threadVars, entries>>

\* finish: flush_core_pending_buffers.
Finish ==
  /\ status = "writing"
  /\ todo = <<>>
  /\ status' = "finishing"
  /\ todo' = [i \in 1..Count |-> i - 1]
  /\ UNCHANGED <<lineVars, pending, sender, chan, threadVars, entries>>

\* Mutant of CloseSender: the sender lives as long as the writer.
CloseSenderNot ==
  /\ status = "finishing"
  /\ todo = <<>>
  /\ status' = "joining"
  /\ UNCHANGED <<lineVars, sendVars, threadVars, entries>>

CloseSender ==
  /\ status = "finishing"
  /\ todo = <<>>
  /\ status' = "joining"
  /\ sender' = FALSE
  /\ UNCHANGED <<lineVars, pending, todo, chan, threadVars, entries>>

Join ==
  /\ status = "joining"
  /\ ThreadOver
  /\ status' = IF thread = "ended" THEN "committing" ELSE "failed"
  /\ UNCHANGED <<lineVars, sendVars, threadVars, entries>>

\* commit_staged_sink, and an entry for the manifest.
Commit ==
  /\ status = "committing"
  /\ Len(entries) < Count
  /\ entries' = Append(entries, lines[Len(entries)])
  /\ UNCHANGED <<lineVars, sendVars, threadVars, status>>

\* Mutant of PublishManifest: the manifest lists chunks that are still hidden.
PublishManifestEarly ==
  /\ status = "committing"
  /\ status' = "complete"
  /\ UNCHANGED <<lineVars, sendVars, threadVars, entries>>

PublishManifest ==
  /\ status = "committing"
  /\ Len(entries) = Count
  /\ status' = "complete"
  /\ UNCHANGED <<lineVars, sendVars, threadVars, entries>>

\* A rename or the manifest fails.
CommitFails ==
  /\ status = "committing"
  /\ GiveUp
  /\ UNCHANGED <<lineVars, pending, chan, threadVars, entries>>

Caller ==
  \/ FlushBuffer \/ FlushFails
  \/ CloseSender \/ Join
  \/ Commit \/ PublishManifest \/ CommitFails
-----------------------------------------------------------------------------
(* The thread.                                                             *)
OpenFiles ==
  /\ thread = "opening"
  /\ thread' = "receiving"
  /\ UNCHANGED <<lineVars, sendVars, written, file, outVars>>

Receive ==
  /\ thread = "receiving"
  /\ chan # <<>>
  /\ LET k == Head(chan)[1]
     IN  written' = [written EXCEPT ![k] = @ \o Head(chan)[2]]
  /\ chan' = Tail(chan)
  /\ UNCHANGED <<lineVars, pending, todo, sender, thread, file, outVars>>

\* The channel is closed and empty: every writer is flushed.
FlushFiles ==
  /\ thread = "receiving"
  /\ chan = <<>>
  /\ ~sender
  /\ file' = written
  /\ thread' = "ended"
  /\ UNCHANGED <<lineVars, sendVars, written, outVars>>

\* A file cannot be opened, written or flushed: the thread returns and drops
\* the receiver with what is in the channel.
ThreadFails ==
  /\ \/ thread = "opening"
     \/ thread = "receiving" /\ (chan # <<>> \/ ~sender)
  /\ thread' = "failed"
  /\ chan' = <<>>
  /\ UNCHANGED <<lineVars, pending, todo, sender, written, file, outVars>>

Thread == OpenFiles \/ Receive \/ FlushFiles \/ ThreadFails
-----------------------------------------------------------------------------
Next == WriteLine \/ Finish \/ Caller \/ Thread

(* The serializer may take its time between two lines, but it does not stop in *)
(* the middle of a call; the thread is an OS thread.                           *)
Spec == Init /\ [][Next]_vars /\ WF_vars(Caller) /\ WF_vars(Thread)
-----------------------------------------------------------------------------
Lines == 1..MaxLines

TypeOK ==
  /\ total \in 0..MaxLines
  /\ current \in Index
  /\ inBlock \in 0..(BlockLines - 1)
  /\ pending \in [Index -> Seq(Lines)]
  /\ \A k \in Index : Len(pending[k]) <= BatchLines
  /\ lines \in [Index -> 0..MaxLines]
  /\ todo \in Seq(Index)
  /\ sender \in BOOLEAN
  /\ chan \in Seq(Index \X Seq(Lines))
  /\ Len(chan) <= Capacity
  /\ thread \in {"opening", "receiving", "ended", "failed"}
  /\ written \in [Index -> Seq(Lines)]
  /\ file \in [Index -> Seq(Lines)]
  /\ entries \in Seq(0..MaxLines) /\ Len(entries) <= Count
  /\ status \in {"writing", "finishing", "joining", "committing", "complete", "failed"}

\* The lines of chunk k: every Count-th block.
ChunkOf(i) == ((i - 1) \div BlockLines) % Count
Assigned(k) == {i \in 1..total : ChunkOf(i) = k}

\* The messages under way to chunk k.
UnderWay(k) == {m \in DOMAIN chan : chan[m][1] = k}

Increasing(s) == \A i, j \in DOMAIN s : i < j => s[i] < s[j]
Before(s, t) == \A i \in DOMAIN s, j \in DOMAIN t : s[i] < t[j]

\* A chunk's lines are in its file, in the channel, or in its buffer.
Kept(k) ==
  Assigned(k) = Range(written[k]) \cup Range(pending[k])
                  \cup (UNION {Range(chan[m][2]) : m \in UnderWay(k)})

InOrder(k) ==
  /\ Increasing(written[k]) /\ Increasing(pending[k])
  /\ Before(written[k], pending[k])
  /\ \A m \in UnderWay(k) :
       /\ Increasing(chan[m][2])
       /\ Before(written[k], chan[m][2]) /\ Before(chan[m][2], pending[k])
       /\ \A n \in UnderWay(k) : m < n => Before(chan[m][2], chan[n][2])

(* Between the writer and its thread no line is lost, doubled or overtaken:   *)
(* the file, the channel and the buffer of a chunk hold its lines, all of     *)
(* them and no others, in the order in which they were written                *)
(* (write_round_robin_line, flush_core_buffer, start_core_chunk_writer_thread *)
(* in chunk_writer.rs).                                                       *)
LinesFlow == thread # "failed" => \A k \in Index : Kept(k) /\ InOrder(k)

(* The chunks are balanced: two of them never differ by more than one block.  *)
Balanced == \A j, k \in Index : lines[j] <= lines[k] + BlockLines

(* To a loader the writer is a ChunkOutput.                                   *)
Output == INSTANCE ChunkOutput WITH
  pending <- {i \in 1..total : ChunkOf(i) >= Len(entries)},
  visible <- {i \in 1..total : ChunkOf(i) < Len(entries)},
  status <- IF status \in {"complete", "failed"} THEN status ELSE "writing"
ImplementsOutput == Output!OutputSpec

(* `finish` and a send into a full channel return, whatever fails, and a      *)
(* writer that failed leaves no thread behind.                                *)
CallsReturn ==
  /\ status # "writing" \/ todo # <<>> ~>
       status \in {"complete", "failed"} \/ (status = "writing" /\ todo = <<>>)
  /\ status = "failed" ~> ThreadOver
=============================================================================
