-------------------------- MODULE ChunkWriter_proofs --------------------------
(***************************************************************************)
(* Theorems about ChunkWriter for both modes, any limits, and any buffers. *)
(***************************************************************************)
EXTENDS ChunkWriter, FiniteSetTheorems, SequenceTheorems, WellFoundedInduction, TLAPS

(* Sequences of bytes.                                                     *)
LEMMA ConcatBytes ==
  ASSUME NEW s \in Seq(Byte), NEW t \in Seq(Byte)
  PROVE  /\ s \o t \in Seq(Byte)
         /\ Len(s) \in Nat /\ Len(t) \in Nat
         /\ Len(s \o t) = Len(s) + Len(t)
         /\ \A i \in 1..Len(s) : (s \o t)[i] = s[i]
         /\ \A i \in 1..Len(t) : (s \o t)[Len(s) + i] = t[i]
  OBVIOUS

LEMMA ConcatStarts ==
  ASSUME NEW s \in Seq({"x"}), NEW t \in Seq({"x"})
  PROVE  s \o t \in Seq({"x"})
  OBVIOUS

\* A buffer without line end is the start of a line.
LEMMA NoLineEnd ==
  ASSUME NEW s \in Seq(Byte), \A i \in 1..Len(s) : s[i] # "nl"
  PROVE  s \in Seq({"x"})
  <1>1. \A i \in 1..Len(s) : s[i] \in {"x"}
    BY DEF Byte
  <1> QED BY <1>1

LEMMA StartsAreBytes ==
  ASSUME NEW s \in Seq({"x"})
  PROVE  s \in Seq(Byte) /\ \A i \in 1..Len(s) : s[i] # "nl"
  BY DEF Byte

LEMMA EmptyBytes ==
  /\ <<>> \in Seq(Byte) /\ <<>> \in Seq({"x"})
  /\ Len(<<>>) = 0
  /\ LineEnds(<<>>) = {}
  BY DEF LineEnds

LEMMA LineEndsFinite ==
  ASSUME NEW s \in Seq(Byte)
  PROVE  IsFiniteSet(LineEnds(s)) /\ Cardinality(LineEnds(s)) \in Nat
  <1>1. IsFiniteSet(1..Len(s))
    BY FS_Interval
  <1>2. LineEnds(s) \subseteq 1..Len(s)
    BY DEF LineEnds
  <1> QED BY <1>1, <1>2, FS_Subset, FS_CardinalityType

(* One more complete line: one more line end, the last byte.               *)
IsLine(l) == l \in Seq(Byte) /\ LineEnds(l) = {Len(l)}

LEMMA LineIsNotEmpty ==
  ASSUME NEW l, IsLine(l)
  PROVE  Len(l) \in Nat \ {0} /\ l[Len(l)] = "nl" /\ l # <<>>
  <1>1. Len(l) \in LineEnds(l)
    BY DEF IsLine
  <1>2. Len(l) \in 1..Len(l) /\ l[Len(l)] = "nl"
    BY <1>1 DEF LineEnds
  <1>3. Len(l) \in Nat \ {0}
    BY <1>2 DEF IsLine
  <1> QED BY <1>2, <1>3

LEMMA AddLine ==
  ASSUME NEW s \in Seq(Byte), NEW l, IsLine(l)
  PROVE  /\ (s \o l)[Len(s \o l)] = "nl"
         /\ s \o l # <<>>
         /\ Cardinality(LineEnds(s \o l)) = Cardinality(LineEnds(s)) + 1
  <1>1. /\ l \in Seq(Byte) /\ Len(l) \in Nat \ {0} /\ l[Len(l)] = "nl" /\ LineEnds(l) = {Len(l)}
    BY LineIsNotEmpty DEF IsLine
  <1>2. /\ s \o l \in Seq(Byte)
        /\ Len(s) \in Nat
        /\ Len(s \o l) = Len(s) + Len(l)
        /\ \A i \in 1..Len(s) : (s \o l)[i] = s[i]
        /\ \A i \in 1..Len(l) : (s \o l)[Len(s) + i] = l[i]
    BY <1>1, ConcatBytes
  <1>3. (s \o l)[Len(s \o l)] = "nl"
    <2>1. Len(l) \in 1..Len(l) BY <1>1
    <2> QED BY <1>1, <1>2, <2>1
  <1>4. LineEnds(s \o l) = LineEnds(s) \cup {Len(s) + Len(l)}
    <2>1. ASSUME NEW i \in LineEnds(s \o l) PROVE i \in LineEnds(s) \cup {Len(s) + Len(l)}
      <3>1. i \in 1..(Len(s) + Len(l)) /\ (s \o l)[i] = "nl"
        BY <2>1, <1>2 DEF LineEnds
      <3>2. CASE i <= Len(s)
        BY <3>1, <3>2, <1>2 DEF LineEnds
      <3>3. CASE ~(i <= Len(s))
        <4>1. i - Len(s) \in 1..Len(l) /\ i = Len(s) + (i - Len(s))
          BY <3>1, <3>3, <1>1, <1>2
        <4>2. l[i - Len(s)] = "nl"
          BY <3>1, <4>1, <1>2
        <4>3. i - Len(s) \in LineEnds(l)
          BY <4>1, <4>2 DEF LineEnds
        <4> QED BY <4>1, <4>3, <1>1, <1>2
      <3> QED BY <3>2, <3>3
    <2>2. LineEnds(s) \subseteq LineEnds(s \o l)
      BY <1>1, <1>2 DEF LineEnds
    <2>3. Len(s) + Len(l) \in LineEnds(s \o l)
      BY <1>1, <1>2, <1>3 DEF LineEnds
    <2> QED BY <2>1, <2>2, <2>3
  <1>5. Len(s) + Len(l) \notin LineEnds(s)
    BY <1>1, <1>2 DEF LineEnds
  <1>6. s \o l # <<>>
    BY <1>1, <1>2
  <1> QED BY <1>3, <1>4, <1>5, <1>6, LineEndsFinite, FS_AddElement
-----------------------------------------------------------------------------
(* The inductive invariant.                                                *)

\* The line in hand is one complete line.
LineInv == line # <<>> => IsLine(line)

\* The counts say what is in the open chunk: complete lines, and at least one
\* unless the first is still in hand.
FileInv ==
  /\ bytes = Len(file)
  /\ lines = Cardinality(LineEnds(file))
  /\ lines > 0 => file # <<>> /\ file[Len(file)] = "nl"
  /\ lines = 0 => file = <<>>
  /\ ~isOpen => file = <<>>
  /\ isOpen /\ line = <<>> => lines > 0

\* The open chunk is within its limit.
LimitInv == lines > 0 => WithinLimit([bytes |-> bytes, lines |-> lines])

WriterInv ==
  /\ TypeOK /\ LineInv /\ FileInv /\ LimitInv
  /\ EntriesMatch /\ WholeLines /\ ChunksWithinLimit

LEMMA InitInv == Init => WriterInv
  <1> SUFFICES ASSUME Init PROVE WriterInv
    OBVIOUS
  <1>1. TypeOK
    <2>1. <<>> \in Seq(Seq(Byte)) /\ <<>> \in Seq([bytes : Nat, lines : Nat])
      OBVIOUS
    <2> QED BY <2>1, EmptyBytes DEF Init, TypeOK
  <1>2. Cardinality(LineEnds(file)) = 0
    BY EmptyBytes, FS_EmptySet DEF Init
  <1>3. LineInv /\ FileInv /\ LimitInv
    BY <1>2, EmptyBytes DEF Init, LineInv, FileInv, LimitInv
  <1>4. EntriesMatch /\ WholeLines /\ ChunksWithinLimit
    <2>1. Len(chunks) = 0 /\ Len(entries) = 0
      BY DEF Init
    <2> QED BY <2>1 DEF EntriesMatch, WholeLines, ChunksWithinLimit
  <1> QED BY <1>1, <1>3, <1>4 DEF WriterInv

\* What the steps that only move input between the buffers leave alone.
LEMMA OutputUnchanged ==
  ASSUME WriterInv, UNCHANGED <<mode, fileVars, outVars>>,
         TypeOK', LineInv', line = <<>> => line' # <<>> \/ line' = line,
         line # <<>> => line' = line
  PROVE  WriterInv'
  BY DEF WriterInv, FileInv, LimitInv, EntriesMatch, WholeLines, ChunksWithinLimit,
         fileVars, outVars, WithinLimit

\* A chunk that holds a line may be published.
LEMMA PublishStep ==
  ASSUME WriterInv, PublishChunk, UNCHANGED mode, lines > 0
  PROVE  /\ file' \in Seq(Byte) /\ isOpen' \in BOOLEAN /\ bytes' \in Nat /\ lines' \in Nat
         /\ chunks' \in Seq(Seq(Byte)) /\ entries' \in Seq([bytes : Nat, lines : Nat])
         /\ EntriesMatch' /\ WholeLines' /\ ChunksWithinLimit'
  <1> DEFINE e == [bytes |-> bytes, lines |-> lines]
  <1>1. /\ file \in Seq(Byte) /\ file # <<>> /\ file[Len(file)] = "nl"
        /\ chunks \in Seq(Seq(Byte)) /\ entries \in Seq([bytes : Nat, lines : Nat])
        /\ e = [bytes |-> Len(file), lines |-> Cardinality(LineEnds(file))]
        /\ e \in [bytes : Nat, lines : Nat]
        /\ e.lines > 0 /\ WithinLimit(e)
        /\ Len(entries) = Len(chunks)
    BY DEF WriterInv, TypeOK, FileInv, LimitInv, EntriesMatch
  <1>2. /\ chunks' = Append(chunks, file) /\ entries' = Append(entries, e)
        /\ file' = <<>> /\ isOpen' = FALSE /\ bytes' = 0 /\ lines' = 0
    BY DEF PublishChunk
  <1> HIDE DEF e
  <1>3. /\ Len(chunks) \in Nat
        /\ Len(chunks') = Len(chunks) + 1 /\ Len(entries') = Len(chunks) + 1
        /\ \A k \in 1..Len(chunks) : chunks'[k] = chunks[k] /\ entries'[k] = entries[k]
        /\ chunks'[Len(chunks) + 1] = file /\ entries'[Len(chunks) + 1] = e
    BY <1>1, <1>2
  <1>4. \A k \in 1..(Len(chunks) + 1) : k \in 1..Len(chunks) \/ k = Len(chunks) + 1
    BY <1>3
  <1>5. EntriesMatch'
    <2>1. \A k \in 1..Len(chunks) :
            entries[k] = [bytes |-> Len(chunks[k]), lines |-> Cardinality(LineEnds(chunks[k]))]
      BY DEF WriterInv, EntriesMatch
    <2>2. ASSUME NEW k \in 1..Len(chunks')
          PROVE  entries'[k] = [bytes |-> Len(chunks'[k]), lines |-> Cardinality(LineEnds(chunks'[k]))]
      <3>1. CASE k \in 1..Len(chunks)
        <4>1. entries'[k] = entries[k] /\ chunks'[k] = chunks[k] BY <3>1, <1>3
        <4> QED BY <3>1, <4>1, <2>1
      <3>2. CASE k = Len(chunks) + 1
        <4>1. entries'[k] = e /\ chunks'[k] = file BY <3>2, <1>3
        <4> QED BY <4>1, <1>1
      <3> QED BY <1>3, <1>4, <3>1, <3>2
    <2> QED BY <1>3, <2>2 DEF EntriesMatch
  <1>6. WholeLines'
    BY <1>1, <1>3, <1>4 DEF WriterInv, WholeLines
  <1>7. ChunksWithinLimit'
    <2>1. \A k \in 1..Len(chunks) : entries[k].lines > 0 /\ WithinLimit(entries[k])
      BY <1>1 DEF WriterInv, ChunksWithinLimit
    <2>2. ASSUME NEW k \in 1..Len(entries') PROVE entries'[k].lines > 0 /\ WithinLimit(entries'[k])
      <3>1. CASE k \in 1..Len(chunks)
        <4>1. entries'[k] = entries[k] BY <3>1, <1>3
        <4> QED BY <3>1, <4>1, <2>1
      <3>2. CASE k = Len(chunks) + 1
        <4>1. entries'[k] = e BY <3>2, <1>3
        <4> QED BY <4>1, <1>1
      <3> QED BY <1>3, <1>4, <3>1, <3>2
    <2> QED BY <2>2 DEF ChunksWithinLimit, WithinLimit
  <1>8. chunks' \in Seq(Seq(Byte)) /\ entries' \in Seq([bytes : Nat, lines : Nat])
    BY <1>1, <1>2
  <1>9. file' \in Seq(Byte) /\ isOpen' \in BOOLEAN /\ bytes' \in Nat /\ lines' \in Nat
    BY <1>2, EmptyBytes
  <1> QED BY <1>5, <1>6, <1>7, <1>8, <1>9

-----------------------------------------------------------------------------
(* The steps.                                                              *)
LEMMA WriteStep ==
  ASSUME WriterInv, NEW b \in Buffers, Write(b)
  PROVE  WriterInv'
  <1>1. b \in Seq(Byte)
    BY ChunkAssumption DEF Byte
  <1>2. TypeOK'
    <2>1. input' \in Seq(Byte) /\ buf' \in Seq(Byte)
      BY <1>1, ConcatBytes DEF Write, WriterInv, TypeOK
    <2> QED BY <2>1 DEF Write, WriterInv, TypeOK, fileVars, outVars
  <1> QED BY <1>2, OutputUnchanged DEF Write, Idle, WriterInv, LineInv, IsLine, LineEnds

\* A line taken from the buffer is complete: neither what was pending nor what
\* precedes its end in the buffer holds a line end.
LEMMA TakenLine ==
  ASSUME NEW p \in Seq({"x"}), NEW b \in Seq(Byte), NEW pos \in 1..Len(b),
         b[pos] = "nl", \A i \in 1..(pos - 1) : b[i] # "nl"
  PROVE  IsLine(p \o SubSeq(b, 1, pos))
  <1> DEFINE t == SubSeq(b, 1, pos)
  <1> DEFINE l == p \o t
  <1>1. t \in Seq(Byte) /\ Len(t) = pos /\ pos \in Nat \ {0}
        /\ \A i \in 1..pos : t[i] = b[i]
    OBVIOUS
  <1>2. p \in Seq(Byte) /\ \A i \in 1..Len(p) : p[i] # "nl"
    BY StartsAreBytes
  <1> HIDE DEF t
  <1>3. /\ l \in Seq(Byte)
        /\ Len(p) \in Nat
        /\ Len(l) = Len(p) + pos
        /\ \A i \in 1..Len(p) : l[i] = p[i]
        /\ \A i \in 1..pos : l[Len(p) + i] = t[i]
    BY <1>1, <1>2, ConcatBytes
  <1> HIDE DEF l
  <1>4. ASSUME NEW i \in LineEnds(l) PROVE i = Len(l)
    <2>1. i \in 1..(Len(p) + pos) /\ l[i] = "nl"
      BY <1>3 DEF LineEnds
    <2>2. ~(i <= Len(p))
      BY <2>1, <1>2, <1>3
    <2>3. i - Len(p) \in 1..pos /\ i = Len(p) + (i - Len(p))
      BY <2>1, <2>2, <1>1, <1>3
    <2>4. b[i - Len(p)] = "nl"
      BY <2>1, <2>3, <1>1, <1>3
    <2>5. ~(i - Len(p) <= pos - 1)
      BY <2>3, <2>4, <1>1
    <2> QED BY <2>3, <2>5, <1>1, <1>3
  <1>5. Len(l) \in LineEnds(l)
    <2>1. pos \in 1..pos BY <1>1
    <2>2. l[Len(l)] = "nl" BY <2>1, <1>1, <1>3
    <2> QED BY <2>2, <1>1, <1>3 DEF LineEnds
  <1>6. IsLine(l)
    BY <1>3, <1>4, <1>5 DEF IsLine
  <1> QED BY <1>6 DEF l, t

LEMMA TakeLineStep ==
  ASSUME WriterInv, TakeLine
  PROVE  WriterInv'
  <1>1. PICK pos \in 1..Len(buf) :
          EndsLine(pos) /\ line' = pending \o SubSeq(buf, 1, pos)
          /\ buf' = SubSeq(buf, pos + 1, Len(buf))
    BY DEF TakeLine
  <1>2. buf \in Seq(Byte) /\ pending \in Seq({"x"})
    BY DEF WriterInv, TypeOK
  <1>3. IsLine(line')
    BY <1>1, <1>2, TakenLine DEF EndsLine
  <1>4. buf' \in Seq(Byte)
    BY <1>1, <1>2
  <1>5. line' # <<>> /\ line' \in Seq(Byte)
    BY <1>3, LineIsNotEmpty DEF IsLine
  <1>6. TypeOK'
    BY <1>4, <1>5, EmptyBytes DEF TakeLine, WriterInv, TypeOK, fileVars, outVars
  <1>7. LineInv'
    BY <1>3 DEF LineInv, IsLine, LineEnds
  <1> QED BY <1>5, <1>6, <1>7, OutputUnchanged DEF TakeLine

LEMMA KeepRestStep ==
  ASSUME WriterInv, KeepRest
  PROVE  WriterInv'
  <1>1. pending' \in Seq({"x"}) /\ buf' \in Seq(Byte)
    <2>1. buf \in Seq({"x"})
      BY NoLineEnd DEF KeepRest, WriterInv, TypeOK
    <2> QED BY <2>1, ConcatStarts, EmptyBytes DEF KeepRest, WriterInv, TypeOK
  <1>2. TypeOK'
    BY <1>1 DEF KeepRest, WriterInv, TypeOK, fileVars, outVars
  <1> QED BY <1>2, OutputUnchanged DEF KeepRest, WriterInv, LineInv, IsLine, LineEnds

LEMMA FinishStep ==
  ASSUME WriterInv, Finish
  PROVE  WriterInv'
  <1>1. pending \in Seq({"x"}) /\ line = <<>>
    BY DEF Finish, Idle, WriterInv, TypeOK
  <1>2. pending # <<>> => IsLine(Append(pending, "nl"))
    <2> DEFINE l == Append(pending, "nl")
    <2>1. /\ Len(pending) \in Nat
          /\ Len(l) = Len(pending) + 1
          /\ \A i \in 1..Len(pending) : l[i] = pending[i]
          /\ l[Len(pending) + 1] = "nl"
      BY <1>1
    <2>2. l \in Seq(Byte)
      BY <1>1, StartsAreBytes DEF Byte
    <2>3. \A i \in 1..Len(pending) : pending[i] # "nl"
      BY <1>1, StartsAreBytes
    <2> HIDE DEF l
    <2>4. LineEnds(l) = {Len(l)}
      BY <2>1, <2>3 DEF LineEnds
    <2> QED BY <2>2, <2>4 DEF IsLine, l
  <1>3. line' = <<>> \/ IsLine(line')
    BY <1>2 DEF Finish
  <1>4. LineInv'
    BY <1>3 DEF LineInv, IsLine, LineEnds
  <1>5. line' \in Seq(Byte)
    BY <1>3, EmptyBytes DEF IsLine
  <1>6. TypeOK'
    BY <1>5, EmptyBytes DEF Finish, WriterInv, TypeOK, fileVars, outVars
  <1> QED BY <1>1, <1>4, <1>6, OutputUnchanged DEF Finish

LEMMA OpenChunkStep ==
  ASSUME WriterInv, OpenChunk
  PROVE  WriterInv'
  <1>1. file = <<>> /\ file' = <<>> /\ bytes' = 0 /\ lines' = 0 /\ isOpen' = TRUE
    BY DEF OpenChunk, WriterInv, FileInv
  <1>2. TypeOK'
    BY <1>1, EmptyBytes DEF OpenChunk, WriterInv, TypeOK, inVars, outVars
  <1>3. FileInv' /\ LimitInv'
    <2>1. line' # <<>> BY DEF OpenChunk
    <2>2. Cardinality(LineEnds(file')) = 0 BY <1>1, EmptyBytes, FS_EmptySet
    <2> QED BY <1>1, <2>1, <2>2, EmptyBytes DEF FileInv, LimitInv, LineEnds
  <1>4. LineInv' /\ EntriesMatch' /\ WholeLines' /\ ChunksWithinLimit'
    BY DEF OpenChunk, inVars, outVars, WriterInv, LineInv, EntriesMatch, WholeLines, ChunksWithinLimit,
           IsLine, LineEnds, WithinLimit
  <1> QED BY <1>2, <1>3, <1>4 DEF WriterInv

\* After a chunk was published nothing is open.
LEMMA ClosedInv ==
  ASSUME PublishChunk
  PROVE  FileInv' /\ LimitInv'
  <1>1. file' = <<>> /\ isOpen' = FALSE /\ bytes' = 0 /\ lines' = 0
    BY DEF PublishChunk
  <1>2. Cardinality(LineEnds(file')) = 0
    BY <1>1, EmptyBytes, FS_EmptySet
  <1> QED BY <1>1, <1>2, EmptyBytes DEF FileInv, LimitInv, LineEnds

LEMMA RotateStep ==
  ASSUME WriterInv, Rotate \/ FinishChunk
  PROVE  WriterInv'
  <1>1. PublishChunk /\ lines > 0
    <2>1. lines \in Nat BY DEF WriterInv, TypeOK
    <2>2. FinishChunk => lines > 0
      BY DEF FinishChunk, PublishChunk, WriterInv, FileInv
    <2> QED BY <2>1, <2>2 DEF Rotate, ShouldRotate, FinishChunk
  <1>2. UNCHANGED <<inVars, line, total, status>> /\ UNCHANGED mode
    BY DEF Rotate, FinishChunk, inVars
  <1>3. TypeOK'
    BY <1>1, <1>2, PublishStep DEF inVars, WriterInv, TypeOK
  <1>4. LineInv'
    BY <1>2 DEF WriterInv, LineInv, IsLine, LineEnds
  <1> QED BY <1>1, <1>3, <1>2, <1>4, PublishStep, ClosedInv DEF WriterInv

LEMMA PutLineStep ==
  ASSUME WriterInv, PutLine
  PROVE  WriterInv'
  <1>1. /\ file \in Seq(Byte) /\ IsLine(line) /\ line \in Seq(Byte)
        /\ bytes = Len(file) /\ lines = Cardinality(LineEnds(file))
        /\ bytes \in Nat /\ lines \in Nat /\ total \in Nat
    BY DEF PutLine, WriterInv, TypeOK, LineInv, FileInv
  <1>2. /\ file' = file \o line /\ bytes' = bytes + Len(line) /\ lines' = lines + 1
        /\ total' = total + 1 /\ line' = <<>> /\ isOpen' = isOpen /\ isOpen
        /\ UNCHANGED <<inVars, outVars, status>>
    BY DEF PutLine
  <1>3. /\ file' \in Seq(Byte) /\ bytes' = Len(file') /\ bytes' \in Nat
        /\ Len(line) \in Nat
    BY <1>1, <1>2, ConcatBytes
  <1>4. /\ lines' = Cardinality(LineEnds(file')) /\ file' # <<>> /\ file'[Len(file')] = "nl"
    BY <1>1, <1>2, AddLine
  <1>5. TypeOK'
    BY <1>1, <1>2, <1>3, EmptyBytes DEF inVars, outVars, WriterInv, TypeOK
  <1>6. FileInv'
    <2>1. lines' \in Nat \ {0} /\ isOpen' /\ Cardinality(LineEnds(file))' = Cardinality(LineEnds(file'))
      BY <1>1, <1>2 DEF LineEnds
    <2> QED BY <2>1, <1>3, <1>4 DEF FileInv
  <1>7. LimitInv'
    <2>1. ~ShouldRotate BY DEF PutLine
    <2>2. CASE lines = 0
      BY <1>2, <2>2, ChunkAssumption DEF LimitInv, WithinLimit
    <2>3. CASE lines > 0
      <3>1. mode = "lines" => lines' <= LinesPerChunk
        BY <2>1, <2>3, <1>1, <1>2, ChunkAssumption DEF ShouldRotate
      <3>2. mode = "bytes" => bytes' <= BytesPerChunk
        BY <2>1, <2>3, <1>1, <1>2, <1>3, ChunkAssumption DEF ShouldRotate
      <3> QED BY <3>1, <3>2, <1>2 DEF inVars, LimitInv, WithinLimit
    <2> QED BY <1>1, <2>2, <2>3
  <1>8. LineInv' /\ EntriesMatch' /\ WholeLines' /\ ChunksWithinLimit'
    BY <1>2 DEF inVars, outVars, WriterInv, LineInv, EntriesMatch, WholeLines, ChunksWithinLimit,
                LineEnds, WithinLimit
  <1> QED BY <1>5, <1>6, <1>7, <1>8 DEF WriterInv

\* The manifest, and a failure, change nothing but the status.
LEMMA StatusStep ==
  ASSUME WriterInv, FinishManifest \/ Fail
  PROVE  WriterInv'
  <1>1. UNCHANGED <<inVars, line, fileVars, outVars>> /\ status' \in {"complete", "failed"}
    BY DEF FinishManifest, Fail
  <1>2. TypeOK'
    BY <1>1 DEF WriterInv, TypeOK, inVars, fileVars, outVars
  <1> QED BY <1>1, <1>2, OutputUnchanged DEF inVars, WriterInv, LineInv, IsLine, LineEnds

LEMMA NextInv == WriterInv /\ [Next]_vars => WriterInv'
  <1> SUFFICES ASSUME WriterInv, [Next]_vars PROVE WriterInv'
    OBVIOUS
  <1>1. CASE UNCHANGED vars
    <2>1. UNCHANGED <<inVars, line, fileVars, outVars, status>> BY <1>1 DEF vars
    <2>2. TypeOK'
      BY <2>1 DEF WriterInv, TypeOK, inVars, fileVars, outVars
    <2> QED BY <2>1, <2>2, OutputUnchanged DEF inVars, WriterInv, LineInv, IsLine, LineEnds
  <1> QED BY <1>1, WriteStep, TakeLineStep, KeepRestStep, OpenChunkStep, RotateStep,
             PutLineStep, FinishStep, StatusStep DEF Next
-----------------------------------------------------------------------------
THEOREM WriterInvariant == Spec => []WriterInv
  BY InitInv, NextInv, PTL DEF Spec

(* The writer's state is well typed; in particular a line end never stays in *)
(* pending_buffer, whatever buffers the serializer writes.                   *)
THEOREM TypeCorrect == Spec => []TypeOK
  <1>1. WriterInv => TypeOK BY DEF WriterInv
  <1> QED BY <1>1, WriterInvariant, PTL

(* Whatever buffers the serializer writes, a published chunk is a sequence of *)
(* complete lines.                                                            *)
THEOREM PublishedChunksAreWhole == Spec => []WholeLines
  <1>1. WriterInv => WholeLines BY DEF WriterInv
  <1> QED BY <1>1, WriterInvariant, PTL

(* The bytes and lines the manifest gives for a chunk are what is in it.      *)
THEOREM ManifestEntries == Spec => []EntriesMatch
  <1>1. WriterInv => EntriesMatch BY DEF WriterInv
  <1> QED BY <1>1, WriterInvariant, PTL

(* For any limit: no chunk is over it, but for a single line that is.         *)
THEOREM LimitKept == Spec => []ChunksWithinLimit
  <1>1. WriterInv => ChunksWithinLimit BY DEF WriterInv
  <1> QED BY <1>1, WriterInvariant, PTL
-----------------------------------------------------------------------------
(* The writer implements ChunkOutput.                                      *)
PendingItems == {Len(chunks) + 1} \X LineEnds(file)
VisibleItems == UNION {{k} \X LineEnds(chunks[k]) : k \in 1..Len(chunks)}
WriterStatus == IF status = "finishing" THEN "writing" ELSE status

\* Steps that leave file and chunks alone show the loader at most a new status.
LEMMA UnseenStep ==
  ASSUME UNCHANGED <<file, chunks>>
  PROVE  UNCHANGED <<PendingItems, VisibleItems>>
  BY DEF PendingItems, VisibleItems, LineEnds

LEMMA NothingOpenNothingPending ==
  ASSUME file = <<>>
  PROVE  PendingItems = {}
  BY EmptyBytes DEF PendingItems

\* Lines go behind those that are in the open chunk.
LEMMA AcceptStep ==
  ASSUME WriterInv, PutLine
  PROVE  /\ PendingItems \subseteq PendingItems'
         /\ VisibleItems' = VisibleItems
         /\ PendingItems' \cap VisibleItems' = {}
  <1>1. /\ file \in Seq(Byte) /\ line \in Seq(Byte) /\ chunks \in Seq(Seq(Byte))
        /\ file' = file \o line /\ chunks' = chunks
    BY DEF PutLine, outVars, WriterInv, TypeOK
  <1>2. LineEnds(file) \subseteq LineEnds(file')
    <2>1. /\ Len(file) \in Nat /\ Len(line) \in Nat
          /\ Len(file') = Len(file) + Len(line)
          /\ \A i \in 1..Len(file) : file'[i] = file[i]
      BY <1>1, ConcatBytes
    <2> QED BY <2>1 DEF LineEnds
  <1>3. VisibleItems' = VisibleItems
    BY <1>1 DEF VisibleItems, LineEnds
  <1>4. ASSUME NEW x \in PendingItems' \cap VisibleItems' PROVE FALSE
    <2>1. x[1] = Len(chunks) + 1
      BY <1>1, <1>4 DEF PendingItems
    <2>2. x[1] \in 1..Len(chunks)
      BY <1>1, <1>3, <1>4 DEF VisibleItems
    <2>3. Len(chunks) \in Nat
      BY <1>1
    <2> QED BY <2>1, <2>2, <2>3
  <1>5. PendingItems \subseteq PendingItems'
    BY <1>1, <1>2 DEF PendingItems
  <1> QED BY <1>3, <1>4, <1>5

\* A chunk is published as a whole.
LEMMA RevealStep ==
  ASSUME WriterInv, PublishChunk
  PROVE  PendingItems' = {} /\ VisibleItems' = VisibleItems \cup PendingItems
  <1>1. /\ chunks \in Seq(Seq(Byte)) /\ file \in Seq(Byte)
        /\ chunks' = Append(chunks, file) /\ file' = <<>>
    BY DEF PublishChunk, WriterInv, TypeOK
  <1>2. /\ Len(chunks) \in Nat /\ Len(chunks') = Len(chunks) + 1
        /\ \A k \in 1..Len(chunks) : chunks'[k] = chunks[k]
        /\ chunks'[Len(chunks) + 1] = file
    BY <1>1
  <1>3. 1..Len(chunks') = 1..Len(chunks) \cup {Len(chunks) + 1}
    BY <1>2
  <1>4. VisibleItems' = UNION {{k} \X LineEnds(chunks'[k]) : k \in 1..Len(chunks')}
    BY DEF VisibleItems, LineEnds
  <1>5. ASSUME NEW x
        PROVE  x \in VisibleItems' <=> x \in VisibleItems \cup PendingItems
    <2>1. x \in VisibleItems' <=> \E k \in 1..Len(chunks') : x \in {k} \X LineEnds(chunks'[k])
      BY <1>4
    <2>2. x \in VisibleItems <=> \E k \in 1..Len(chunks) : x \in {k} \X LineEnds(chunks'[k])
      BY <1>2 DEF VisibleItems
    <2>3. x \in PendingItems <=> x \in {Len(chunks) + 1} \X LineEnds(chunks'[Len(chunks) + 1])
      BY <1>2 DEF PendingItems
    <2> QED BY <1>3, <2>1, <2>2, <2>3
  <1>6. PendingItems' = {}
    BY <1>1, EmptyBytes DEF PendingItems, LineEnds
  <1> QED BY <1>5, <1>6

LEMMA OutputStep ==
  ASSUME WriterInv, [Next]_vars
  PROVE  [Output!OutputNext]_(Output!outputVars)
  <1> USE DEF Output!outputVars
  <1>0. /\ PendingItems = {Len(chunks) + 1} \X LineEnds(file)
        /\ VisibleItems = UNION {{k} \X LineEnds(chunks[k]) : k \in 1..Len(chunks)}
    BY DEF PendingItems, VisibleItems
  <1>1. CASE UNCHANGED vars
    BY <1>1 DEF vars, fileVars, outVars, LineEnds
  <1>2. CASE \/ \E b \in Buffers : Write(b)
             \/ TakeLine \/ KeepRest \/ Finish
    <2>1. UNCHANGED <<file, chunks>>
      BY <1>2 DEF Write, TakeLine, KeepRest, Finish, fileVars, outVars
    <2>2. WriterStatus' = WriterStatus
      BY <1>2 DEF Write, TakeLine, KeepRest, Finish, WriterStatus
    <2> QED BY <2>1, <2>2, UnseenStep DEF WriterStatus, PendingItems, VisibleItems
  <1>3. CASE OpenChunk
    <2>1. UNCHANGED <<file, chunks, status>>
      BY <1>3 DEF OpenChunk, outVars, WriterInv, FileInv
    <2> QED BY <2>1, UnseenStep DEF PendingItems, VisibleItems
  <1>4. CASE PutLine
    <2>1. status' = status /\ status \in {"writing", "finishing"}
      BY <1>4 DEF PutLine, Used
    <2> QED BY <1>4, <2>1, AcceptStep
            DEF Output!OutputNext, Output!Accept, PendingItems, VisibleItems
  <1>5. CASE Rotate \/ FinishChunk
    <2>1. status' = status /\ status \in {"writing", "finishing"} /\ PublishChunk
      BY <1>5 DEF Rotate, FinishChunk, Used
    <2>2. PendingItems' = {} /\ VisibleItems' = VisibleItems \cup PendingItems
      BY <2>1, RevealStep
    <2> QED BY <2>1, <2>2
            DEF Output!OutputNext, Output!Publish, PendingItems, VisibleItems
  <1>6. CASE FinishManifest
    <2>1. UNCHANGED <<file, chunks>> /\ status = "finishing" /\ status' = "complete" /\ file = <<>>
      BY <1>6 DEF FinishManifest, fileVars, outVars, WriterInv, FileInv
    <2> QED BY <2>1, UnseenStep, NothingOpenNothingPending
            DEF Output!OutputNext, Output!Complete, PendingItems, VisibleItems
  <1>7. CASE Fail
    <2>1. UNCHANGED <<file, chunks>> /\ status \in {"writing", "finishing"} /\ status' = "failed"
      BY <1>7 DEF Fail, fileVars, outVars
    <2> QED BY <2>1, UnseenStep
            DEF Output!OutputNext, Output!Fail, PendingItems, VisibleItems
  <1> QED BY <1>1, <1>2, <1>3, <1>4, <1>5, <1>6, <1>7 DEF Next

(* To a loader the writer is a ChunkOutput: whole chunks, which never change, *)
(* and the manifest after the last of them.                                   *)
THEOREM Refinement == Spec => ImplementsOutput
  <1>1. Init => Output!OutputInit
    BY EmptyBytes DEF Init, Output!OutputInit
  <1> QED BY <1>1, OutputStep, WriterInvariant, PTL
          DEF Spec, ImplementsOutput, Output!OutputSpec
-----------------------------------------------------------------------------
(* Nothing is lost.  Induction over the number of chunks is well-founded    *)
(* induction on the least counterexample, for sets of numbers.              *)
LEMMA EveryNumber ==
  ASSUME NEW S, 0 \in S, \A n \in Nat : n \in S => n + 1 \in S
  PROVE  \A n \in Nat : n \in S
  <1> DEFINE T == Nat \ S
  <1>1. ASSUME T # {} PROVE FALSE
    <2>1. T \subseteq Nat
      OBVIOUS
    <2> HIDE DEF T
    <2>2. PICK m \in T : \A k \in T : ~(<<k, m>> \in OpToRel(<, Nat))
      BY <1>1, <2>1, NatLessThanWellFounded, WFMin
    <2>3. m \in Nat /\ m \notin S
      BY <2>2 DEF T
    <2>4. m - 1 \in Nat /\ m - 1 < m /\ (m - 1) + 1 = m
      BY <2>3
    <2>5. m - 1 \in T
      BY <2>3, <2>4 DEF T
    <2>6. <<m - 1, m>> \in OpToRel(<, Nat)
      BY <2>3, <2>4 DEF OpToRel
    <2> QED BY <2>2, <2>5, <2>6
  <1> QED BY <1>1

\* g gives what the first chunks of cs make together.
Joins(cs, g, n) ==
  /\ g \in [0..n -> Seq(Byte)]
  /\ g[0] = <<>>
  /\ \A k \in 1..n : g[k] = g[k - 1] \o cs[k]

LEMMA JoinExists ==
  ASSUME NEW cs \in Seq(Seq(Byte))
  PROVE  \E g : Joins(cs, g, Len(cs))
  <1> DEFINE S == {n \in Nat : n <= Len(cs) => \E g : Joins(cs, g, n)}
  <1>1. 0 \in S
    <2>1. Joins(cs, [k \in 0..0 |-> <<>>], 0)
      BY EmptyBytes DEF Joins
    <2> QED BY <2>1
  <1>2. ASSUME NEW n \in Nat, n \in S PROVE n + 1 \in S
    <2> SUFFICES ASSUME n + 1 <= Len(cs) PROVE \E g : Joins(cs, g, n + 1)
      OBVIOUS
    <2>1. Len(cs) \in Nat /\ n <= Len(cs) /\ n + 1 \in 1..Len(cs) /\ cs[n + 1] \in Seq(Byte)
      BY SMT
    <2>2. PICK g : Joins(cs, g, n)
      BY <1>2, <2>1
    <2> DEFINE h == [k \in 0..(n + 1) |-> IF k = n + 1 THEN g[n] \o cs[n + 1] ELSE g[k]]
    <2>3. g[n] \o cs[n + 1] \in Seq(Byte)
      BY <2>1, <2>2, ConcatBytes DEF Joins
    <2>4. h \in [0..(n + 1) -> Seq(Byte)]
      BY <2>2, <2>3 DEF Joins
    <2>5. h[n + 1] = g[n] \o cs[n + 1] /\ \A k \in 0..n : h[k] = g[k]
      <3>1. n + 1 \in 0..(n + 1) /\ \A k \in 0..n : k \in 0..(n + 1) /\ k # n + 1
        OBVIOUS
      <3> QED BY <3>1
    <2> HIDE DEF h
    <2>6. ASSUME NEW k \in 1..(n + 1) PROVE h[k] = h[k - 1] \o cs[k]
      <3>1. CASE k = n + 1
        <4>1. n \in 0..n /\ (n + 1) - 1 = n
          OBVIOUS
        <4>2. h[n + 1] = h[n] \o cs[n + 1]
          BY <2>5, <4>1
        <4> QED BY <3>1, <4>1, <4>2
      <3>2. CASE k # n + 1
        <4>1. k \in 1..n /\ k \in 0..n /\ k - 1 \in 0..n
          BY <3>2, <1>2
        <4> QED BY <4>1, <2>2, <2>5 DEF Joins
      <3> QED BY <3>1, <3>2
    <2>7. h[0] = <<>>
      BY SMTT(20), <2>2, <2>5, <1>2 DEF Joins
    <2> QED BY <2>4, <2>6, <2>7 DEF Joins
  <1>3. Len(cs) \in Nat
    OBVIOUS
  <1> HIDE DEF S
  <1>4. Len(cs) \in S
    BY <1>1, <1>2, <1>3, EveryNumber
  <1> QED BY <1>3, <1>4 DEF S

\* What a recursive function on the chunks satisfies.
LEMMA JoinEquations ==
  ASSUME NEW cs \in Seq(Seq(Byte)), NEW f,
         f = [n \in 0..Len(cs) |-> IF n = 0 THEN <<>> ELSE f[n - 1] \o cs[n]]
  PROVE  Joins(cs, f, Len(cs))
  <1>1. Len(cs) \in Nat /\ \A k \in 1..Len(cs) : cs[k] \in Seq(Byte)
    BY SMT
  <1>2. /\ DOMAIN f = 0..Len(cs) /\ f[0] = <<>>
        /\ \A k \in 1..Len(cs) : f[k] = f[k - 1] \o cs[k]
    <2>1. DOMAIN f = 0..Len(cs)
      OBVIOUS
    <2>2. \A k \in 0..Len(cs) : f[k] = IF k = 0 THEN <<>> ELSE f[k - 1] \o cs[k]
      OBVIOUS
    <2>3. 0 \in 0..Len(cs) /\ \A k \in 1..Len(cs) : k \in 0..Len(cs) /\ k # 0
      BY <1>1
    <2> QED BY <2>1, <2>2, <2>3
  <1> DEFINE S == {n \in Nat : n <= Len(cs) => f[n] \in Seq(Byte)}
  <1>3. 0 \in S
    BY <1>2, EmptyBytes
  <1>4. ASSUME NEW n \in Nat, n \in S PROVE n + 1 \in S
    <2> SUFFICES ASSUME n + 1 <= Len(cs) PROVE f[n + 1] \in Seq(Byte)
      OBVIOUS
    <2>1. n + 1 \in 1..Len(cs) /\ (n + 1) - 1 = n /\ n <= Len(cs)
      BY <1>1
    <2>2. f[n + 1] = f[n] \o cs[n + 1] /\ f[n] \in Seq(Byte) /\ cs[n + 1] \in Seq(Byte)
      BY <1>1, <1>2, <1>4, <2>1
    <2> QED BY <2>2, ConcatBytes
  <1> HIDE DEF S
  <1>5. \A n \in Nat : n \in S
    BY <1>3, <1>4, EveryNumber
  <1>6. \A n \in 0..Len(cs) : f[n] \in Seq(Byte)
    <2>1. \A n \in 0..Len(cs) : n \in Nat /\ n <= Len(cs)
      BY <1>1
    <2> QED BY <1>5, <2>1 DEF S
  <1>7. f \in [0..Len(cs) -> Seq(Byte)]
    <2> DEFINE e(n) == IF n = 0 THEN <<>> ELSE f[n - 1] \o cs[n]
    <2>1. f = [n \in 0..Len(cs) |-> e(n)] /\ \A n \in 0..Len(cs) : f[n] = e(n)
      OBVIOUS
    <2> HIDE DEF e
    <2> QED BY <1>6, <2>1
  <1> QED BY <1>2, <1>7 DEF Joins

LEMMA JoinIsFunction ==
  ASSUME NEW cs \in Seq(Seq(Byte)), NEW g, Joins(cs, g, Len(cs))
  PROVE  g = [n \in 0..Len(cs) |-> IF n = 0 THEN <<>> ELSE g[n - 1] \o cs[n]]
  <1> DEFINE e(n) == IF n = 0 THEN <<>> ELSE g[n - 1] \o cs[n]
  <1>1. Len(cs) \in Nat
    OBVIOUS
  <1>2. g \in [0..Len(cs) -> Seq(Byte)]
    BY DEF Joins
  <1>3. ASSUME NEW n \in 0..Len(cs) PROVE g[n] = e(n)
    <2>1. n # 0 => n \in 1..Len(cs)
      BY <1>1
    <2> QED BY <2>1 DEF Joins
  <1> HIDE DEF e
  <1>4. g = [n \in 0..Len(cs) |-> e(n)]
    BY <1>2, <1>3
  <1> QED BY <1>4 DEF e

LEMMA ConcatJoins ==
  ASSUME chunks \in Seq(Seq(Byte))
  PROVE  Joins(chunks, Concat, Len(chunks))
  <1>1. PICK g : Joins(chunks, g, Len(chunks))
    BY JoinExists
  <1>2. g = [n \in 0..Len(chunks) |-> IF n = 0 THEN <<>> ELSE g[n - 1] \o chunks[n]]
    BY <1>1, JoinIsFunction
  <1>3. Concat = [n \in 0..Len(chunks) |-> IF n = 0 THEN <<>> ELSE Concat[n - 1] \o chunks[n]]
    BY <1>2 DEF Concat
  <1> QED BY <1>3, JoinEquations

\* One more chunk.
LEMMA JoinOneMore ==
  ASSUME NEW cs \in Seq(Seq(Byte)), NEW s \in Seq(Byte), NEW f, NEW g,
         Joins(cs, f, Len(cs)), Joins(Append(cs, s), g, Len(cs) + 1)
  PROVE  g[Len(cs) + 1] = f[Len(cs)] \o s
  <1> DEFINE ds == Append(cs, s)
  <1>1. Len(cs) \in Nat /\ ds[Len(cs) + 1] = s /\ \A k \in 1..Len(cs) : ds[k] = cs[k]
    OBVIOUS
  <1> DEFINE S == {n \in Nat : n <= Len(cs) => g[n] = f[n]}
  <1>2. 0 \in S
    BY DEF Joins
  <1> HIDE DEF ds
  <1>3. ASSUME NEW n \in Nat, n \in S PROVE n + 1 \in S
    <2> SUFFICES ASSUME n + 1 <= Len(cs) PROVE g[n + 1] = f[n + 1]
      OBVIOUS
    <2>1. n + 1 \in 1..Len(cs) /\ n + 1 \in 1..(Len(cs) + 1) /\ (n + 1) - 1 = n /\ n <= Len(cs)
      BY <1>1
    <2>2. g[n + 1] = g[n] \o ds[n + 1] /\ f[n + 1] = f[n] \o cs[n + 1] /\ g[n] = f[n]
      BY <1>3, <2>1 DEF Joins, ds
    <2> QED BY <1>1, <2>1, <2>2
  <1> HIDE DEF S
  <1>4. \A n \in Nat : n \in S
    BY <1>2, <1>3, EveryNumber
  <1>5. g[Len(cs)] = f[Len(cs)]
    BY <1>1, <1>4 DEF S
  <1>6. g[Len(cs) + 1] = g[Len(cs)] \o ds[Len(cs) + 1]
    <2>1. Len(cs) + 1 \in 1..(Len(cs) + 1) /\ (Len(cs) + 1) - 1 = Len(cs)
      BY <1>1
    <2> QED BY <2>1 DEF Joins, ds
  <1> QED BY <1>1, <1>5, <1>6

\* The algebra of byte sequences the steps need.
LEMMA Associates ==
  ASSUME NEW s \in Seq(Byte), NEW t \in Seq(Byte), NEW u \in Seq(Byte)
  PROVE  /\ s \o t \in Seq(Byte)
         /\ (s \o t) \o u = s \o (t \o u)
         /\ s \o <<>> = s /\ <<>> \o s = s
  BY ConcatBytes, ConcatAssociative, ConcatEmptySeq

LEMMA Regroups ==
  ASSUME NEW s \in Seq(Byte), NEW t \in Seq(Byte), NEW u \in Seq(Byte)
  PROVE  (s \o t) \o u = s \o (t \o u)
  BY Associates

\* What has been cut into lines, and everything the writer has.
Made == Concat[Len(chunks)]
Settled == Made \o file \o line
Stream == Settled \o pending \o buf
Ended(s) == s # <<>> => s[Len(s)] = "nl"

FlowInv ==
  /\ Ended(Settled)
  /\ status = "writing" => Stream = input
  /\ status \in {"finishing", "complete"} =>
       buf = <<>> /\ pending = <<>> /\ Settled \in {input, Append(input, "nl")}

LEMMA MadeIsBytes ==
  ASSUME WriterInv
  PROVE  Made \in Seq(Byte)
  <1>1. chunks \in Seq(Seq(Byte)) /\ Len(chunks) \in Nat
    <2>1. chunks \in Seq(Seq(Byte))
      BY DEF WriterInv, TypeOK
    <2> QED BY <2>1
  <1>2. Concat \in [0..Len(chunks) -> Seq(Byte)]
    BY <1>1, ConcatJoins DEF Joins
  <1>3. Len(chunks) \in 0..Len(chunks)
    BY <1>1
  <1> QED BY <1>2, <1>3 DEF Made

LEMMA SameChunksSameMade ==
  ASSUME UNCHANGED chunks
  PROVE  Made' = Made
  BY DEF Made, Concat

LEMMA PublishMakes ==
  ASSUME WriterInv, WriterInv', PublishChunk
  PROVE  Made' = Made \o file /\ file' = <<>>
  <1>1. /\ chunks \in Seq(Seq(Byte)) /\ file \in Seq(Byte) /\ chunks' = Append(chunks, file) /\ file' = <<>>
        /\ chunks' \in Seq(Seq(Byte))
    BY DEF PublishChunk, WriterInv, TypeOK
  <1>2. Joins(chunks, Concat, Len(chunks)) /\ Joins(chunks', Concat', Len(chunks'))
    <2>1. Joins(chunks, Concat, Len(chunks))
      BY <1>1, ConcatJoins
    <2>2. ASSUME NEW cs \in Seq(Seq(Byte)), cs = chunks' PROVE Joins(cs, Concat', Len(cs))
      <3>1. PICK g : Joins(cs, g, Len(cs))
        BY JoinExists
      <3>2. g = [n \in 0..Len(cs) |-> IF n = 0 THEN <<>> ELSE g[n - 1] \o cs[n]]
        BY <3>1, JoinIsFunction
      <3>3. Concat' = [n \in 0..Len(cs) |-> IF n = 0 THEN <<>> ELSE Concat'[n - 1] \o cs[n]]
        BY <2>2, <3>2 DEF Concat
      <3> QED BY <3>3, JoinEquations
    <2> QED BY <1>1, <2>1, <2>2
  <1>3. Len(chunks') = Len(chunks) + 1
    BY <1>1
  <1>4. Concat'[Len(chunks) + 1] = Concat[Len(chunks)] \o file
    BY <1>1, <1>2, <1>3, JoinOneMore
  <1> QED BY <1>1, <1>3, <1>4 DEF Made

LEMMA Typed ==
  ASSUME WriterInv
  PROVE  /\ Made \in Seq(Byte) /\ file \in Seq(Byte) /\ line \in Seq(Byte) /\ input \in Seq(Byte)
         /\ pending \in Seq(Byte) /\ buf \in Seq(Byte) /\ <<>> \in Seq(Byte)
         /\ Made \o file \in Seq(Byte) /\ Settled \in Seq(Byte)
         /\ Settled \o pending \in Seq(Byte) /\ Stream \in Seq(Byte)
  <1>1. /\ file \in Seq(Byte) /\ line \in Seq(Byte) /\ input \in Seq(Byte) /\ buf \in Seq(Byte)
        /\ pending \in Seq({"x"})
    BY DEF WriterInv, TypeOK
  <1>2. Made \in Seq(Byte)
    BY MadeIsBytes
  <1>3. pending \in Seq(Byte)
    BY <1>1, StartsAreBytes
  <1>4. Made \o file \in Seq(Byte)
    BY <1>1, <1>2, Associates
  <1>5. Settled \in Seq(Byte)
    BY <1>1, <1>4, Associates DEF Settled
  <1>6. Settled \o pending \in Seq(Byte)
    BY <1>3, <1>5, Associates
  <1>7. Stream \in Seq(Byte)
    BY <1>1, <1>6, Associates DEF Stream
  <1> QED BY <1>1, <1>2, <1>3, <1>4, <1>5, <1>6, <1>7, EmptyBytes

\* Bytes behind something that has ended in a line end, the last one a line end.
LEMMA EndedByLine ==
  ASSUME NEW s \in Seq(Byte), NEW l, IsLine(l)
  PROVE  Ended(s \o l)
  BY AddLine DEF Ended

LEMMA AppendsLast ==
  ASSUME NEW s \in Seq(Byte), NEW p \in Seq(Byte)
  PROVE  s \o Append(p, "nl") = Append(s \o p, "nl")
  <1>1. "nl" \in Byte /\ <<"nl">> \in Seq(Byte) /\ s \o p \in Seq(Byte)
    BY Associates DEF Byte
  <1>2. Append(p, "nl") = p \o <<"nl">> /\ Append(s \o p, "nl") = (s \o p) \o <<"nl">>
    BY <1>1, AppendIsConcat
  <1> QED BY <1>1, <1>2, Associates

\* Writing a buffer, and keeping its last part, change the tail of the stream.
LEMMA WriteFlows ==
  ASSUME WriterInv, FlowInv, NEW b \in Buffers, Write(b)
  PROVE  FlowInv'
  <1>1. b \in Seq(Byte)
    BY ChunkAssumption DEF Byte
  <1>2. /\ UNCHANGED <<file, line, chunks, pending, status>> /\ status = "writing"
        /\ buf = <<>> /\ buf' = b /\ input' = input \o b
    BY DEF Write, Idle, fileVars, outVars
  <1>3. Settled' = Settled
    BY <1>2, SameChunksSameMade DEF Settled
  <1>4. Stream' = (Settled \o pending) \o b /\ Stream = Settled \o pending
    <2>1. (Settled \o pending) \o <<>> = Settled \o pending
      BY Typed, Associates
    <2> QED BY <1>2, <1>3, <2>1 DEF Stream
  <1>5. Stream' = input'
    BY <1>2, <1>4 DEF FlowInv
  <1> QED BY <1>2, <1>3, <1>5 DEF FlowInv, Ended

LEMMA KeepRestFlows ==
  ASSUME WriterInv, FlowInv, KeepRest
  PROVE  FlowInv'
  <1>1. /\ UNCHANGED <<file, line, chunks, input, status>> /\ buf # <<>>
        /\ pending' = pending \o buf /\ buf' = <<>>
    BY DEF KeepRest, fileVars, outVars
  <1>2. status = "writing"
    BY <1>1 DEF FlowInv, KeepRest, Used
  <1>3. Settled' = Settled
    BY <1>1, SameChunksSameMade DEF Settled
  <1>4. Stream' = Stream
    <2> DEFINE d == Settled
    <2>0. d \in Seq(Byte) /\ pending \in Seq(Byte) /\ buf \in Seq(Byte)
      BY Typed
    <2> HIDE DEF d
    <2>1. (d \o pending) \o buf = d \o (pending \o buf) /\ pending \o buf \in Seq(Byte)
      <3>1. (d \o pending) \o buf = d \o (pending \o buf)
        BY SMTT(20), <2>0, Associates
      <3>2. pending \o buf \in Seq(Byte)
        BY <2>0, Associates
      <3> QED BY <3>1, <3>2
    <2> USE DEF d
    <2>2. Settled \o (pending \o buf) \in Seq(Byte)
      BY <2>1, Typed, Associates
    <2>3. (Settled \o (pending \o buf)) \o <<>> = Settled \o (pending \o buf)
      BY <2>2, Associates
    <2> QED BY <1>1, <1>3, <2>1, <2>3 DEF Stream
  <1> QED BY <1>1, <1>2, <1>3, <1>4 DEF FlowInv, Ended

\* A line moves from the buffer into the writer's hands.
LEMMA TakeLineFlows ==
  ASSUME WriterInv, FlowInv, TakeLine
  PROVE  FlowInv'
  <1> DEFINE d == Made \o file
  <1>1. /\ UNCHANGED <<file, chunks, input, status>> /\ line = <<>> /\ pending' = <<>>
    BY DEF TakeLine, fileVars, outVars
  <1>2. PICK pos \in 1..Len(buf) :
          /\ EndsLine(pos)
          /\ line' = pending \o SubSeq(buf, 1, pos)
          /\ buf' = SubSeq(buf, pos + 1, Len(buf))
    BY DEF TakeLine
  <1> DEFINE t == SubSeq(buf, 1, pos)
             r == SubSeq(buf, pos + 1, Len(buf))
  <1>3. /\ d \in Seq(Byte) /\ buf \in Seq(Byte) /\ pending \in Seq(Byte) /\ <<>> \in Seq(Byte)
        /\ Settled = d
    <2>1. d \o <<>> = d
      BY Typed, Associates
    <2> QED BY <1>1, <2>1, Typed DEF Settled
  <1>4. t \in Seq(Byte) /\ r \in Seq(Byte) /\ t \o r = buf
    <2>1. t \in Seq(Byte) /\ r \in Seq(Byte) /\ Len(buf) \in Nat /\ buf = SubSeq(buf, 1, Len(buf))
      BY <1>3
    <2>2. 1 \in 1..(Len(buf) + 1) /\ pos \in 0..Len(buf) /\ Len(buf) \in pos..Len(buf)
      BY <2>1
    <2>3. t \o r = SubSeq(buf, 1, Len(buf))
      BY <1>3, <2>2, ConcatAdjacentSubSeq
    <2> QED BY <2>1, <2>3
  <1>5. IsLine(pending \o t)
    BY <1>2, TakenLine DEF EndsLine, WriterInv, TypeOK
  <1>6. Made' = Made
    BY <1>1, SameChunksSameMade
  <1>7. Settled' = d \o (pending \o t)
    BY <1>1, <1>2, <1>6 DEF Settled
  <1> HIDE DEF t, r, d
  <1>8. Ended(Settled)'
    <2>1. Ended(d \o (pending \o t))
      BY <1>3, <1>5, EndedByLine
    <2> QED BY <1>7, <2>1 DEF Ended
  <1>9. buf # <<>>
    <2>1. pos \in 1..Len(buf)
      OBVIOUS
    <2> QED BY <2>1, EmptyBytes
  <1>10. status = "writing"
    BY <1>9 DEF FlowInv, TakeLine, Used
  <1>11. Stream' = Stream
    <2>1. /\ pending \o t \in Seq(Byte) /\ d \o pending \in Seq(Byte)
          /\ (d \o pending) \o t = d \o (pending \o t)
          /\ ((d \o pending) \o t) \o r = (d \o pending) \o (t \o r)
      <3>0. d \in Seq(Byte) /\ pending \in Seq(Byte) /\ t \in Seq(Byte) /\ r \in Seq(Byte)
        BY <1>3, <1>4
      <3>1. (d \o pending) \o t = d \o (pending \o t)
        BY <3>0, Regroups, ZenonT(30)
      <3>2. pending \o t \in Seq(Byte)
        BY <1>3, <1>4, Associates
      <3>3. d \o pending \in Seq(Byte)
        BY <1>3, Associates
      <3>4. ((d \o pending) \o t) \o r = (d \o pending) \o (t \o r)
        BY <3>0, <3>3, Regroups, Zenon
      <3> QED BY <3>1, <3>2, <3>3, <3>4
    <2>2. d \o (pending \o t) \in Seq(Byte)
      BY <1>3, <2>1, Associates
    <2>3. (d \o (pending \o t)) \o <<>> = d \o (pending \o t)
      BY <2>2, Associates
    <2>4. Stream' = ((d \o (pending \o t)) \o <<>>) \o r
      BY <1>1, <1>2, <1>7 DEF Stream, r
    <2>5. Stream = (d \o pending) \o buf
      BY <1>3 DEF Stream
    <2> QED BY <1>4, <2>1, <2>3, <2>4, <2>5
  <1> QED BY <1>1, <1>8, <1>10, <1>11 DEF FlowInv

\* A last line without line end gets one.
LEMMA FinishFlows ==
  ASSUME WriterInv, FlowInv, Finish
  PROVE  FlowInv'
  <1> DEFINE d == Made \o file
  <1>1. /\ UNCHANGED <<file, chunks, input, buf>> /\ line = <<>> /\ buf = <<>> /\ pending' = <<>>
        /\ status = "writing" /\ status' = "finishing"
        /\ line' = IF pending = <<>> THEN <<>> ELSE Append(pending, "nl")
    BY DEF Finish, Idle, fileVars, outVars
  <1>2. /\ d \in Seq(Byte) /\ pending \in Seq({"x"}) /\ pending \in Seq(Byte) /\ Settled = d
        /\ Stream = d \o pending /\ Stream = input
    <2>1. d \o <<>> = d /\ (Settled \o pending) \o <<>> = Settled \o pending
      BY Typed, Associates
    <2> QED BY <1>1, <2>1, Typed DEF Settled, Stream, FlowInv, WriterInv, TypeOK
  <1>3. Made' = Made
    BY <1>1, SameChunksSameMade
  <1>4. Settled' = d \o line'
    BY <1>1, <1>3 DEF Settled
  <1> HIDE DEF d
  <1>5. CASE pending = <<>>
    <2>1. d \o <<>> = d
      BY <1>2, Associates
    <2>2. Settled' = Settled /\ Settled' = input'
      BY <1>1, <1>2, <1>4, <1>5, <2>1
    <2> QED BY <1>1, <2>2 DEF FlowInv, Ended
  <1>6. CASE pending # <<>>
    <2>1. line' = Append(pending, "nl") /\ WriterInv'
      BY <1>1, <1>6, FinishStep
    <2>2. IsLine(line')
      <3>1. line' # <<>>
        BY <1>2, <2>1
      <3> QED BY <2>1, <3>1 DEF WriterInv, LineInv, IsLine, LineEnds
    <2>3. Ended(Settled)'
      <3>1. Ended(d \o line')
        BY <1>2, <2>2, EndedByLine
      <3> QED BY <1>4, <3>1 DEF Ended
    <2>4. d \o Append(pending, "nl") = Append(d \o pending, "nl")
      BY <1>2, AppendsLast
    <2> QED BY <1>1, <1>2, <1>4, <2>1, <2>3, <2>4 DEF FlowInv
  <1> QED BY <1>5, <1>6

\* What is only moved to the chunk, or with it, stays where it is in the stream.
LEMMA SettledFlows ==
  ASSUME FlowInv, Settled' = Settled, UNCHANGED <<input, pending, buf>>,
         status' = status \/ (status = "finishing" /\ status' = "complete") \/ status' = "failed"
  PROVE  FlowInv'
  <1>1. Stream' = Stream
    BY DEF Stream
  <1> QED BY <1>1 DEF FlowInv, Ended

LEMMA OutputFlows ==
  ASSUME WriterInv, WriterInv', FlowInv,
         OpenChunk \/ Rotate \/ PutLine \/ FinishChunk \/ FinishManifest \/ Fail
  PROVE  FlowInv'
  <1>1. /\ UNCHANGED <<input, pending, buf>>
        /\ status' = status \/ (status = "finishing" /\ status' = "complete") \/ status' = "failed"
    BY DEF OpenChunk, Rotate, PutLine, FinishChunk, FinishManifest, Fail, inVars
  <1>2. Settled' = Settled
    <2>1. CASE OpenChunk \/ FinishManifest \/ Fail
      <3>1. UNCHANGED <<file, line, chunks>>
        BY <2>1 DEF OpenChunk, FinishManifest, Fail, outVars, fileVars, WriterInv, FileInv
      <3> QED BY <3>1, SameChunksSameMade DEF Settled
    <2>2. CASE PutLine
      <3>1. file' = file \o line /\ line' = <<>> /\ UNCHANGED chunks
        BY <2>2 DEF PutLine, outVars
      <3>2. (Made \o (file \o line)) \o <<>> = Settled
        <4>1. Made \in Seq(Byte) /\ file \in Seq(Byte) /\ line \in Seq(Byte) /\ Settled \in Seq(Byte)
          BY Typed
        <4>2. (Made \o file) \o line = Made \o (file \o line)
          BY <4>1, Associates
        <4>3. Settled \o <<>> = Settled
          BY <4>1, Associates
        <4> QED BY <4>2, <4>3 DEF Settled
      <3> QED BY <3>1, <3>2, SameChunksSameMade DEF Settled
    <2>3. CASE Rotate \/ FinishChunk
      <3>1. PublishChunk /\ UNCHANGED line
        BY <2>3 DEF Rotate, FinishChunk
      <3>2. Made' = Made \o file /\ file' = <<>>
        BY <3>1, PublishMakes
      <3>3. (Made \o file) \o <<>> = Made \o file
        BY Typed, Associates
      <3> QED BY <3>1, <3>2, <3>3 DEF Settled
    <2> QED BY <2>1, <2>2, <2>3
  <1> QED BY <1>1, <1>2, SettledFlows

LEMMA NextFlows == WriterInv /\ WriterInv' /\ FlowInv /\ [Next]_vars => FlowInv'
  <1> SUFFICES ASSUME WriterInv, WriterInv', FlowInv, [Next]_vars PROVE FlowInv'
    OBVIOUS
  <1>1. CASE UNCHANGED vars
    <2>1. UNCHANGED <<file, line, chunks, input, pending, buf, status>>
      BY <1>1 DEF vars, inVars, fileVars, outVars
    <2>2. Settled' = Settled
      BY <2>1, SameChunksSameMade DEF Settled
    <2> QED BY <2>1, <2>2, SettledFlows
  <1> QED BY <1>1, WriteFlows, KeepRestFlows, TakeLineFlows, FinishFlows, OutputFlows DEF Next

(* Nothing is lost, doubled or reordered by the writer: whatever buffers the *)
(* serializer writes and wherever it cuts lines, the chunks, the open chunk, *)
(* the line under way and what is pending are the bytes written, and once    *)
(* finish is called at most the line end of an unfinished last line is new.  *)
THEOREM NothingIsLost == Spec => []NothingLost
  <1>1. Init => FlowInv
    <2> SUFFICES ASSUME Init PROVE FlowInv
      OBVIOUS
    <2>1. WriterInv
      BY InitInv
    <2>2. chunks = <<>> /\ file = <<>> /\ line = <<>> /\ pending = <<>> /\ buf = <<>> /\ input = <<>>
          /\ status = "writing"
      BY DEF Init
    <2>3. Made = <<>>
      <3>1. chunks \in Seq(Seq(Byte)) /\ Len(chunks) = 0
        BY <2>1, <2>2 DEF WriterInv, TypeOK
      <3> QED BY <3>1, ConcatJoins DEF Joins, Made
    <2>4. <<>> \o <<>> = <<>>
      BY EmptyBytes, Associates
    <2> QED BY <2>2, <2>3, <2>4 DEF FlowInv, Settled, Stream, Ended
  <1>2. WriterInv /\ FlowInv => NothingLost
    <2> SUFFICES ASSUME WriterInv, FlowInv, status # "failed" PROVE NothingLost
      BY DEF NothingLost
    <2>1. status \in {"writing", "finishing", "complete"}
      BY DEF WriterInv, TypeOK
    <2>2. CASE status = "writing"
      BY <2>2 DEF FlowInv, NothingLost, Stream, Settled, Made
    <2>3. CASE status # "writing"
      <3>1. buf = <<>> /\ pending = <<>> /\ Settled \in {input, Append(input, "nl")} /\ Ended(Settled)
        BY <2>1, <2>3 DEF FlowInv
      <3>2. Stream = Settled
        BY <3>1, Typed, Associates DEF Stream
      <3>3. Stream \in {input, Append(input, "nl")} /\ (Stream # <<>> => Stream[Len(Stream)] = "nl")
        BY <3>1, <3>2 DEF Ended
      <3> QED BY <2>3, <3>3 DEF NothingLost, Stream, Settled, Made
    <2> QED BY <2>2, <2>3
  <1> QED BY <1>1, <1>2, NextFlows, WriterInvariant, PTL DEF Spec
===============================================================================
