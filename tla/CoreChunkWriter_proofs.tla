------------------------ MODULE CoreChunkWriter_proofs ------------------------
(***************************************************************************)
(* Theorems about CoreChunkWriter for any number of chunks, any block and  *)
(* buffer sizes, and any channel capacity.                                 *)
(***************************************************************************)
EXTENDS CoreChunkWriter, ChunkCount, SequenceTheorems, TLAPS

LEMMA ModSmall ==
  ASSUME NEW a \in Nat, NEW n \in Nat \ {0}, a < n
  PROVE  a % n = a
  BY SMT

(* The round robin: `done` lines in every chunk, one block more before the *)
(* current chunk, and the current block in it.                             *)
Round(done) ==
  /\ current \in Index
  /\ inBlock \in 0..(BlockLines - 1)
  /\ lines = [k \in Index |-> done + IF k < current THEN BlockLines
                                     ELSE IF k = current THEN inBlock ELSE 0]
RoundInv == \E done \in Nat : Round(done)

LEMMA InitRound == Init => RoundInv
  <1> SUFFICES ASSUME Init PROVE Round(0)
    BY DEF RoundInv
  <1>1. 0 \in Index /\ 0 \in 0..(BlockLines - 1)
    BY CoreAssumption DEF Index
  <1> QED BY <1>1 DEF Init, Round, Index

\* A line ends a block: the next chunk's turn, or a new round.
LEMMA WriteLineRound ==
  ASSUME NEW done \in Nat, Round(done), WriteLine
  PROVE  RoundInv'
  <1>1. /\ Count \in Nat \ {0} /\ BlockLines \in Nat \ {0}
        /\ current \in 0..(Count - 1) /\ inBlock \in 0..(BlockLines - 1)
    BY CoreAssumption DEF Round, Index
  <1>2. lines' = [k \in Index |-> done + IF k < current THEN BlockLines
                                         ELSE IF k = current THEN inBlock + 1 ELSE 0]
    <2>1. lines' = [lines EXCEPT ![current] = @ + 1]
      BY DEF WriteLine
    <2>2. lines = [k \in Index |-> done + IF k < current THEN BlockLines
                                          ELSE IF k = current THEN inBlock ELSE 0]
      BY DEF Round
    <2>3. lines' = [k \in Index |-> IF k = current THEN lines[k] + 1 ELSE lines[k]]
      BY <2>1, <2>2
    <2>4. ASSUME NEW k \in Index
          PROVE  lines'[k] = done + IF k < current THEN BlockLines
                                    ELSE IF k = current THEN inBlock + 1 ELSE 0
      <3>1. CASE k = current
        BY <1>1, <2>2, <2>3, <3>1 DEF Index
      <3>2. CASE k # current
        BY <2>2, <2>3, <3>2 DEF Index
      <3> QED BY <3>1, <3>2
    <2> QED BY <2>3, <2>4
  <1>3. CASE inBlock + 1 < BlockLines
    <2>1. current' = current /\ inBlock' = inBlock + 1
      BY <1>1, <1>3 DEF WriteLine, NextBlock
    <2>2. Round(done)'
      BY <1>1, <1>2, <1>3, <2>1 DEF Round, Index
    <2> QED BY <2>2 DEF RoundInv
  <1>4. CASE inBlock + 1 = BlockLines /\ current + 1 < Count
    <2>1. current' = current + 1 /\ inBlock' = 0
      <3>1. current + 1 \in Nat /\ (current + 1) % Count = current + 1
        BY <1>1, <1>4, ModSmall
      <3> QED BY <1>1, <1>4, <3>1 DEF WriteLine, NextBlock
    <2>2. \A k \in Index :
            done + (IF k < current THEN BlockLines ELSE IF k = current THEN inBlock + 1 ELSE 0)
            = done + (IF k < current' THEN BlockLines ELSE IF k = current' THEN inBlock' ELSE 0)
      BY <1>1, <1>4, <2>1 DEF Index
    <2>3. lines' = [k \in Index |-> done + IF k < current' THEN BlockLines
                                           ELSE IF k = current' THEN inBlock' ELSE 0]
      BY <1>2, <2>2
    <2>4. Round(done)'
      BY <1>1, <1>4, <2>1, <2>3 DEF Round, Index
    <2> QED BY <2>4 DEF RoundInv
  <1>5. CASE inBlock + 1 = BlockLines /\ current + 1 = Count
    <2>1. current' = 0 /\ inBlock' = 0
      BY <1>1, <1>5 DEF WriteLine, NextBlock
    <2>2. lines' = [k \in Index |-> done + BlockLines]
      BY <1>1, <1>2, <1>5 DEF Index
    <2>3. Round(done + BlockLines)'
      BY <1>1, <2>1, <2>2 DEF Round, Index
    <2> QED BY <1>1, <2>3 DEF RoundInv
  <1> QED BY <1>1, <1>3, <1>4, <1>5

LEMMA NextRound == RoundInv /\ [Next]_vars => RoundInv'
  <1> SUFFICES ASSUME RoundInv, [Next]_vars PROVE RoundInv'
    OBVIOUS
  <1>1. CASE WriteLine
    BY <1>1, WriteLineRound DEF RoundInv
  <1>2. CASE UNCHANGED lineVars
    BY <1>2 DEF RoundInv, Round, lineVars
  <1> QED BY <1>1, <1>2
          DEF Next, Finish, Caller, FlushBuffer, FlushFails, CloseSender, Join, Commit,
              PublishManifest, CommitFails, Thread, OpenFiles, Receive, FlushFiles,
              ThreadFails, vars

(* Two chunks never differ by more than one block, whatever their number.  *)
THEOREM ChunksBalanced == Spec => []Balanced
  <1>1. RoundInv => Balanced
    <2> SUFFICES ASSUME NEW done \in Nat, Round(done), NEW j \in Index, NEW k \in Index
                 PROVE  lines[j] <= lines[k] + BlockLines
      BY DEF RoundInv, Balanced
    <2> QED BY CoreAssumption DEF Round, Index
  <1> QED BY <1>1, InitRound, NextRound, PTL DEF Spec

(* ----- types -------------------------------------------------------------- *)
(* A buffer that is full is about to be sent, unless the writer is finishing. *)
Room ==
  status = "writing" => \A k \in Index : Len(pending[k]) < BatchLines \/ todo = <<k>>

(* No chunk has more lines than there are.                                    *)
Counted == \A k \in Index : lines[k] <= total

TypeInv == TypeOK /\ Room /\ Counted

LEMMA InitTypes == Init => TypeInv
  <1> SUFFICES ASSUME Init PROVE TypeInv
    OBVIOUS
  <1>1. 0 \in Index /\ 0 \in 0..(BlockLines - 1) /\ 0 \in 0..MaxLines
    BY CoreAssumption DEF Index
  <1>2. /\ <<>> \in Seq(Lines) /\ <<>> \in Seq(Index) /\ Len(<<>>) = 0
        /\ <<>> \in Seq(0..MaxLines) /\ <<>> \in Seq(Index \X Seq(Lines))
    OBVIOUS
  <1>3. TypeOK
    <2>1. /\ pending \in [Index -> Seq(Lines)] /\ written \in [Index -> Seq(Lines)]
          /\ file \in [Index -> Seq(Lines)] /\ lines \in [Index -> 0..MaxLines]
      BY <1>1, <1>2 DEF Init
    <2>2. \A k \in Index : Len(pending[k]) <= BatchLines
      BY <1>2, CoreAssumption DEF Init
    <2> QED BY <1>1, <1>2, <2>1, <2>2, CoreAssumption DEF Init, TypeOK
  <1>4. Room
    BY <1>2, CoreAssumption DEF Init, Room
  <1>5. Counted
    BY DEF Init, Counted
  <1> QED BY <1>3, <1>4, <1>5 DEF TypeInv

LEMMA WriteLineTypes == TypeInv /\ WriteLine => TypeInv'
  <1> SUFFICES ASSUME TypeInv, WriteLine PROVE TypeInv'
    OBVIOUS
  <1> USE CoreAssumption DEF Index
  <1>1. /\ current \in Index /\ inBlock \in 0..(BlockLines - 1) /\ total \in 0..MaxLines
        /\ pending \in [Index -> Seq(Lines)] /\ lines \in [Index -> 0..MaxLines]
    BY DEF TypeInv, TypeOK
  <1>2. total' = total + 1 /\ total' \in Lines /\ total' \in 0..MaxLines
    BY <1>1 DEF WriteLine, Lines
  <1>3. current' \in Index /\ inBlock' \in 0..(BlockLines - 1)
    <2>1. (current + 1) % Count \in Index
      BY <1>1
    <2>2. CASE inBlock + 1 >= BlockLines
      <3>1. current' = (current + 1) % Count /\ inBlock' = 0
        BY <2>2 DEF WriteLine, NextBlock
      <3> QED BY <1>1, <2>1, <3>1
    <2>3. CASE ~ (inBlock + 1 >= BlockLines)
      <3>1. current' = current /\ inBlock' = inBlock + 1
        BY <2>3 DEF WriteLine, NextBlock
      <3> QED BY <1>1, <2>3, <3>1
    <2> QED BY <2>2, <2>3
  <1>4. pending' = [pending EXCEPT ![current] = Append(pending[current], total')]
    BY DEF WriteLine
  <1>5. Append(pending[current], total') \in Seq(Lines)
        /\ Len(Append(pending[current], total')) = Len(pending[current]) + 1
    BY <1>1, <1>2
  <1>6. pending' \in [Index -> Seq(Lines)]
    BY <1>1, <1>4, <1>5
  <1>7. \A k \in Index : Len(pending[k]) < BatchLines /\ Len(pending[k]) \in Nat
    <2>1. todo = <<>> /\ status = "writing"
      BY DEF WriteLine
    <2>2. \A k \in Index : todo # <<k>>
      BY <2>1
    <2> QED BY <1>1, <2>1, <2>2 DEF TypeInv, Room
  <1>8. \A k \in Index : Len(pending'[k]) <= BatchLines
                         /\ (k # current => Len(pending'[k]) < BatchLines)
    <2> SUFFICES ASSUME NEW k \in Index
                 PROVE  Len(pending'[k]) <= BatchLines /\ (k # current => Len(pending'[k]) < BatchLines)
      OBVIOUS
    <2>1. CASE k = current
      <3>1. pending'[k] = Append(pending[current], total')
        BY <1>1, <1>4, <2>1
      <3> QED BY <1>1, <1>5, <1>7, <2>1, <3>1
    <2>2. CASE k # current
      <3>1. pending'[k] = pending[k]
        BY <1>1, <1>4, <2>2
      <3> QED BY <1>7, <3>1
    <2> QED BY <2>1, <2>2
  <1>9. todo' \in Seq(Index)
    <2>1. <<current>> \in Seq(Index) /\ <<>> \in Seq(Index)
      BY <1>1
    <2> QED BY <2>1 DEF WriteLine
  <1>10. lines' = [lines EXCEPT ![current] = lines[current] + 1]
    BY DEF WriteLine
  <1>11. Counted'
    BY SMTT(20), <1>1, <1>2, <1>10 DEF TypeInv, Counted
  <1>12. lines' \in [Index -> 0..MaxLines]
    <2>1. lines[current] <= total /\ lines[current] + 1 \in 0..MaxLines
      BY <1>1, <1>2 DEF TypeInv, Counted
    <2> QED BY <1>1, <1>10, <2>1
  <1>13. Room'
    <2> SUFFICES ASSUME NEW k \in Index, ~ (Len(pending'[k]) < BatchLines)
                 PROVE  todo' = <<k>>
      BY DEF Room
    <2>1. k = current
      BY <1>8
    <2>2. Len(pending'[current]) >= BatchLines
      BY <1>1, <1>6, <2>1
    <2> QED BY <2>1, <2>2 DEF WriteLine
  <1>14. UNCHANGED <<sender, chan, thread, written, file, entries, status>>
    BY DEF WriteLine, threadVars, outVars
  <1>15. TypeOK'
    BY <1>2, <1>3, <1>6, <1>8, <1>9, <1>12, <1>14 DEF TypeInv, TypeOK
  <1> QED BY <1>11, <1>13, <1>15 DEF TypeInv

LEMMA FlushBufferTypes == TypeInv /\ FlushBuffer => TypeInv'
  <1> SUFFICES ASSUME TypeInv, FlushBuffer PROVE TypeInv'
    OBVIOUS
  <1> USE CoreAssumption
  <1>1. /\ todo \in Seq(Index) /\ todo # <<>> /\ pending \in [Index -> Seq(Lines)]
        /\ chan \in Seq(Index \X Seq(Lines))
    BY DEF TypeInv, TypeOK, FlushBuffer
  <1> DEFINE k == Head(todo)
  <1>2. k \in Index /\ Tail(todo) \in Seq(Index)
    BY <1>1
  <1>3. /\ pending' = [pending EXCEPT ![k] = <<>>]
        /\ todo' = Tail(todo)
        /\ chan' = IF pending[k] = <<>> THEN chan ELSE Append(chan, <<k, pending[k]>>)
        /\ pending[k] # <<>> => Len(chan) < Capacity
        /\ UNCHANGED <<total, current, inBlock, lines, sender, thread, written, file, entries, status>>
    BY DEF FlushBuffer, lineVars, threadVars, outVars
  <1> HIDE DEF k
  <1>4. pending' \in [Index -> Seq(Lines)] /\ (\A j \in Index : Len(pending'[j]) <= BatchLines)
    <2>1. <<>> \in Seq(Lines) /\ Len(<<>>) = 0
      OBVIOUS
    <2>2. \A j \in Index : pending'[j] = IF j = k THEN <<>> ELSE pending[j]
      BY <1>1, <1>3
    <2>3. \A j \in Index : Len(pending[j]) <= BatchLines
      BY DEF TypeInv, TypeOK
    <2>4. pending' \in [Index -> Seq(Lines)]
      BY <1>1, <1>3, <2>1
    <2>5. ASSUME NEW j \in Index PROVE Len(pending'[j]) <= BatchLines
      <3>1. CASE j = k
        <4>1. Len(pending'[j]) = 0
          BY <2>1, <2>2, <3>1
        <4> QED BY <4>1
      <3>2. CASE j # k
        BY <2>2, <2>3, <3>2
      <3> QED BY <3>1, <3>2
    <2> QED BY <2>4, <2>5
  <1>5. chan' \in Seq(Index \X Seq(Lines)) /\ Len(chan') <= Capacity
    <2>1. CASE pending[k] = <<>>
      BY <1>3, <2>1 DEF TypeInv, TypeOK
    <2>2. CASE pending[k] # <<>>
      <3>1. <<k, pending[k]>> \in Index \X Seq(Lines)
        BY <1>1, <1>2
      <3> QED BY <1>1, <1>3, <2>2, <3>1
    <2> QED BY <2>1, <2>2
  <1>6. Room'
    <2> SUFFICES ASSUME status = "writing", NEW j \in Index
                 PROVE  Len(pending'[j]) < BatchLines
      BY <1>3 DEF Room
    <2>1. CASE j = k
      <3>1. pending'[j] = <<>> /\ Len(<<>>) = 0
        BY <1>1, <1>3, <2>1
      <3> QED BY <3>1
    <2>2. CASE j # k
      <3>1. todo # <<j>>
        BY <2>2 DEF k
      <3> QED BY <1>1, <1>3, <2>2, <3>1 DEF TypeInv, Room
    <2> QED BY <2>1, <2>2
  <1>7. Counted'
    BY <1>3 DEF TypeInv, Counted
  <1>8. TypeOK'
    BY <1>2, <1>3, <1>4, <1>5 DEF TypeInv, TypeOK
  <1> QED BY <1>6, <1>7, <1>8 DEF TypeInv

LEMMA FinishTypes == TypeInv /\ Finish => TypeInv'
  <1> SUFFICES ASSUME TypeInv, Finish PROVE TypeInv'
    OBVIOUS
  <1>1. todo' \in Seq(Index)
    <2>1. Count \in Nat /\ \A i \in 1..Count : i - 1 \in Index
      BY CoreAssumption DEF Index
    <2>2. [i \in 1..Count |-> i - 1] \in [1..Count -> Index]
      BY <2>1
    <2>3. [i \in 1..Count |-> i - 1] \in Seq(Index)
      BY <2>1, <2>2
    <2> QED BY <2>3 DEF Finish
  <1> QED BY <1>1 DEF Finish, TypeInv, TypeOK, Room, Counted, lineVars, threadVars

LEMMA ThreadTypes == TypeInv /\ Thread => TypeInv'
  <1> SUFFICES ASSUME TypeInv, Thread PROVE TypeInv'
    OBVIOUS
  <1>1. CASE OpenFiles
    BY <1>1 DEF OpenFiles, TypeInv, TypeOK, Room, Counted, lineVars, sendVars, outVars
  <1>2. CASE Receive
    <2>1. chan \in Seq(Index \X Seq(Lines)) /\ chan # <<>> /\ written \in [Index -> Seq(Lines)]
      BY <1>2 DEF Receive, TypeInv, TypeOK
    <2>2. Head(chan) \in Index \X Seq(Lines)
      BY <2>1
    <2>3. Tail(chan) \in Seq(Index \X Seq(Lines)) /\ Len(Tail(chan)) <= Capacity
      BY <2>1, CoreAssumption DEF TypeInv, TypeOK
    <2>4. written' \in [Index -> Seq(Lines)]
      <3>1. written[Head(chan)[1]] \o Head(chan)[2] \in Seq(Lines)
        BY <2>1, <2>2
      <3>2. written' = [written EXCEPT ![Head(chan)[1]] = written[Head(chan)[1]] \o Head(chan)[2]]
        BY <1>2 DEF Receive
      <3> QED BY <2>1, <3>1, <3>2
    <2> QED BY <1>2, <2>3, <2>4 DEF Receive, TypeInv, TypeOK, Room, Counted, lineVars, outVars
  <1>3. CASE FlushFiles
    BY <1>3 DEF FlushFiles, TypeInv, TypeOK, Room, Counted, lineVars, sendVars, outVars
  <1>4. CASE ThreadFails
    <2>1. <<>> \in Seq(Index \X Seq(Lines)) /\ Len(<<>>) <= Capacity
      BY CoreAssumption
    <2> QED BY <1>4, <2>1 DEF ThreadFails, TypeInv, TypeOK, Room, Counted, lineVars, outVars
  <1> QED BY <1>1, <1>2, <1>3, <1>4 DEF Thread

LEMMA NextTypes == TypeInv /\ [Next]_vars => TypeInv'
  <1> SUFFICES ASSUME TypeInv, [Next]_vars PROVE TypeInv'
    OBVIOUS
  <1>0. <<>> \in Seq(Index)
    OBVIOUS
  <1>1. CASE FlushFails
    BY <1>0, <1>1 DEF FlushFails, GiveUp, TypeInv, TypeOK, Room, Counted, lineVars, threadVars
  <1>2. CASE CloseSender
    BY <1>2 DEF CloseSender, TypeInv, TypeOK, Room, Counted, lineVars, threadVars
  <1>3. CASE Join
    BY <1>3 DEF Join, TypeInv, TypeOK, Room, Counted, lineVars, sendVars, threadVars
  <1>4. CASE Commit
    <2>1. entries \in Seq(0..MaxLines) /\ Len(entries) \in Index
      <3>1. entries \in Seq(0..MaxLines) /\ Len(entries) < Count
        BY <1>4 DEF Commit, TypeInv, TypeOK
      <3>2. Len(entries) \in Nat
        BY <3>1
      <3> QED BY <3>1, <3>2, CoreAssumption DEF Index
    <2>2. lines[Len(entries)] \in 0..MaxLines
      BY <2>1 DEF TypeInv, TypeOK
    <2>3. entries' \in Seq(0..MaxLines) /\ Len(entries') <= Count
      BY <1>4, <2>1, <2>2, CoreAssumption DEF Commit, Index
    <2> QED BY <1>4, <2>3 DEF Commit, TypeInv, TypeOK, Room, Counted, lineVars, sendVars, threadVars
  <1>5. CASE PublishManifest
    BY <1>5 DEF PublishManifest, TypeInv, TypeOK, Room, Counted, lineVars, sendVars, threadVars
  <1>6. CASE CommitFails
    BY <1>0, <1>6 DEF CommitFails, GiveUp, TypeInv, TypeOK, Room, Counted, lineVars, threadVars
  <1>7. CASE UNCHANGED vars
    BY <1>7 DEF vars, TypeInv, TypeOK, Room, Counted, lineVars, sendVars, threadVars, outVars
  <1> QED BY <1>1, <1>2, <1>3, <1>4, <1>5, <1>6, <1>7, WriteLineTypes, FlushBufferTypes,
             FinishTypes, ThreadTypes DEF Next, Caller

(* The state is what the code's types and limits allow; no buffer outgrows    *)
(* its limit and the channel never holds more than it has slots.              *)
THEOREM TypeCorrect == Spec => []TypeOK
  <1>1. TypeInv => TypeOK
    BY DEF TypeInv
  <1> QED BY <1>1, InitTypes, NextTypes, PTL DEF Spec

(* ----- the order of the lines --------------------------------------------- *)
LEMMA Quotient ==
  ASSUME NEW b \in Nat \ {0}, NEW q \in Nat, NEW r \in Nat, r < b
  PROVE  (b * q + r) \div b = q /\ (b * q + r) % b = r
  <1> DEFINE a == b * q + r
             d == a \div b
  <1>1. a \in Nat /\ b * q \in Nat
    BY SMT
  <1>2. d \in Nat /\ b * d <= a /\ a < b * d + b
    BY <1>1, SMT
  <1> HIDE DEF d
  <1>3. ~ (d < q)
    <2> SUFFICES ASSUME d < q PROVE FALSE
      OBVIOUS
    <2>1. b * (d + 1) <= b * q
      BY <1>2, SMT
    <2>2. b * (d + 1) = b * d + b
      BY <1>2, SMT
    <2> QED BY <1>1, <1>2, <2>1, <2>2
  <1>4. ~ (q < d)
    <2> SUFFICES ASSUME q < d PROVE FALSE
      OBVIOUS
    <2>1. b * (q + 1) <= b * d
      BY <1>2, SMT
    <2>2. b * (q + 1) = b * q + b
      BY SMT
    <2> QED BY <1>1, <1>2, <2>1, <2>2
  <1>5. d = q
    BY <1>2, <1>3, <1>4
  <1>6. a = b * d + (a % b) /\ a % b \in Nat
    BY <1>1, SMT DEF d
  <1>7. a % b = r
    BY <1>1, <1>2, <1>5, <1>6
  <1> QED BY <1>5, <1>7 DEF d

LEMMA ModNext ==
  ASSUME NEW n \in Nat \ {0}, NEW q \in Nat
  PROVE  ((q % n) + 1) % n = (q + 1) % n
  <1> DEFINE d == q \div n
             r == q % n
  <1>1. d \in Nat /\ r \in Nat /\ r < n /\ q = n * d + r
    BY SMT
  <1> HIDE DEF d, r
  <1>2. CASE r + 1 < n
    <2>1. q + 1 = n * d + (r + 1) /\ n * d \in Nat
      BY <1>1
    <2>2. (q + 1) % n = r + 1
      BY <1>1, <1>2, <2>1, Quotient
    <2>3. (r + 1) % n = r + 1
      BY <1>1, <1>2, ModSmall
    <2> QED BY <2>2, <2>3 DEF r
  <1>3. CASE r + 1 = n
    <2>1. q + 1 = n * (d + 1) + 0
      BY <1>1, <1>3
    <2>2. (q + 1) % n = 0
      BY <1>1, <1>3, <2>1, Quotient
    <2>3. n % n = 0
      BY SMT
    <2> QED BY <1>3, <2>2, <2>3 DEF r
  <1> QED BY <1>1, <1>2, <1>3

(* The current chunk is the one that the number of the next line asks for.    *)
Turn(q) == total = BlockLines * q + inBlock /\ current = q % Count
Position == \E q \in Nat : Turn(q)

LEMMA NextLineGoesToCurrent == TypeInv /\ Position => ChunkOf(total + 1) = current
  <1> SUFFICES ASSUME TypeInv, NEW q \in Nat, Turn(q) PROVE ChunkOf(total + 1) = current
    BY DEF Position
  <1>1. inBlock \in Nat /\ inBlock < BlockLines /\ total \in Nat /\ BlockLines \in Nat \ {0}
    BY CoreAssumption DEF TypeInv, TypeOK
  <1>2. total \div BlockLines = q
    BY <1>1, Quotient DEF Turn
  <1>3. (total + 1) - 1 = total
    BY <1>1
  <1> QED BY <1>2, <1>3 DEF ChunkOf, Turn

LEMMA InitPosition == Init => Position
  <1> SUFFICES ASSUME Init PROVE Turn(0)
    BY DEF Position
  <1>1. 0 % Count = 0
    BY ModSmall, CoreAssumption
  <1> QED BY <1>1, CoreAssumption DEF Init, Turn

LEMMA NextPosition == TypeInv /\ Position /\ [Next]_vars => Position'
  <1> SUFFICES ASSUME TypeInv, Position, [Next]_vars PROVE Position'
    OBVIOUS
  <1>1. CASE WriteLine
    <2>1. PICK q \in Nat : Turn(q)
      BY DEF Position
    <2>2. inBlock \in 0..(BlockLines - 1) /\ BlockLines \in Nat \ {0} /\ Count \in Nat \ {0} /\ total \in Nat
      BY CoreAssumption DEF TypeInv, TypeOK
    <2>3. total' = total + 1
      BY <1>1 DEF WriteLine
    <2>4. CASE inBlock + 1 >= BlockLines
      <3>1. current' = (current + 1) % Count /\ inBlock' = 0
        BY <1>1, <2>4 DEF WriteLine, NextBlock
      <3>2. current' = (q + 1) % Count
        BY <2>1, <2>2, <3>1, ModNext DEF Turn
      <3>3. BlockLines * (q + 1) = BlockLines * q + BlockLines /\ BlockLines * q \in Nat
        BY <2>2
      <3>4. total' = BlockLines * (q + 1) + inBlock'
        BY <2>1, <2>2, <2>3, <2>4, <3>1, <3>3 DEF Turn
      <3>5. Turn(q + 1)'
        BY <3>2, <3>4 DEF Turn
      <3> QED BY <3>5 DEF Position
    <2>5. CASE ~ (inBlock + 1 >= BlockLines)
      <3>1. current' = current /\ inBlock' = inBlock + 1
        BY <1>1, <2>5 DEF WriteLine, NextBlock
      <3>2. BlockLines * q \in Nat
        BY <2>2
      <3>3. Turn(q)'
        BY <2>1, <2>2, <2>3, <3>1, <3>2 DEF Turn
      <3> QED BY <3>3 DEF Position
    <2> QED BY <2>4, <2>5
  <1>2. CASE UNCHANGED lineVars
    BY <1>2 DEF Position, Turn, lineVars
  <1> QED BY <1>1, <1>2
          DEF Next, Finish, Caller, FlushBuffer, FlushFails, CloseSender, Join, Commit,
              PublishManifest, CommitFails, Thread, OpenFiles, Receive, FlushFiles,
              ThreadFails, vars

(* ----- the flow of the lines ---------------------------------------------- *)
LEMMA RangeOfAppend ==
  ASSUME NEW S, NEW s \in Seq(S), NEW e \in S
  PROVE  /\ Range(Append(s, e)) = Range(s) \cup {e}
         /\ DOMAIN Append(s, e) = DOMAIN s \cup {Len(s) + 1}
         /\ Append(s, e)[Len(s) + 1] = e
         /\ \A i \in DOMAIN s : Append(s, e)[i] = s[i] /\ i < Len(s) + 1
  <1>1. /\ Len(s) \in Nat /\ DOMAIN s = 1..Len(s) /\ DOMAIN Append(s, e) = 1..(Len(s) + 1)
        /\ Append(s, e)[Len(s) + 1] = e
        /\ \A i \in 1..Len(s) : Append(s, e)[i] = s[i]
    OBVIOUS
  <1>2. 1..(Len(s) + 1) = 1..Len(s) \cup {Len(s) + 1}
    BY <1>1
  <1> QED BY <1>1, <1>2 DEF Range

LEMMA RangeOfConcat ==
  ASSUME NEW S, NEW s \in Seq(S), NEW t \in Seq(S)
  PROVE  Range(s \o t) = Range(s) \cup Range(t)
  BY RangeConcatenation

(* Orders are about what the sequences hold.                                  *)
LEMMA BeforeByRange ==
  ASSUME NEW s, NEW t
  PROVE  Before(s, t) <=> \A x \in Range(s), y \in Range(t) : x < y
  BY DEF Before, Range

LEMMA ConcatIncreases ==
  ASSUME NEW s \in Seq(Nat), NEW t \in Seq(Nat), Increasing(s), Increasing(t), Before(s, t)
  PROVE  Increasing(s \o t)
  <1> SUFFICES ASSUME NEW i \in DOMAIN (s \o t), NEW j \in DOMAIN (s \o t), i < j
               PROVE  (s \o t)[i] < (s \o t)[j]
    BY DEF Increasing
  <1>1. /\ Len(s) \in Nat /\ Len(t) \in Nat /\ DOMAIN s = 1..Len(s) /\ DOMAIN t = 1..Len(t)
        /\ DOMAIN (s \o t) = 1..(Len(s) + Len(t))
        /\ \A m \in 1..(Len(s) + Len(t)) : (s \o t)[m] = IF m <= Len(s) THEN s[m] ELSE t[m - Len(s)]
    OBVIOUS
  <1>2. CASE j <= Len(s)
    BY <1>1, <1>2 DEF Increasing
  <1>3. CASE i <= Len(s) /\ ~ (j <= Len(s))
    <2>1. j - Len(s) \in DOMAIN t /\ i \in DOMAIN s
      BY <1>1, <1>3
    <2> QED BY <1>1, <1>3, <2>1 DEF Before
  <1>4. CASE ~ (i <= Len(s))
    <2>1. j - Len(s) \in DOMAIN t /\ i - Len(s) \in DOMAIN t /\ i - Len(s) < j - Len(s) /\ ~ (j <= Len(s))
      BY <1>1, <1>4
    <2> QED BY <1>1, <1>4, <2>1 DEF Increasing
  <1> QED BY <1>1, <1>2, <1>3, <1>4

Flow(k) == Kept(k) /\ InOrder(k)

LEMMA InitFlow == Init => LinesFlow
  <1> SUFFICES ASSUME Init, NEW k \in Index PROVE Flow(k)
    BY DEF LinesFlow, Flow
  <1>1. Assigned(k) = {} /\ UnderWay(k) = {} /\ written[k] = <<>> /\ pending[k] = <<>>
    BY DEF Init, Assigned, UnderWay
  <1>2. DOMAIN <<>> = {} /\ Range(<<>>) = {}
    BY DEF Range
  <1> QED BY <1>1, <1>2 DEF Flow, Kept, InOrder, Increasing, Before

LEMMA WriteLineFlow ==
  ASSUME TypeInv, Position, WriteLine, NEW k \in Index, Flow(k)
  PROVE  Flow(k)'
  <1> DEFINE t == total + 1
  <1>1. /\ pending \in [Index -> Seq(Lines)] /\ total \in Nat /\ current \in Index
        /\ written \in [Index -> Seq(Lines)]
    BY SMTT(20), CoreAssumption DEF TypeInv, TypeOK
  <1>2. /\ total' = t /\ t \in Lines
        /\ pending' = [pending EXCEPT ![current] = Append(pending[current], t)]
        /\ chan' = chan /\ written' = written
    BY <1>1, CoreAssumption DEF WriteLine, threadVars, Lines, TypeInv, TypeOK
  <1>3. UnderWay(k)' = UnderWay(k)
    BY <1>2 DEF UnderWay
  <1>4. Assigned(k)' = Assigned(k) \cup (IF k = current THEN {t} ELSE {})
    <2>1. 1..total' = 1..total \cup {t}
      BY <1>1, <1>2
    <2>2. ChunkOf(t) = current
      BY NextLineGoesToCurrent
    <2>3. \A i : ChunkOf(i)' = ChunkOf(i)
      BY DEF ChunkOf
    <2> QED BY <2>1, <2>2, <2>3 DEF Assigned
  <1>5. CASE k # current
    <2>1. pending'[k] = pending[k]
      BY <1>1, <1>2, <1>5
    <2> QED BY <1>2, <1>3, <1>4, <1>5, <2>1 DEF Flow, Kept, InOrder, Increasing, Before
  <1>6. CASE k = current
    <2> DEFINE p == pending[k]
    <2>1. p \in Seq(Lines) /\ pending'[k] = Append(p, t)
      BY <1>1, <1>2, <1>6
    <2>2. /\ Range(pending'[k]) = Range(p) \cup {t}
          /\ DOMAIN pending'[k] = DOMAIN p \cup {Len(p) + 1}
          /\ pending'[k][Len(p) + 1] = t
          /\ \A i \in DOMAIN p : pending'[k][i] = p[i] /\ i < Len(p) + 1
      BY <1>2, <2>1, RangeOfAppend
    <2>3. /\ Assigned(k) = Range(written[k]) \cup Range(p) \cup (UNION {Range(chan[m][2]) : m \in UnderWay(k)})
          /\ InOrder(k)
      BY DEF Flow, Kept
    <2>4. \A x \in Assigned(k) : x < t
      BY <1>1 DEF Assigned
    <2>5. Kept(k)'
      <3>1. UNION {Range(chan'[m][2]) : m \in UnderWay(k)'}
              = UNION {Range(chan[m][2]) : m \in UnderWay(k)}
        BY <1>2, <1>3
      <3>2. Assigned(k)' = Range(written[k]) \cup Range(pending'[k])
                             \cup (UNION {Range(chan'[m][2]) : m \in UnderWay(k)'})
        BY <1>4, <1>6, <2>2, <2>3, <3>1
      <3> QED BY <1>2, <3>2 DEF Kept
    <2>6. Increasing(pending'[k])
      <3> SUFFICES ASSUME NEW i \in DOMAIN pending'[k], NEW j \in DOMAIN pending'[k], i < j
                   PROVE  pending'[k][i] < pending'[k][j]
        BY DEF Increasing
      <3>1. i \in DOMAIN p
        BY <2>1, <2>2
      <3>2. CASE j \in DOMAIN p
        BY <2>2, <2>3, <3>1, <3>2 DEF InOrder, Increasing
      <3>3. CASE j = Len(p) + 1
        <4>1. p[i] \in Assigned(k)
          <5>1. p[i] \in Range(p)
            BY <3>1 DEF Range
          <5> QED BY <2>3, <5>1
        <4> QED BY <2>2, <2>4, <3>1, <3>3, <4>1
      <3> QED BY <2>2, <3>2, <3>3
    <2>7. ASSUME NEW s, Range(s) \subseteq Assigned(k), Before(s, p) PROVE Before(s, pending'[k])
      <3>1. \A x \in Range(s), y \in Range(p) \cup {t} : x < y
        BY <2>4, <2>7, BeforeByRange
      <3> QED BY <2>2, <3>1, BeforeByRange
    <2>8. /\ Before(written[k], pending'[k])
          /\ \A m \in UnderWay(k) : Before(chan[m][2], pending'[k])
      BY <2>3, <2>7 DEF InOrder
    <2>9. InOrder(k)'
      BY <1>2, <1>3, <2>3, <2>6, <2>8 DEF InOrder, Increasing, Before
    <2> QED BY <2>5, <2>9 DEF Flow
  <1> QED BY <1>5, <1>6

LEMMA FlushBufferFlow ==
  ASSUME TypeInv, FlushBuffer, NEW k \in Index, Flow(k)
  PROVE  Flow(k)'
  <1> DEFINE h == Head(todo)
  <1>1. /\ pending \in [Index -> Seq(Lines)] /\ chan \in Seq(Index \X Seq(Lines))
        /\ h \in Index
    <2>1. todo \in Seq(Index) /\ todo # <<>>
      BY DEF TypeInv, TypeOK, FlushBuffer
    <2>2. Head(todo) \in Index
      BY <2>1
    <2> QED BY <2>2 DEF TypeInv, TypeOK
  <1>2. /\ pending' = [pending EXCEPT ![h] = <<>>]
        /\ chan' = IF pending[h] = <<>> THEN chan ELSE Append(chan, <<h, pending[h]>>)
        /\ UNCHANGED <<total, written>>
    BY DEF FlushBuffer, lineVars, threadVars
  <1> HIDE DEF h
  <1>3. Assigned(k)' = Assigned(k)
    BY <1>2 DEF Assigned, ChunkOf
  <1>4. DOMAIN <<>> = {} /\ Range(<<>>) = {}
    BY DEF Range
  <1>5. CASE pending[h] = <<>>
    <2>1. chan' = chan /\ pending' = pending
      BY <1>1, <1>2, <1>5
    <2> QED BY <1>2, <1>3, <2>1 DEF Flow, Kept, InOrder, Increasing, Before, UnderWay
  <1>6. CASE pending[h] # <<>>
    <2> DEFINE e == Len(chan) + 1
               n == <<h, pending[h]>>
    <2>0. n \in Index \X Seq(Lines) /\ n[1] = h /\ n[2] = pending[h] /\ chan' = Append(chan, n)
      BY <1>1, <1>2, <1>6
    <2>1. /\ DOMAIN chan' = DOMAIN chan \cup {e}
          /\ chan'[e] = n
          /\ \A m \in DOMAIN chan : chan'[m] = chan[m] /\ m < e
      BY <1>1, <2>0, RangeOfAppend
    <2>2. CASE k # h
      <3>1. pending'[k] = pending[k]
        BY <1>1, <1>2, <2>2
      <3>2. UnderWay(k)' = UnderWay(k)
        BY <2>0, <2>1, <2>2 DEF UnderWay
      <3>3. \A m \in UnderWay(k) : chan'[m] = chan[m]
        BY <2>1 DEF UnderWay
      <3>4. {Range(chan'[m][2]) : m \in UnderWay(k)} = {Range(chan[m][2]) : m \in UnderWay(k)}
        BY <3>3
      <3>5. Kept(k)'
        BY <1>2, <1>3, <3>1, <3>2, <3>4 DEF Flow, Kept
      <3>6. InOrder(k)'
        <4>1. /\ Increasing(written[k]) /\ Increasing(pending[k]) /\ Before(written[k], pending[k])
              /\ \A m \in UnderWay(k) :
                    /\ Increasing(chan'[m][2])
                    /\ Before(written[k], chan'[m][2]) /\ Before(chan'[m][2], pending[k])
                    /\ \A q \in UnderWay(k) : m < q => Before(chan'[m][2], chan'[q][2])
          BY <3>3 DEF Flow, InOrder
        <4> HIDE DEF e, n
        <4>2. \A s, u : Increasing(s)' = Increasing(s) /\ Before(s, u)' = Before(s, u)
          BY DEF Increasing, Before
        <4>3. written' = written
          BY <1>2
        <4> QED BY <3>1, <3>2, <4>1, <4>3 DEF InOrder, Increasing, Before
      <3> QED BY <3>5, <3>6 DEF Flow
    <2>3. CASE k = h
      <3>1. pending'[k] = <<>>
        BY <1>1, <1>2, <2>3
      <3>2. UnderWay(k)' = UnderWay(k) \cup {e}
        BY <2>0, <2>1, <2>3 DEF UnderWay
      <3>3. \A m \in UnderWay(k) : chan'[m] = chan[m] /\ m < e /\ m \in Nat
        BY <1>1, <2>1 DEF UnderWay
      <3>4. chan'[e][2] = pending[k]
        BY <2>0, <2>1, <2>3
      <3>5. UNION {Range(chan'[m][2]) : m \in UnderWay(k)'}
              = (UNION {Range(chan[m][2]) : m \in UnderWay(k)}) \cup Range(pending[k])
        <4>1. {Range(chan'[m][2]) : m \in UnderWay(k)'}
                = {Range(chan'[m][2]) : m \in UnderWay(k)} \cup {Range(chan'[e][2])}
          BY <3>2
        <4>2. {Range(chan'[m][2]) : m \in UnderWay(k)} = {Range(chan[m][2]) : m \in UnderWay(k)}
          BY <3>3
        <4> QED BY <3>4, <4>1, <4>2
      <3>6. Kept(k)'
        BY <1>2, <1>3, <1>4, <3>1, <3>5 DEF Flow, Kept
      <3>7. \A m \in UnderWay(k)' : Increasing(chan'[m][2]) /\ Before(written[k], chan'[m][2])
        BY <3>2, <3>3, <3>4 DEF Flow, InOrder
      <3>8. ASSUME NEW m \in UnderWay(k)', NEW q \in UnderWay(k)', m < q
            PROVE  Before(chan'[m][2], chan'[q][2])
        <4>1. m \in UnderWay(k)
          <5>1. CASE m = e
            BY <1>1, <3>2, <3>3, <3>8, <5>1
          <5> QED BY <3>2, <5>1
        <4>2. CASE q = e
          BY <3>3, <3>4, <4>1, <4>2 DEF Flow, InOrder
        <4>3. CASE q # e
          BY <3>2, <3>3, <3>8, <4>1, <4>3 DEF Flow, InOrder
        <4> QED BY <4>2, <4>3
      <3>9. InOrder(k)'
        <4>1. Increasing(<<>>) /\ \A s : Before(s, <<>>)
          BY <1>4 DEF Increasing, Before
        <4>2. Increasing(written[k])
          BY DEF Flow, InOrder
        <4>3. \A s, u : Increasing(s)' = Increasing(s) /\ Before(s, u)' = Before(s, u)
          BY DEF Increasing, Before
        <4> HIDE DEF e, n
        <4> QED BY ZenonT(30), <1>2, <3>1, <3>7, <3>8, <4>1, <4>2 DEF InOrder, Increasing, Before
      <3> QED BY <3>6, <3>9 DEF Flow
    <2> QED BY <2>2, <2>3
  <1> QED BY <1>5, <1>6

LEMMA ReceiveFlow ==
  ASSUME TypeInv, Receive, NEW k \in Index, Flow(k)
  PROVE  Flow(k)'
  <1> DEFINE h == Head(chan)[1]
             b == Head(chan)[2]
  <1>1. /\ written \in [Index -> Seq(Lines)] /\ pending \in [Index -> Seq(Lines)]
        /\ chan \in Seq(Index \X Seq(Lines)) /\ chan # <<>>
    BY DEF TypeInv, TypeOK, Receive
  <1>2. /\ chan[1] \in Index \X Seq(Lines) /\ chan[1] = Head(chan) /\ 1 \in DOMAIN chan
        /\ h \in Index /\ b \in Seq(Lines)
    <2>1. Head(chan) \in Index \X Seq(Lines) /\ Len(chan) \in Nat \ {0}
      BY <1>1
    <2>2. Head(chan) = chan[1] /\ 1 \in DOMAIN chan
      BY <1>1, <2>1
    <2> QED BY <2>1, <2>2
  <1>3. /\ DOMAIN chan = 1..Len(chan) /\ Len(chan) \in Nat
        /\ DOMAIN Tail(chan) = 1..(Len(chan) - 1)
        /\ \A m \in 1..(Len(chan) - 1) : Tail(chan)[m] = chan[m + 1]
    BY <1>1
  <1>4. /\ written' = [written EXCEPT ![h] = written[h] \o b]
        /\ chan' = Tail(chan)
        /\ UNCHANGED <<total, pending>>
    BY DEF Receive, lineVars
  <1>5. Assigned(k)' = Assigned(k)
    BY <1>4 DEF Assigned, ChunkOf
  <1>6. UnderWay(k)' = {m \in 1..(Len(chan) - 1) : chan[m + 1][1] = k}
    BY <1>3, <1>4 DEF UnderWay
  <1>7. \A m \in UnderWay(k)' : chan'[m] = chan[m + 1] /\ m + 1 \in UnderWay(k) /\ m \in Nat /\ 1 < m + 1
    BY <1>3, <1>4, <1>6 DEF UnderWay
  <1>8. \A m \in UnderWay(k) : m # 1 => m - 1 \in UnderWay(k)' /\ chan'[m - 1] = chan[m]
    <2> SUFFICES ASSUME NEW m \in UnderWay(k), m # 1
                 PROVE  m - 1 \in UnderWay(k)' /\ chan'[m - 1] = chan[m]
      OBVIOUS
    <2>1. m - 1 \in 1..(Len(chan) - 1) /\ (m - 1) + 1 = m
      BY <1>3 DEF UnderWay
    <2> QED BY <1>3, <1>4, <1>6, <2>1 DEF UnderWay
  <1>9. 1 \in UnderWay(k) <=> h = k
    BY <1>2 DEF UnderWay
  <1> HIDE DEF h, b
  <1>10. {Range(chan[m][2]) : m \in UnderWay(k)}
           = {Range(chan'[m][2]) : m \in UnderWay(k)'} \cup (IF h = k THEN {Range(b)} ELSE {})
    <2>1. ASSUME NEW m \in UnderWay(k)
          PROVE  Range(chan[m][2]) \in {Range(chan'[q][2]) : q \in UnderWay(k)'}
                                        \cup (IF h = k THEN {Range(b)} ELSE {})
      <3>1. CASE m = 1
        BY <1>2, <1>9, <3>1 DEF b
      <3>2. CASE m # 1
        BY <1>8, <3>2
      <3> QED BY <3>1, <3>2
    <2>2. ASSUME NEW m \in UnderWay(k)'
          PROVE  Range(chan'[m][2]) \in {Range(chan[q][2]) : q \in UnderWay(k)}
      BY <1>7
    <2>3. h = k => Range(b) \in {Range(chan[q][2]) : q \in UnderWay(k)}
      BY <1>2, <1>9 DEF b
    <2> QED BY <2>1, <2>2, <2>3
  <1>11. \A s, u : Increasing(s)' = Increasing(s) /\ Before(s, u)' = Before(s, u)
    BY DEF Increasing, Before
  <1>12. \A m \in UnderWay(k)' :
            /\ Increasing(chan'[m][2]) /\ Before(written[k], chan'[m][2]) /\ Before(chan'[m][2], pending[k])
            /\ \A q \in UnderWay(k)' : m < q => Before(chan'[m][2], chan'[q][2])
    <2> SUFFICES ASSUME NEW m \in UnderWay(k)'
                 PROVE  /\ Increasing(chan'[m][2]) /\ Before(written[k], chan'[m][2])
                        /\ Before(chan'[m][2], pending[k])
                        /\ \A q \in UnderWay(k)' : m < q => Before(chan'[m][2], chan'[q][2])
      OBVIOUS
    <2>1. chan'[m] = chan[m + 1] /\ m + 1 \in UnderWay(k)
      BY <1>7
    <2>2. ASSUME NEW q \in UnderWay(k)', m < q
          PROVE  Before(chan'[m][2], chan'[q][2])
      <3>1. chan'[q] = chan[q + 1] /\ q + 1 \in UnderWay(k) /\ m + 1 < q + 1
        BY <1>7, <2>2
      <3> QED BY <2>1, <3>1 DEF Flow, InOrder
    <2> QED BY <2>1, <2>2 DEF Flow, InOrder
  <1>13. CASE h # k
    <2>1. written'[k] = written[k]
      BY <1>1, <1>4, <1>13
    <2>2. Kept(k)'
      BY <1>4, <1>5, <1>10, <1>13, <2>1 DEF Flow, Kept
    <2>3. InOrder(k)'
      BY <1>4, <1>12, <2>1 DEF Flow, InOrder, Increasing, Before
    <2> QED BY <2>2, <2>3 DEF Flow
  <1>14. CASE h = k
    <2>1. written'[k] = written[k] \o b /\ written[k] \in Seq(Lines) /\ Lines \subseteq Nat
      BY <1>1, <1>4, <1>14 DEF Lines
    <2>2. Range(written'[k]) = Range(written[k]) \cup Range(b)
      BY <1>2, <2>1, RangeOfConcat
    <2>3. Kept(k)'
      <3>1. UNION {Range(chan[m][2]) : m \in UnderWay(k)}
              = (UNION {Range(chan'[m][2]) : m \in UnderWay(k)'}) \cup Range(b)
        BY <1>10, <1>14
      <3>2. Assigned(k)' = Range(written'[k]) \cup Range(pending[k])
                             \cup (UNION {Range(chan'[m][2]) : m \in UnderWay(k)'})
        BY <1>5, <2>2, <3>1 DEF Flow, Kept
      <3> QED BY <1>4, <3>2 DEF Kept
    <2>4. 1 \in UnderWay(k) /\ chan[1][2] = b
      BY <1>2, <1>9, <1>14 DEF b
    <2>5. /\ Increasing(written[k]) /\ Increasing(b) /\ Before(written[k], b)
          /\ Before(written[k], pending[k]) /\ Before(b, pending[k]) /\ Increasing(pending[k])
      BY <2>4 DEF Flow, InOrder
    <2>6. Increasing(written'[k])
      <3>1. written[k] \in Seq(Nat) /\ b \in Seq(Nat)
        BY <1>2, <2>1, SeqMonotonic
      <3> QED BY <2>1, <2>5, <3>1, ConcatIncreases
    <2>7. ASSUME NEW u, Before(written[k], u), Before(b, u) PROVE Before(written'[k], u)
      <3>1. \A x \in Range(written[k]) \cup Range(b), y \in Range(u) : x < y
        BY <2>7, BeforeByRange
      <3> QED BY <2>2, <3>1, BeforeByRange
    <2>8. \A m \in UnderWay(k)' : Before(b, chan'[m][2])
      BY <1>7, <2>4 DEF Flow, InOrder
    <2>9. Before(written'[k], pending[k]) /\ \A m \in UnderWay(k)' : Before(written'[k], chan'[m][2])
      BY <1>12, <2>5, <2>7, <2>8
    <2>10. InOrder(k)'
      BY <1>4, <1>12, <2>5, <2>6, <2>9 DEF InOrder, Increasing, Before
    <2> QED BY <2>3, <2>10 DEF Flow
  <1> QED BY <1>13, <1>14

LEMMA NextFlow == TypeInv /\ Position /\ LinesFlow /\ [Next]_vars => LinesFlow'
  <1> SUFFICES ASSUME TypeInv, Position, LinesFlow, [Next]_vars, thread' # "failed", NEW k \in Index
               PROVE  Flow(k)'
    BY DEF LinesFlow, Flow
  <1>1. CASE thread = "failed"
    BY <1>1 DEF Next, Caller, Thread, WriteLine, FlushBuffer, FlushFails, Finish, CloseSender, Join,
                Commit, PublishManifest, CommitFails, OpenFiles, Receive, FlushFiles, ThreadFails,
                threadVars, vars
  <1>2. CASE thread # "failed"
    <2>0. Flow(k)
      BY <1>2 DEF LinesFlow, Flow
    <2>1. CASE WriteLine
      BY <2>0, <2>1, WriteLineFlow
    <2>2. CASE FlushBuffer
      BY <2>0, <2>2, FlushBufferFlow
    <2>3. CASE Receive
      BY <2>0, <2>3, ReceiveFlow
    <2>4. CASE UNCHANGED <<total, pending, chan, written>>
      BY <2>0, <2>4 DEF Flow, Kept, InOrder, Assigned, ChunkOf, UnderWay, Increasing, Before
    <2>5. ~ ThreadFails
      BY DEF ThreadFails
    <2> QED BY <2>1, <2>2, <2>3, <2>4, <2>5
            DEF Next, Caller, Thread, FlushFails, Finish, CloseSender, Join, Commit, PublishManifest,
                CommitFails, OpenFiles, FlushFiles, lineVars, sendVars, threadVars, vars
  <1> QED BY <1>1, <1>2

(* Between the caller and the writer thread no line is lost, doubled or       *)
(* overtaken, for any number of chunks, any buffers and any channel.          *)
THEOREM LinesAreNotLost == Spec => []LinesFlow
  BY InitTypes, NextTypes, InitPosition, NextPosition, InitFlow, NextFlow, PTL DEF Spec

(* ----- the end of a run --------------------------------------------------- *)
(* finish has emptied the buffers before the chunk it is about to flush.      *)
Flushed ==
  status = "finishing" =>
    \E n \in 0..Count :
      /\ todo = [i \in 1..n |-> Count - n + i - 1]
      /\ \A k \in Index : k < Count - n => pending[k] = <<>>

(* The sender lives until finish has flushed; the thread ends after that; a   *)
(* chunk is published after the thread has ended.                             *)
Phases ==
  /\ todo # <<>> => status \in {"writing", "finishing"}
  /\ sender <=> status \in {"writing", "finishing"}
  /\ status \in {"joining", "committing", "complete"} => \A k \in Index : pending[k] = <<>>
  /\ thread = "ended" => ~ sender /\ chan = <<>> /\ file = written
  /\ status \in {"committing", "complete"} => thread = "ended"
  /\ entries # <<>> => status \in {"committing", "complete", "failed"}
  /\ \A i \in DOMAIN entries : entries[i] = lines[i - 1]
  /\ status = "complete" => Len(entries) = Count

EndInv == Flushed /\ Phases

LEMMA InitEnd == Init => EndInv
  BY DEF Init, EndInv, Flushed, Phases

LEMMA FlushBufferEnd == TypeInv /\ EndInv /\ FlushBuffer => EndInv'
  <1> SUFFICES ASSUME TypeInv, EndInv, FlushBuffer PROVE EndInv'
    OBVIOUS
  <1> USE CoreAssumption
  <1>1. /\ todo \in Seq(Index) /\ todo # <<>> /\ pending \in [Index -> Seq(Lines)]
        /\ chan \in Seq(Index \X Seq(Lines))
    BY DEF TypeInv, TypeOK, FlushBuffer
  <1> DEFINE h == Head(todo)
  <1>2. /\ pending' = [pending EXCEPT ![h] = <<>>]
        /\ todo' = Tail(todo)
        /\ chan' = IF pending[h] = <<>> THEN chan ELSE Append(chan, <<h, pending[h]>>)
        /\ pending[h] # <<>> => ~ ThreadOver
        /\ UNCHANGED <<lines, sender, thread, written, file, entries, status>>
    BY DEF FlushBuffer, lineVars, threadVars, outVars
  <1>3. h \in Index
    BY <1>1
  <1>4. status \in {"writing", "finishing"}
    BY <1>1 DEF EndInv, Phases
  <1>5. \A k \in Index : pending[k] = <<>> => pending'[k] = <<>>
    BY <1>1, <1>2
  <1>6. Phases'
    <2> HIDE DEF h
    <2>1. thread # "ended"
      BY <1>4 DEF EndInv, Phases
    <2> QED BY <1>2, <1>4, <2>1 DEF EndInv, Phases
  <1>7. Flushed'
    <2> SUFFICES ASSUME status = "finishing" PROVE Flushed'
      BY <1>2 DEF Flushed
    <2>1. PICK n \in 0..Count :
             /\ todo = [i \in 1..n |-> Count - n + i - 1]
             /\ \A k \in Index : k < Count - n => pending[k] = <<>>
      BY DEF EndInv, Flushed
    <2>2. n # 0
      <3>1. n = 0 => Len(todo) = 0
        BY <2>1
      <3> QED BY <1>1, <3>1
    <2>3. n \in Nat /\ n - 1 \in 0..Count /\ h = Count - n /\ Len(todo) = n
      BY <1>1, <2>1, <2>2
    <2>4. todo' = [i \in 1..(n - 1) |-> Count - (n - 1) + i - 1]
      <3>1. todo' = [i \in 1..(n - 1) |-> todo[i + 1]]
        <4>1. Tail(todo) \in Seq(Index) /\ Len(Tail(todo)) = n - 1
          BY <1>1, <2>3
        <4>2. /\ [i \in 1..(n - 1) |-> todo[i + 1]] \in Seq(Index)
              /\ Len([i \in 1..(n - 1) |-> todo[i + 1]]) = n - 1
          <5>1. \A i \in 1..(n - 1) : todo[i + 1] \in Index
            BY <1>1, <2>3
          <5>2. n - 1 \in Nat /\ [i \in 1..(n - 1) |-> todo[i + 1]] \in [1..(n - 1) -> Index]
            BY <2>3, <5>1
          <5> QED BY <5>2
        <4>3. \A i \in 1..(n - 1) : Tail(todo)[i] = [j \in 1..(n - 1) |-> todo[j + 1]][i]
          BY <1>1, <2>3
        <4> QED BY <1>2, <4>1, <4>2, <4>3, SeqEqual
      <3>2. \A i \in 1..(n - 1) : todo[i + 1] = Count - (n - 1) + i - 1
        BY <2>1, <2>3
      <3> QED BY <3>1, <3>2
    <2>5. ASSUME NEW k \in Index, k < Count - (n - 1) PROVE pending'[k] = <<>>
      <3>1. CASE k = h
        BY <1>1, <1>2, <3>1
      <3>2. CASE k # h
        <4>1. k < Count - n
          BY <2>3, <2>5, <3>2 DEF Index
        <4> QED BY <1>5, <2>1, <4>1
      <3> QED BY <3>1, <3>2
    <2> QED BY <1>2, <2>3, <2>4, <2>5 DEF Flushed
  <1> QED BY <1>6, <1>7 DEF EndInv

LEMMA CallerEnd ==
  TypeInv /\ EndInv /\ (FlushFails \/ Finish \/ CloseSender \/ Join \/ Commit
                        \/ PublishManifest \/ CommitFails) => EndInv'
  <1> SUFFICES ASSUME TypeInv, EndInv,
                      FlushFails \/ Finish \/ CloseSender \/ Join \/ Commit
                        \/ PublishManifest \/ CommitFails
               PROVE  EndInv'
    OBVIOUS
  <1> USE CoreAssumption
  <1>1. CASE FlushFails
    BY <1>1 DEF FlushFails, GiveUp, EndInv, Flushed, Phases, lineVars, threadVars
  <1>2. CASE Finish
    <2>1. Phases'
      BY <1>2 DEF Finish, EndInv, Phases, lineVars, threadVars
    <2>2. Flushed'
      <3>1. /\ Count \in 0..Count
            /\ todo' = [i \in 1..Count |-> Count - Count + i - 1]
            /\ \A k \in Index : ~ (k < Count - Count)
        <4>1. todo' = [i \in 1..Count |-> i - 1]
          BY <1>2 DEF Finish
        <4>2. \A i \in 1..Count : Count - Count + i - 1 = i - 1
          OBVIOUS
        <4>3. Count \in 0..Count /\ \A k \in Index : ~ (k < Count - Count)
          BY DEF Index
        <4> QED BY <4>1, <4>2, <4>3
      <3> QED BY <3>1 DEF Flushed
    <2> QED BY <2>1, <2>2 DEF EndInv
  <1>3. CASE CloseSender
    <2>1. \A k \in Index : pending[k] = <<>>
      <3>1. PICK n \in 0..Count :
               /\ todo = [i \in 1..n |-> Count - n + i - 1]
               /\ \A k \in Index : k < Count - n => pending[k] = <<>>
        BY <1>3 DEF CloseSender, EndInv, Flushed
      <3>2. Len(todo) = n /\ Len(todo) = 0
        BY <1>3, <3>1 DEF CloseSender
      <3> QED BY <3>1, <3>2 DEF Index
    <2> QED BY <1>3, <2>1 DEF CloseSender, EndInv, Flushed, Phases, lineVars, threadVars
  <1>4. CASE Join
    BY <1>4 DEF Join, ThreadOver, EndInv, Flushed, Phases, lineVars, sendVars, threadVars
  <1>5. CASE Commit
    <2>1. entries \in Seq(0..MaxLines)
      BY DEF TypeInv, TypeOK
    <2>2. /\ entries' = Append(entries, lines[Len(entries)]) /\ status = "committing"
          /\ UNCHANGED <<lines, pending, todo, sender, chan, thread, written, file, status>>
      BY <1>5 DEF Commit, lineVars, sendVars, threadVars
    <2>3. lines[Len(entries)] \in 0..MaxLines
      <3>1. Len(entries) \in Index
        BY <1>5, <2>1 DEF Commit, Index
      <3> QED BY <3>1 DEF TypeInv, TypeOK
    <2>4. /\ DOMAIN entries' = DOMAIN entries \cup {Len(entries) + 1}
          /\ entries'[Len(entries) + 1] = lines[Len(entries)]
          /\ \A i \in DOMAIN entries : entries'[i] = entries[i]
      BY <2>1, <2>2, <2>3, RangeOfAppend
    <2>5. (Len(entries) + 1) - 1 = Len(entries)
      BY <2>1
    <2>6. \A i \in DOMAIN entries' : entries'[i] = lines[i - 1]
      BY <2>4, <2>5 DEF EndInv, Phases
    <2> QED BY <2>2, <2>6 DEF EndInv, Flushed, Phases
  <1>6. CASE PublishManifest
    BY <1>6 DEF PublishManifest, EndInv, Flushed, Phases, lineVars, sendVars, threadVars
  <1>7. CASE CommitFails
    BY <1>7 DEF CommitFails, GiveUp, EndInv, Flushed, Phases, lineVars, threadVars
  <1> QED BY <1>1, <1>2, <1>3, <1>4, <1>5, <1>6, <1>7

LEMMA NextEnd == TypeInv /\ EndInv /\ [Next]_vars => EndInv'
  <1> SUFFICES ASSUME TypeInv, EndInv, [Next]_vars PROVE EndInv'
    OBVIOUS
  <1>1. CASE WriteLine
    <2>1. /\ status = "writing" /\ entries = <<>> /\ sender
          /\ UNCHANGED <<sender, chan, thread, written, file, entries, status>>
      BY <1>1 DEF WriteLine, EndInv, Phases, threadVars, outVars
    <2> QED BY <2>1 DEF EndInv, Flushed, Phases
  <1>2. CASE OpenFiles
    BY <1>2 DEF OpenFiles, EndInv, Flushed, Phases, lineVars, sendVars, outVars
  <1>3. CASE Receive
    BY <1>3 DEF Receive, EndInv, Flushed, Phases, lineVars, outVars
  <1>4. CASE FlushFiles
    BY <1>4 DEF FlushFiles, EndInv, Flushed, Phases, lineVars, sendVars, outVars
  <1>5. CASE ThreadFails
    BY <1>5 DEF ThreadFails, EndInv, Flushed, Phases, lineVars, outVars
  <1>6. CASE UNCHANGED vars
    BY <1>6 DEF vars, EndInv, Flushed, Phases, lineVars, sendVars, threadVars, outVars
  <1> QED BY <1>1, <1>2, <1>3, <1>4, <1>5, <1>6, FlushBufferEnd, CallerEnd DEF Next, Caller, Thread

(* Every chunk a finished writer has published holds exactly its lines, in    *)
(* order, and the manifest has an entry with its number of lines (finish,     *)
(* close_core_chunk_files).                                                   *)
PublishedWhole ==
  status = "complete" =>
    /\ Len(entries) = Count
    /\ \A k \in Index :
         /\ Range(file[k]) = Assigned(k)
         /\ Increasing(file[k])
         /\ entries[k + 1] = lines[k]

\* A writer that has ended well left nothing in the channel or in a buffer.
THEOREM PublishedAreWhole == Spec => []PublishedWhole
  <1>1. TypeInv /\ LinesFlow /\ EndInv => PublishedWhole
    <2>0. SUFFICES ASSUME TypeInv, LinesFlow, EndInv, status = "complete"
                   PROVE  /\ Len(entries) = Count
                          /\ \A k \in Index : /\ Range(file[k]) = Assigned(k)
                                              /\ Increasing(file[k])
                                              /\ entries[k + 1] = lines[k]
      BY DEF PublishedWhole
    <2>00. Len(entries) = Count
      BY <2>0 DEF EndInv, Phases
    <2> SUFFICES ASSUME NEW k \in Index
                 PROVE  Range(file[k]) = Assigned(k) /\ Increasing(file[k]) /\ entries[k + 1] = lines[k]
      BY <2>00
    <2>1. /\ Len(entries) = Count /\ file = written /\ chan = <<>> /\ pending[k] = <<>>
          /\ thread # "failed"
      BY <2>0 DEF EndInv, Phases
    <2>2. Kept(k) /\ InOrder(k)
      BY <2>0, <2>1 DEF LinesFlow
    <2>3. UnderWay(k) = {} /\ Range(<<>>) = {}
      BY <2>1 DEF UnderWay, Range
    <2>4. k + 1 \in DOMAIN entries /\ (k + 1) - 1 = k
      BY <2>1, CoreAssumption DEF Index, TypeInv, TypeOK
    <2>5. entries[k + 1] = lines[k]
      BY <2>0, <2>4 DEF EndInv, Phases
    <2>6. Range(file[k]) = Assigned(k)
      BY <2>1, <2>2, <2>3 DEF Kept
    <2>7. Increasing(file[k])
      BY <2>1, <2>2 DEF InOrder
    <2> QED BY <2>1, <2>5, <2>6, <2>7
  <1> QED BY <1>1, InitTypes, NextTypes, InitPosition, NextPosition, InitFlow, NextFlow,
             InitEnd, NextEnd, PTL DEF Spec

(* ----- what a loader may rely on ------------------------------------------ *)
LEMMA ChunkOfIsIndex ==
  ASSUME NEW i \in Nat \ {0}
  PROVE  ChunkOf(i) \in Index
  <1>1. Count \in Nat \ {0} /\ BlockLines \in Nat \ {0} /\ i - 1 \in Nat
    BY CoreAssumption
  <1>2. (i - 1) \div BlockLines \in Nat
    BY <1>1, SMT
  <1>3. \A q \in Nat : q % Count \in 0..(Count - 1)
    BY <1>1, SMT
  <1> QED BY <1>2, <1>3 DEF ChunkOf, Index

LEMMA InitOutput == Init => Output!OutputInit
  <1> SUFFICES ASSUME Init PROVE Output!OutputInit
    OBVIOUS
  <1>1. 1..total = {} /\ status = "writing"
    BY DEF Init
  <1> QED BY <1>1 DEF Output!OutputInit

\* Hidden and visible lines move only when a line is written or a chunk renamed.
LEMMA NextOutput ==
  TypeInv /\ EndInv /\ [Next]_vars => [Output!OutputNext]_Output!outputVars
  <1> SUFFICES ASSUME TypeInv, EndInv, [Next]_vars
               PROVE  [Output!OutputNext]_Output!outputVars
    OBVIOUS
  <1> DEFINE hidden == {i \in 1..total : ChunkOf(i) >= Len(entries)}
             shown == {i \in 1..total : ChunkOf(i) < Len(entries)}
             ended == IF status \in {"complete", "failed"} THEN status ELSE "writing"
  <1>1. /\ total \in Nat /\ entries \in Seq(0..MaxLines) /\ Len(entries) \in Nat
        /\ \A i \in Nat \ {0} : ChunkOf(i) \in 0..(Count - 1) /\ ChunkOf(i)' = ChunkOf(i)
    BY ChunkOfIsIndex, CoreAssumption DEF TypeInv, TypeOK, Index, ChunkOf
  <1>2. ASSUME UNCHANGED <<total, entries>> PROVE hidden' = hidden /\ shown' = shown
    BY <1>1, <1>2
  <1>3. ASSUME UNCHANGED <<total, entries, status>>
        PROVE  [Output!OutputNext]_Output!outputVars
    <2>1. hidden' = hidden /\ shown' = shown /\ ended' = ended
      BY <1>2, <1>3
    <2> QED BY <2>1 DEF Output!outputVars
  <1>4. ASSUME UNCHANGED <<total, entries>>, ended = "writing", ended' = "failed"
        PROVE  Output!Fail
    <2>1. hidden' = hidden /\ shown' = shown
      BY <1>2, <1>4
    <2> QED BY <1>4, <2>1 DEF Output!Fail
  <1>5. CASE WriteLine
    <2>1. total' = total + 1 /\ UNCHANGED <<entries, status>> /\ status = "writing"
      BY <1>5 DEF WriteLine, outVars
    <2>2. Len(entries) = 0
      BY <2>1 DEF EndInv, Phases
    <2>3. hidden \subseteq hidden' /\ shown' = shown /\ hidden' \cap shown' = {}
      <3>1. shown = {} /\ shown' = {} /\ hidden = 1..total /\ hidden' = 1..total'
        BY <1>1, <2>1, <2>2
      <3> QED BY <1>1, <2>1, <3>1
    <2>4. ended = "writing" /\ ended' = ended
      BY <2>1
    <2> HIDE DEF hidden, shown, ended
    <2>5. Output!Accept
      BY <2>3, <2>4 DEF Output!Accept, hidden, shown, ended
    <2> QED BY <2>5 DEF Output!OutputNext
  <1>6. CASE Commit
    <2>1. /\ total' = total /\ status' = status /\ status = "committing"
          /\ Len(entries') = Len(entries) + 1
      BY <1>1, <1>6 DEF Commit, lineVars
    <2>2. hidden' \subseteq hidden /\ shown' = shown \cup (hidden \ hidden')
      <3>1. \A i \in 1..total : i \in Nat \ {0} /\ ChunkOf(i) \in Nat /\ ChunkOf(i)' = ChunkOf(i)
        BY <1>1
      <3> QED BY <1>1, <2>1, <3>1
    <2>3. ended = "writing" /\ ended' = ended
      BY <2>1
    <2> HIDE DEF hidden, shown, ended
    <2>4. Output!Publish
      BY <2>2, <2>3 DEF Output!Publish, hidden, shown, ended
    <2> QED BY <2>4 DEF Output!OutputNext
  <1>7. CASE PublishManifest
    <2>1. /\ UNCHANGED <<total, entries>> /\ status = "committing" /\ status' = "complete"
          /\ Len(entries) = Count
      BY <1>7 DEF PublishManifest, lineVars
    <2>2. hidden = {} /\ hidden' = hidden /\ shown' = shown
      <3>1. \A i \in 1..total : i \in Nat \ {0} /\ ~ (ChunkOf(i) >= Count)
        BY <1>1, CoreAssumption
      <3> QED BY <1>2, <2>1, <3>1
    <2>3. ended = "writing" /\ ended' = "complete"
      BY <2>1
    <2> HIDE DEF hidden, shown, ended
    <2>4. Output!Complete
      BY <2>2, <2>3 DEF Output!Complete, hidden, shown, ended
    <2> QED BY <2>4 DEF Output!OutputNext
  <1>8. CASE FlushFails \/ CommitFails
    <2>1. UNCHANGED <<total, entries>> /\ ended = "writing" /\ ended' = "failed"
      BY <1>8 DEF FlushFails, CommitFails, GiveUp, EndInv, Phases, lineVars
    <2> QED BY <1>4, <2>1 DEF Output!OutputNext
  <1>9. CASE Join
    <2>1. CASE thread = "ended"
      <3>1. UNCHANGED <<total, entries>> /\ ended = "writing" /\ ended' = "writing"
        BY <1>9, <2>1 DEF Join, lineVars
      <3>2. hidden' = hidden /\ shown' = shown
        BY <1>2, <3>1
      <3> QED BY <3>1, <3>2 DEF Output!outputVars
    <2>2. CASE thread # "ended"
      <3>1. UNCHANGED <<total, entries>> /\ ended = "writing" /\ ended' = "failed"
        BY <1>9, <2>2 DEF Join, lineVars
      <3> QED BY <1>4, <3>1 DEF Output!OutputNext
    <2> QED BY <2>1, <2>2
  <1>10. CASE Finish \/ CloseSender
    <2>1. UNCHANGED <<total, entries>> /\ ended = "writing" /\ ended' = "writing"
      BY <1>10 DEF Finish, CloseSender, lineVars
    <2>2. hidden' = hidden /\ shown' = shown
      BY <1>2, <2>1
    <2> QED BY <2>1, <2>2 DEF Output!outputVars
  <1>11. CASE FlushBuffer \/ Thread \/ UNCHANGED vars
    <2>1. UNCHANGED <<total, entries, status>>
      BY <1>11 DEF FlushBuffer, Thread, OpenFiles, Receive, FlushFiles, ThreadFails, lineVars, outVars, vars
    <2> QED BY <1>3, <2>1
  <1> QED BY <1>5, <1>6, <1>7, <1>8, <1>9, <1>10, <1>11 DEF Next, Caller

(* To a loader the writer is a ChunkOutput: hidden items become visible by    *)
(* whole chunks, never change or disappear afterwards, and the manifest       *)
(* appears when all are visible, for any number and size of chunks.           *)
THEOREM CoresImplementOutput == Spec => ImplementsOutput
  BY InitOutput, NextOutput, InitTypes, NextTypes, InitEnd, NextEnd, PTL
     DEF Spec, ImplementsOutput, Output!OutputSpec

(* ----- the number of chunks (ChunkCount) ------------------------------- *)
(* What euclidean division means, for a divisor that is not zero.            *)
LEMMA Division ==
    ASSUME NEW a \in Nat, NEW b \in Nat \ {0}
    PROVE  /\ a \div b \in Nat
           /\ b * (a \div b) <= a
           /\ a < b * (a \div b) + b
    BY SMT

LEMMA DivCeilCovers ==
    ASSUME NEW a \in Nat, NEW b \in Nat \ {0}
    PROVE  DivCeil(a, b) \in Nat /\ a <= b * DivCeil(a, b)
    <1>1. a + b - 1 \in Nat
        BY SMT
    <1>2. a + b - 1 < b * DivCeil(a, b) + b /\ DivCeil(a, b) \in Nat
        BY <1>1, Division DEF DivCeil
    <1> QED BY <1>2, SMT

LEMMA Grows ==
    ASSUME NEW b \in Nat, NEW m \in Nat, NEW n \in Nat, m <= n
    PROVE  b * m <= b * n
    BY SMT

(* The bounds never cross, so clamp does not panic, and there is at least    *)
(* one chunk, whatever was asked for and however little there is to write.   *)
THEOREM BoundsNeverCross ==
    ASSUME NEW minCount \in Nat, NEW bytes \in Nat
    PROVE  /\ Floor(minCount, bytes) \in Nat \ {0}
           /\ Ceiling(minCount, bytes) \in Nat \ {0}
           /\ Floor(minCount, bytes) <= Ceiling(minCount, bytes)
    <1>1. DivCeil(bytes, MaxBytes) \in Nat
        BY DivCeilCovers, SizeAssumption
    <1>2. bytes \div MinBytes \in Nat
        BY Division, SizeAssumption
    <1> QED BY <1>1, <1>2 DEF Floor, Ceiling, Larger

(* A request is never answered with fewer chunks than the caller insists on  *)
(* nor with chunks that would have to be larger than the limit.              *)
THEOREM ChunksAreNotTooLarge ==
    ASSUME NEW requested \in Nat, NEW minCount \in Nat, NEW bytes \in Nat
    PROVE  LET n == EffectiveCount(requested, minCount, bytes) IN
           n \in Nat \ {0} /\ n >= minCount /\ bytes <= MaxBytes * n
    <1> DEFINE n == EffectiveCount(requested, minCount, bytes)
               lo == Floor(minCount, bytes)
    <1>1. DivCeil(bytes, MaxBytes) \in Nat /\ bytes <= MaxBytes * DivCeil(bytes, MaxBytes)
        BY DivCeilCovers, SizeAssumption
    <1>2. lo \in Nat \ {0} /\ lo <= Ceiling(minCount, bytes) /\ Ceiling(minCount, bytes) \in Nat
        BY BoundsNeverCross
    <1>3. n \in Nat \ {0} /\ n >= lo
        BY <1>2 DEF EffectiveCount, Larger
    <1>4. lo >= minCount /\ lo >= DivCeil(bytes, MaxBytes)
        BY <1>1 DEF Floor, Larger
    <1> HIDE DEF n, lo
    <1>5. MaxBytes * DivCeil(bytes, MaxBytes) <= MaxBytes * n
        <2>1. DivCeil(bytes, MaxBytes) <= n /\ n \in Nat
            BY <1>1, <1>2, <1>3, <1>4
        <2> QED BY <1>1, <2>1, SizeAssumption, Grows
    <1>6. MaxBytes * DivCeil(bytes, MaxBytes) \in Nat /\ MaxBytes * n \in Nat
        BY <1>1, <1>3, SizeAssumption
    <1>7. bytes <= MaxBytes * n
        BY <1>1, <1>5, <1>6
    <1>8. n >= minCount
        BY <1>2, <1>3, <1>4
    <1> QED BY <1>3, <1>7, <1>8 DEF n

(* More cores never cut the output into chunks below the minimum size: there *)
(* are more chunks than the minimum size allows only where the caller's own  *)
(* minimum or the maximum size asks for them, or there is a single one.      *)
THEOREM ChunksAreNotTooSmall ==
    ASSUME NEW requested \in Nat, NEW minCount \in Nat, NEW bytes \in Nat
    PROVE  LET n == EffectiveCount(requested, minCount, bytes) IN
           n > Floor(minCount, bytes) => MinBytes * n <= bytes
    <1> DEFINE n == EffectiveCount(requested, minCount, bytes)
               lo == Floor(minCount, bytes)
               hi == Ceiling(minCount, bytes)
               room == bytes \div MinBytes
    <1> SUFFICES ASSUME n > lo PROVE MinBytes * n <= bytes
        OBVIOUS
    <1>1. room \in Nat /\ MinBytes * room <= bytes
        BY Division, SizeAssumption
    <1>2. lo \in Nat \ {0} /\ lo <= hi /\ hi \in Nat
        BY BoundsNeverCross
    <1>3. n \in Nat /\ n <= hi
        BY <1>2 DEF EffectiveCount, Larger
    <1>4. hi = room
        BY <1>1, <1>2, <1>3 DEF Ceiling, Larger
    <1> HIDE DEF n, lo, hi, room
    <1>5. MinBytes * n <= MinBytes * room
        BY <1>1, <1>3, <1>4, SizeAssumption, Grows
    <1> QED BY <1>1, <1>3, <1>5, SizeAssumption
=============================================================================
