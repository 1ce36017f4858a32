--------------------------- MODULE CliRun_proofs ---------------------------
(***************************************************************************)
(* A successful run of the command line program is complete, and its       *)
(* manifests and index tell the truth, for any number of producers,        *)
(* batches, any size of the serializer's channel, and any failures.        *)
(***************************************************************************)
EXTENDS CliRun, TLAPS

USE DEF AllModes, Serialized, Collecting

Elems(s) == {s[i] : i \in 1..Len(s)}
Early == {"spawn1", "drain1", "spawn2", "drain2", "post"}

\* What producer p's drain thread took from its receiver, and what it holds.
Got(p) == {<<p, i>> : i \in 1..Len(received[p])}
Held(p) == IF drain[p] = "holding" THEN {hand[p]} ELSE {}
\* What the serializer thread was given.
Writing == IF ser = "writing" THEN {serHand} ELSE {}
Given == Elems(chan) \cup Writing \cup pending[0] \cup visible[0]

\* The end of a stream comes after its batches, its verdict and its error.
StreamInv ==
  \A p \in Producer :
    /\ Len(received[p]) <= produced[p]
    /\ \A i \in 1..Len(received[p]) : received[p][i] = i
    /\ stream[p] = "eof" =>
         /\ verdict[p] # "pending"
         /\ Len(received[p]) = produced[p]
         /\ verdict[p] = "err" => p \in errors

\* Where a drain thread is tells what its stream has given.
DrainInv ==
  \A p \in Producer :
    /\ drain[p] \in {"finish", "ok", "err"} <=> stream[p] = "eof"
    /\ drain[p] = "off" => received[p] = <<>>
    /\ drain[p] = "holding" => received[p] # <<>> /\ hand[p] = <<p, Len(received[p])>> /\ mode \notin Collecting
    /\ drain[p] \in {"finish", "err"} => mode = "partition"

\* `main` passes a phase when all its drains are over and none has failed.
PhaseInv ==
  /\ main = "spawn1" => \A p \in Producer : drain[p] = "off"
  /\ main \in {"drain1", "spawn2"} => \A p \in IfcOwl : drain[p] = "off"
  /\ main \in {"spawn2", "drain2"} => \A p \in Others : drain[p] = "ok"
  /\ main \notin {"spawn1", "drain1", "spawn2", "drain2"} => \A p \in Producer : drain[p] = "ok"
  /\ main \in {"index", "sidecars", "join", "finalize"} => errors = {}
  /\ exit = "ok" => main = "finalize"
  /\ exit = "err" =>
       /\ main \notin {"spawn1", "spawn2"}
       /\ main = "post" => mode \in Collecting
       /\ main = "route" => mode = "separate"
  /\ main = "finalize" => ser = "ok"

\* A partition has what its drain thread took, unless its writer has failed.
Partition(p) ==
  /\ status[p] # "failed" => Got(p) = pending[p] \cup visible[p] \cup Held(p)
  /\ status[p] = "failed" => drain[p] \in {"recv", "err"} /\ received[p] # <<>>
  /\ drain[p] = "finish" => received[p] # <<>>
  /\ status[p] = "complete" <=> drain[p] = "ok" /\ received[p] # <<>>
  /\ status[p] = "complete" => pending[p] = {}
PartitionInv ==
  /\ mode \in {"partition", "separate"} => status[0] = "writing" /\ ser \in {"recv", "ok"} /\ closed = {}
  /\ mode = "partition" => \A p \in Producer : Partition(p)
  /\ mode # "partition" => index = {0} /\ \A p \in Producer : status[p] = "writing"
  /\ main = "index" => mode = "partition"
  /\ index # {0} => main \in {"sidecars", "join", "finalize"}
  /\ mode = "partition" /\ main \in {"sidecars", "join", "finalize"} =>
       index = {p \in Producer : status[p] = "complete"}

\* A graph is unsent or in its file, and never in parts of both.
Unsent(g) == {b \in unsent : b[1] = g}
GraphInv ==
  mode = "separate" =>
    /\ main \in Early => unsent = {} /\ \A p \in Producer : visible[p] = {}
    /\ main \notin Early /\ exit # "err" => \A p \in Producer :
         /\ Got(p) = visible[p] \cup Unsent(p)
         /\ visible[p] = {} \/ Unsent(p) = {}

\* Derived files are delivered when every producer is over.
SidecarInv ==
  /\ main \in {"join", "finalize"} => delivered = Sent
  /\ delivered # {} => main \in {"sidecars", "join", "finalize"}

\* The serializer finishes when nobody can send any more.
SerializerInv ==
  mode \in Serialized =>
    /\ ser \in {"finish", "ok"} =>
         /\ chan = <<>>
         /\ ~MainHoldsSender
         /\ \A p \in Producer : ~DrainHoldsSender(p)
    /\ status[0] \in {"complete", "written", "cut"} <=> ser = "ok"
    /\ status[0] = "complete" <=> ser = "ok" /\ mode # "joined"
    /\ status[0] \in {"complete", "written"} => pending[0] = {}
    /\ closed # {} => ser = "err"
    /\ exit = "err" /\ main \in {"drain1", "drain2"} => ser = "err"

\* Until the serializer fails nothing is lost on the way to it, and nothing
\* else gets there.
FlowInv ==
  /\ mode \notin Collecting => unsent = {}
  /\ main \in {"check", "index", "sidecars", "join", "finalize"} => unsent = {}
  /\ mode \in {"collect", "joined"} /\ main \in Early => unsent = {} /\ Given = {}
  /\ mode = "stream" /\ ser # "err" => \A p \in Producer : Got(p) \subseteq Held(p) \cup Given
  /\ mode \in {"collect", "joined"} /\ ser # "err" /\ main \notin Early => \A p \in Producer : Got(p) \subseteq unsent \cup Given
  /\ mode \in Serialized => \A b \in unsent \cup Given : b = <<0, 1>> \/ \E p \in Producer : b \in Got(p)

RunInv ==
  /\ TypeOK
  /\ StreamInv /\ DrainInv /\ PhaseInv /\ PartitionInv /\ GraphInv /\ SidecarInv
  /\ SerializerInv /\ FlowInv
-----------------------------------------------------------------------------
(* The serializer's writer is none of the producers'.                        *)
LEMMA ZeroIsNoProducer == 0 \notin Producer
  BY DEF Producer

(* There are four ways for batches to travel.                                 *)
LEMMA KnownMode ==
  ASSUME TypeOK
  PROVE  mode \in AllModes
  BY RunAssumption DEF TypeOK, ThreadType

(* A sequence with one more element is not empty.                             *)
LEMMA AppendIsLonger ==
  ASSUME NEW s \in Seq(Nat), NEW x \in Nat
  PROVE  Append(s, x) # <<>> /\ Len(Append(s, x)) = Len(s) + 1 /\ Len(s) \in Nat
<1>1. Len(Append(s, x)) = Len(s) + 1 /\ Len(s) \in Nat
  OBVIOUS
<1>2. Len(<<>>) = 0
  OBVIOUS
<1> QED
  BY <1>1, <1>2

(* Only the empty sequence has no length.                                    *)
LEMMA EmptyHasNoLength ==
  ASSUME NEW s \in Seq(Nat)
  PROVE  s # <<>> <=> Len(s) > 0
  OBVIOUS

(* What is sent to a channel is one more of its elements.                    *)
LEMMA ElemsAppend ==
  ASSUME NEW S, NEW s \in Seq(S), NEW x \in S
  PROVE  Elems(Append(s, x)) = Elems(s) \cup {x}
<1>1. /\ Len(Append(s, x)) = Len(s) + 1
      /\ Append(s, x)[Len(s) + 1] = x
      /\ \A i \in 1..Len(s) : Append(s, x)[i] = s[i]
      /\ Len(s) \in Nat
  OBVIOUS
<1>2. Elems(Append(s, x)) \subseteq Elems(s) \cup {x}
  BY <1>1 DEF Elems
<1>3. Elems(s) \cup {x} \subseteq Elems(Append(s, x))
  BY <1>1 DEF Elems
<1> QED
  BY <1>2, <1>3

(* The elements of a channel are its first one and the rest.                 *)
LEMMA ElemsTail ==
  ASSUME NEW S, NEW s \in Seq(S), s # <<>>
  PROVE  Elems(s) = {Head(s)} \cup Elems(Tail(s))
<1>1. /\ Len(s) \in Nat \ {0}
      /\ Len(Tail(s)) = Len(s) - 1
      /\ Head(s) = s[1]
      /\ \A i \in 1..(Len(s) - 1) : Tail(s)[i] = s[i + 1]
  OBVIOUS
<1>2. \A i \in 1..Len(s) : i = 1 \/ (i - 1 \in 1..(Len(s) - 1) /\ i = (i - 1) + 1)
  BY <1>1
<1>3. Elems(s) \subseteq {Head(s)} \cup Elems(Tail(s))
  BY <1>1, <1>2 DEF Elems
<1>4. {Head(s)} \cup Elems(Tail(s)) \subseteq Elems(s)
  BY <1>1 DEF Elems
<1> QED
  BY <1>3, <1>4

(* A closed channel has no elements.                                         *)
LEMMA ElemsEmpty == Elems(<<>>) = {}
  BY DEF Elems

(* Every value stays in its type.                                            *)
LEMMA TypeStep ==
  ASSUME TypeOK, [Next]_vars
  PROVE  TypeOK'
<1> USE DEF TypeOK, Places, At, Goto, ReturnErr
<1> USE DEF streamVars, mainVars, drainVars, serVars, outVars, runVars
<1>1. CASE MainSpawn
  BY <1>1 DEF MainSpawn, StreamType, ThreadType, OutType
<1>2. CASE MainJoinsDrains
  BY <1>2 DEF MainJoinsDrains, AfterDrains, StreamType, ThreadType, OutType
<1>3. CASE MainPostprocess
  <2>1. Collected \subseteq Batch /\ <<0, 1>> \in Batch
    BY DEF Collected, Batch, StreamType
  <2> QED
    BY <1>3, <2>1 DEF MainPostprocess, StreamType, ThreadType, OutType
<1>4. CASE MainRoute
  <2>1. CASE unsent = {} /\ Goto("check") /\ UNCHANGED <<chan, unsent>>
    BY <1>4, <2>1 DEF MainRoute, MainWritesGraph, StreamType, ThreadType, OutType
  <2>2. ASSUME NEW b \in unsent, unsent' = unsent \ {b},
               IF ReceiverAlive THEN chan' = Append(chan, b) ELSE UNCHANGED chan,
               UNCHANGED mainVars
        PROVE  TypeOK'
    <3>1. chan' \in Seq(Batch) /\ unsent' \subseteq Batch
      BY SMTT(20), <2>2 DEF ThreadType
    <3> QED
      BY <1>4, <2>2, <3>1 DEF MainRoute, MainWritesGraph, StreamType, ThreadType, OutType
  <2> QED
    BY <1>4, <2>1, <2>2 DEF MainRoute
<1>5. CASE MainChecksErrors \/ MainPublishesIndex \/ MainDeliversSidecars \/ MainJoinsSerializer \/ MainFinalizes
  <2>1. UNCHANGED <<streamVars, drainVars, serVars, unsent, outVars, mode, alive>>
    BY <1>5 DEF MainChecksErrors, MainPublishesIndex, MainDeliversSidecars, MainJoinsSerializer, MainFinalizes
  <2>2. main' \in Places /\ exit' \in {"none", "ok", "err"}
    BY <1>5 DEF MainChecksErrors, MainPublishesIndex, MainDeliversSidecars, MainJoinsSerializer, MainFinalizes,
        ThreadType
  <2>3. index' \subseteq Writer /\ delivered' \subseteq Sidecar
    BY <1>5 DEF MainChecksErrors, MainPublishesIndex, MainDeliversSidecars, MainJoinsSerializer, MainFinalizes,
        OutType, Writer, Sent
  <2> QED
    BY <2>1, <2>2, <2>3 DEF StreamType, ThreadType, OutType
<1>18. CASE MainWritesGraph
  <2>1. /\ UNCHANGED <<streamVars, drainVars, serVars, pending, status, index, delivered, mode, alive, main>>
        /\ exit' \in {exit, "err"}
        /\ unsent' \subseteq unsent
    BY <1>18 DEF MainWritesGraph
  <2>2. \E g \in Writer : \E part \in SUBSET Batch : visible' = [visible EXCEPT ![g] = part]
    <3>1. PICK g \in Writer :
            \/ visible' = [visible EXCEPT ![g] = {b \in unsent : b[1] = g}]
            \/ \E part \in SUBSET {b \in unsent : b[1] = g} : visible' = [visible EXCEPT ![g] = part]
      BY <1>18 DEF MainWritesGraph
    <3>2. {b \in unsent : b[1] = g} \in SUBSET Batch
      BY DEF ThreadType
    <3> QED
      BY <3>1, <3>2
  <2> QED
    BY <2>1, <2>2 DEF StreamType, ThreadType, OutType
<1>6. ASSUME NEW w \in Writer, NEW b \in Batch, WriteBatch(w, b), UNCHANGED <<index, delivered>> PROVE OutType'
  BY <1>6 DEF WriteBatch, OutType
<1>17. ASSUME NEW w \in Writer, WriterFails(w) \/ PublishRest(w) \/ PublishManifest(w) \/ DropBuffer(w), UNCHANGED <<index, delivered>> PROVE OutType'
  BY <1>17 DEF WriterFails, Lands, PublishRest, PublishManifest, DropBuffer, OutType
<1>7. CASE SerNothingToDo \/ SerEof
  BY <1>7 DEF SerNothingToDo, SerEof, StreamType, ThreadType, OutType
<1>8. CASE SerTake
  <2>1. Tail(chan) \in Seq(Batch) /\ Head(chan) \in Batch
    BY <1>8 DEF SerTake, ThreadType
  <2> QED
    BY <1>8, <2>1 DEF SerTake, StreamType, ThreadType, OutType
<1>9. CASE SerWrite
  <2>1. OutType'
    BY <1>6, <1>9, <1>17 DEF SerWrite, ThreadType, Writer
  <2>2. chan' \in Seq(Batch)
    <3>1. chan' = chan \/ chan' = <<>>
      BY <1>9 DEF SerWrite
    <3>2. <<>> \in Seq(Batch)
      OBVIOUS
    <3> QED
      BY <3>1, <3>2 DEF ThreadType
  <2> QED
    BY <1>9, <2>1, <2>2 DEF SerWrite, StreamType, ThreadType
<1>10. CASE SerFinish
  <2>1. OutType'
    BY <1>10, <1>17 DEF SerFinish, Writer
  <2> QED
    BY <1>10, <2>1 DEF SerFinish, StreamType, ThreadType
<1>11. CASE ProcessExits \/ UNCHANGED vars
  BY ZenonT(30), <1>11 DEF ProcessExits, vars, StreamType, ThreadType, OutType
<1>12. ASSUME NEW p \in Producer, ProducerStep(p) PROVE TypeOK'
  <2>1. StreamType'
    <3>1. Emit(p) \/ Return(p) \/ Record(p)
      BY <1>12 DEF ProducerStep
    <3>2. Emit(p) => StreamType'
      BY DEF Emit, StreamType
    <3>3. Return(p) => StreamType'
      BY DEF Return, StreamType, Verdicts
    <3>4. Record(p) => StreamType'
      BY DEF Record, StreamType
    <3> QED
      BY <3>1, <3>2, <3>3, <3>4
  <2>2. UNCHANGED runVars
    BY <1>12 DEF ProducerStep
  <2> QED
    BY <2>1, <2>2 DEF ThreadType, OutType
<1>13. ASSUME NEW p \in Producer, DrainTake(p) PROVE TypeOK'
  <2>1. received' \in [Producer -> Seq(Nat)] /\ Len(received[p]) + 1 \in Nat
    BY <1>13 DEF DrainTake, Deliver, StreamType
  <2>2. <<p, Len(received[p]) + 1>> \in Batch
    BY <2>1 DEF Batch
  <2> QED
    <3>1. StreamType' /\ OutType'
      BY <1>13, <2>1 DEF DrainTake, Deliver, StreamType, OutType
    <3>2. UNCHANGED <<mode, main, exit, alive, closed, chan, ser, serHand, unsent>>
      BY <1>13 DEF DrainTake
    <3>3. \/ UNCHANGED <<drain, hand>>
          \/ drain' = [drain EXCEPT ![p] = "holding"] /\ hand' = [hand EXCEPT ![p] = <<p, Len(received[p]) + 1>>]
      BY <1>13 DEF DrainTake
    <3> QED
      BY SMTT(20), <2>2, <3>1, <3>2, <3>3 DEF ThreadType
<1>14. ASSUME NEW p \in Producer, DrainForward(p) PROVE TypeOK'
  <2>1. hand[p] \in Batch => chan' \in Seq(Batch)
    BY <1>14 DEF DrainForward, ThreadType
  <2> QED
    BY <1>14, <2>1 DEF DrainForward, StreamType, ThreadType, OutType
<1>15. ASSUME NEW p \in Producer, DrainClosed(p) \/ DrainEnds(p) PROVE TypeOK'
  <2>1. StreamType' /\ OutType'
    BY <1>15 DEF DrainClosed, DrainEnds, EndOfStream, StreamType, OutType
  <2>2. closed' \subseteq Producer /\ UNCHANGED <<mode, main, exit, alive, chan, ser, serHand, unsent>>
    BY <1>15 DEF DrainClosed, DrainEnds, ThreadType
  <2>3. \/ hand' = [hand EXCEPT ![p] = None] /\ drain' = [drain EXCEPT ![p] = "recv"]
        \/ hand' = hand /\ \E d \in {"ok", "err", "finish"} : drain' = [drain EXCEPT ![p] = d]
    BY <1>15 DEF DrainClosed, DrainEnds
  <2> QED
    BY <2>1, <2>2, <2>3 DEF ThreadType
<1>16. ASSUME NEW p \in Producer, DrainWrite(p) \/ DrainFinish(p) PROVE TypeOK'
  <2>1. OutType'
    BY <1>6, <1>16, <1>17 DEF DrainWrite, DrainFinish, Writer, ThreadType
  <2> QED
    <3>1. StreamType'
      BY <1>16 DEF DrainWrite, DrainFinish, StreamType
    <3>2. UNCHANGED <<mode, main, exit, alive, closed, chan, ser, serHand, unsent>>
      BY <1>16 DEF DrainWrite, DrainFinish
    <3>3. \/ hand' = [hand EXCEPT ![p] = None] /\ drain' = [drain EXCEPT ![p] = "recv"]
          \/ hand' = hand /\ drain' = drain
          \/ hand' = hand /\ \E d \in {"ok", "err"} : drain' = [drain EXCEPT ![p] = d]
      BY <1>16 DEF DrainWrite, DrainFinish
    <3> QED
      BY <2>1, <3>1, <3>2, <3>3 DEF ThreadType
<1> QED
  BY <1>1, <1>2, <1>3, <1>4, <1>5, <1>7, <1>8, <1>9, <1>10, <1>11, <1>12, <1>13, <1>14, <1>15, <1>16, <1>18
  DEF Next, MainThread, SerThread, DrainThread
-----------------------------------------------------------------------------
(* Which steps touch which group of variables.                               *)
LEMMA StreamMoves ==
  ASSUME [Next]_vars
  PROVE  \/ UNCHANGED streamVars
         \/ \E p \in Producer : (Emit(p) \/ Return(p) \/ Record(p)) /\ UNCHANGED runVars
         \/ \E p \in Producer : DrainTake(p) /\ Deliver(p)
         \/ \E p \in Producer : DrainEnds(p) /\ EndOfStream(p)
<1>1. CASE MainThread
  BY <1>1 DEF MainThread, MainSpawn, MainJoinsDrains, MainPostprocess, MainRoute, MainWritesGraph, MainChecksErrors,
      MainPublishesIndex, MainDeliversSidecars, MainJoinsSerializer, MainFinalizes
<1>2. CASE SerThread
  BY <1>2 DEF SerThread, SerNothingToDo, SerTake, SerWrite, SerEof, SerFinish
<1>3. CASE ProcessExits \/ UNCHANGED vars
  BY <1>3 DEF ProcessExits, vars
<1>4. ASSUME NEW p \in Producer, ProducerStep(p)
      PROVE  (Emit(p) \/ Return(p) \/ Record(p)) /\ UNCHANGED runVars
  BY <1>4 DEF ProducerStep
<1>5. ASSUME NEW p \in Producer, DrainThread(p)
      PROVE  UNCHANGED streamVars \/ (DrainTake(p) /\ Deliver(p)) \/ (DrainEnds(p) /\ EndOfStream(p))
  BY <1>5 DEF DrainThread, DrainTake, DrainForward, DrainClosed, DrainWrite, DrainEnds, DrainFinish
<1> QED
  BY <1>1, <1>2, <1>3, <1>4, <1>5 DEF Next

(* Batches arrive in order, and the end of a stream after all of them.       *)
LEMMA StreamStep ==
  ASSUME TypeOK, StreamInv, DrainInv, [Next]_vars
  PROVE  StreamInv'
<1> USE DEF TypeOK, StreamType
<1>1. CASE UNCHANGED streamVars
  BY <1>1 DEF streamVars, StreamInv
<1>2. ASSUME NEW p \in Producer, Emit(p) PROVE StreamInv'
  BY <1>2 DEF Emit, StreamInv
<1>3. ASSUME NEW p \in Producer, Return(p) PROVE StreamInv'
  BY <1>3 DEF Return, StreamInv
<1>4. ASSUME NEW p \in Producer, Record(p) PROVE StreamInv'
  BY <1>4 DEF Record, StreamInv
<1>5. ASSUME NEW p \in Producer, Deliver(p) PROVE StreamInv'
  <2>1. /\ received' = [received EXCEPT ![p] = Append(received[p], Len(received[p]) + 1)]
        /\ Len(received[p]) < produced[p]
        /\ stream[p] = "open"
        /\ UNCHANGED <<produced, verdict, errors, stream>>
    BY <1>5 DEF Deliver
  <2>2. /\ Len(received'[p]) = Len(received[p]) + 1
        /\ received'[p][Len(received[p]) + 1] = Len(received[p]) + 1
        /\ \A i \in 1..Len(received[p]) : received'[p][i] = received[p][i]
        /\ Len(received[p]) \in Nat
    BY <2>1
  <2> QED
    BY <2>1, <2>2 DEF StreamInv
<1>6. ASSUME NEW p \in Producer, EndOfStream(p) PROVE StreamInv'
  BY <1>6 DEF EndOfStream, StreamInv
<1> QED
  BY <1>1, <1>2, <1>3, <1>4, <1>5, <1>6, StreamMoves

(* The serializer thread and the end of the process leave the drains alone,  *)
(* and so does `main` but for the two times it spawns them.                  *)
LEMMA DrainMoves ==
  ASSUME [Next]_vars
  PROVE  \/ UNCHANGED drainVars /\ UNCHANGED mode /\ (UNCHANGED streamVars \/ \E p \in Producer : Emit(p) \/ Return(p) \/ Record(p))
         \/ MainSpawn
         \/ \E p \in Producer : DrainThread(p)
<1> USE DEF mainVars, drainVars, runVars, vars
<1>1. CASE MainThread
  BY <1>1 DEF MainThread, MainJoinsDrains, AfterDrains, MainPostprocess, MainRoute, MainWritesGraph, MainChecksErrors,
      MainPublishesIndex, MainDeliversSidecars, MainJoinsSerializer, MainFinalizes, Goto, ReturnErr
<1>2. CASE SerThread
  BY <1>2 DEF SerThread, SerNothingToDo, SerTake, SerWrite, SerEof, SerFinish
<1>3. CASE ProcessExits \/ UNCHANGED vars
  BY <1>3 DEF ProcessExits
<1>4. ASSUME NEW p \in Producer, ProducerStep(p)
      PROVE  UNCHANGED drainVars /\ UNCHANGED mode /\ (Emit(p) \/ Return(p) \/ Record(p))
  BY <1>4 DEF ProducerStep
<1> QED
  BY <1>1, <1>2, <1>3, <1>4 DEF Next

(* Where a drain thread is goes with what its stream has given.              *)
LEMMA DrainStep ==
  ASSUME TypeOK, StreamInv, DrainInv, PhaseInv, PartitionInv, SerializerInv, [Next]_vars
  PROVE  DrainInv'
<1> USE DEF TypeOK, StreamType, ThreadType
<1>1. CASE UNCHANGED drainVars /\ UNCHANGED mode /\ UNCHANGED streamVars
  BY <1>1 DEF drainVars, streamVars, DrainInv
<1>2. ASSUME NEW p \in Producer, UNCHANGED drainVars, UNCHANGED mode, Emit(p) \/ Return(p) \/ Record(p) PROVE DrainInv'
  BY <1>2 DEF drainVars, DrainInv, Emit, Return, Record
<1>3. CASE MainSpawn
  BY <1>3, RunAssumption DEF MainSpawn, DrainInv, PhaseInv, streamVars, At, Goto, Others
<1>4. ASSUME NEW p \in Producer, DrainTake(p) PROVE DrainInv'
  <2>1. /\ received' = [received EXCEPT ![p] = Append(received[p], Len(received[p]) + 1)]
        /\ drain[p] = "recv" /\ stream' = stream /\ mode' = mode
        /\ \/ UNCHANGED <<drain, hand>>
           \/ /\ mode \notin Collecting
              /\ drain' = [drain EXCEPT ![p] = "holding"]
              /\ hand' = [hand EXCEPT ![p] = <<p, Len(received[p]) + 1>>]
    BY <1>4 DEF DrainTake, Deliver, mainVars
  <2>2. received'[p] # <<>> /\ Len(received'[p]) = Len(received[p]) + 1
    <3>1. received[p] \in Seq(Nat) /\ Len(received[p]) + 1 \in Nat
      OBVIOUS
    <3>2. received'[p] = Append(received[p], Len(received[p]) + 1)
      BY <2>1
    <3> QED
      BY <3>1, <3>2, AppendIsLonger
  <2> QED
    BY SMTT(20), <2>1, <2>2 DEF DrainInv
<1>5. ASSUME NEW p \in Producer, DrainForward(p) \/ DrainClosed(p) \/ DrainWrite(p) PROVE DrainInv'
  <2>1. drain[p] = "holding" /\ drain' = [drain EXCEPT ![p] = "recv"] /\ hand' = [hand EXCEPT ![p] = None]
        /\ UNCHANGED <<mode, received, stream>>
    BY <1>5 DEF DrainForward, DrainClosed, DrainWrite, mainVars, streamVars
  <2> QED
    BY <2>1 DEF DrainInv
<1>6. ASSUME NEW p \in Producer, DrainEnds(p) PROVE DrainInv'
  BY <1>6 DEF DrainEnds, EndOfStream, DrainInv, mainVars
<1>7. ASSUME NEW p \in Producer, DrainFinish(p) PROVE DrainInv'
  <2>1. drain[p] = "finish" /\ (drain' = drain \/ \E d \in {"ok", "err"} : drain' = [drain EXCEPT ![p] = d])
        /\ UNCHANGED <<mode, hand, received, stream>>
    BY <1>7 DEF DrainFinish, mainVars, streamVars
  <2> QED
    BY <2>1 DEF DrainInv
<1> QED
  BY <1>1, <1>2, <1>3, <1>4, <1>5, <1>6, <1>7, DrainMoves DEF DrainThread

(* A drain that is over stays so.                                            *)
LEMMA OkStays ==
  ASSUME TypeOK, DrainInv, PhaseInv, [Next]_vars, NEW p \in Producer, drain[p] = "ok"
  PROVE  drain'[p] = "ok"
<1> USE DEF TypeOK, ThreadType
<1>1. CASE UNCHANGED drainVars
  BY <1>1 DEF drainVars
<1>2. CASE MainSpawn
  BY <1>2, RunAssumption DEF MainSpawn, PhaseInv, At, Others
<1>3. ASSUME NEW q \in Producer, DrainThread(q) PROVE drain'[p] = "ok"
  BY <1>3 DEF DrainThread, DrainTake, DrainForward, DrainClosed, DrainWrite, DrainEnds, DrainFinish
<1> QED
  BY <1>1, <1>2, <1>3, DrainMoves

(* Once all drains are over no error is recorded any more.                   *)
LEMMA NoLateErrors ==
  ASSUME TypeOK, DrainInv, PhaseInv, [Next]_vars, \A p \in Producer : drain[p] = "ok", errors = {}
  PROVE  errors' = {}
<1>1. \A p \in Producer : stream[p] = "eof"
  BY DEF DrainInv
<1>2. ASSUME NEW p \in Producer, Emit(p) \/ Return(p) \/ Record(p) \/ Deliver(p) \/ EndOfStream(p) PROVE errors' = {}
  BY <1>1, <1>2 DEF Emit, Return, Record, Deliver, EndOfStream
<1> QED
  BY <1>2, StreamMoves DEF streamVars

(* `main` passes no phase before its drains are over.                        *)
LEMMA PhaseStep ==
  ASSUME TypeOK, DrainInv, PhaseInv, [Next]_vars
  PROVE  PhaseInv'
<1> USE DEF At, Goto, ReturnErr
<1>1. CASE MainThread
  <2>1. CASE MainSpawn
    BY <1>1, <2>1, RunAssumption DEF MainSpawn, PhaseInv, Others, serVars, TypeOK, ThreadType
  <2>2. CASE MainJoinsDrains
    <3>1. UNCHANGED <<drain, errors, ser, mode>>
      BY <2>2 DEF MainJoinsDrains, AfterDrains, drainVars, streamVars, serVars
    <3>2. \/ exit = "none" /\ main = "drain1" /\ main' = "spawn2" /\ exit' = exit /\ \A p \in Others : drain[p] = "ok"
          \/ exit = "none" /\ main = "drain2" /\ main' = "post" /\ exit' = exit /\ \A p \in IfcOwl : drain[p] = "ok"
          \/ main \in {"drain1", "drain2"} /\ main' = main /\ exit' = "err"
      BY <2>2 DEF MainJoinsDrains, AfterDrains
    <3> QED
      BY <3>1, <3>2 DEF PhaseInv, Others
  <2>3. CASE MainPostprocess \/ MainRoute \/ MainWritesGraph \/ MainChecksErrors \/ MainPublishesIndex \/ MainDeliversSidecars \/ MainJoinsSerializer \/ MainFinalizes
    <3>1. UNCHANGED <<drain, errors, ser, mode>>
      BY <2>3 DEF MainPostprocess, MainRoute, MainWritesGraph, MainChecksErrors, MainPublishesIndex,
          MainDeliversSidecars, MainJoinsSerializer,
          MainFinalizes, mainVars, drainVars, streamVars, serVars
    <3>2. \/ main' = main /\ exit' = exit
          \/ exit = "none" /\ main = "post" /\ main' = "route" /\ exit' = exit
          \/ mode \in Collecting /\ main = "post" /\ main' = main /\ exit' = "err"
          \/ exit = "none" /\ main = "route" /\ main' = "check" /\ exit' = exit
          \/ main \in {"check", "index", "sidecars", "join"} /\ main' = main /\ exit' = "err"
          \/ mode = "separate" /\ main = "route" /\ main' = main /\ exit' = "err"
          \/ exit = "none" /\ main = "check" /\ main' \in {"index", "sidecars"} /\ exit' = exit /\ errors = {}
          \/ exit = "none" /\ main = "index" /\ main' = "sidecars" /\ exit' = exit
          \/ exit = "none" /\ main = "sidecars" /\ main' = "join" /\ exit' = exit
          \/ exit = "none" /\ main = "join" /\ main' = "finalize" /\ exit' = exit /\ ser = "ok"
          \/ main = "finalize" /\ main' = main /\ exit' \in {"ok", "err"}
      BY <2>3 DEF MainPostprocess, MainRoute, MainWritesGraph, MainChecksErrors, MainPublishesIndex,
          MainDeliversSidecars, MainJoinsSerializer,
          MainFinalizes, mainVars
    <3> QED
      BY <3>1, <3>2 DEF PhaseInv
  <2> QED
    BY <1>1, <2>1, <2>2, <2>3 DEF MainThread
<1>2. CASE UNCHANGED <<main, exit, mode>> /\ ~MainSpawn
  <2>1. ser = "ok" => ser' = "ok"
    <3>1. SerThread \/ UNCHANGED ser
      <4>1. ASSUME NEW p \in Producer, DrainThread(p) PROVE UNCHANGED ser
        BY <4>1 DEF DrainThread, DrainTake, DrainForward, DrainClosed, DrainWrite, DrainEnds, DrainFinish, serVars
      <4>2. CASE MainThread
        BY <4>2 DEF MainThread, MainSpawn, MainJoinsDrains, MainPostprocess, MainRoute, MainWritesGraph,
            MainChecksErrors,
            MainPublishesIndex, MainDeliversSidecars, MainJoinsSerializer, MainFinalizes, serVars
      <4> QED
        BY <4>1, <4>2 DEF Next, vars, runVars, ProducerStep, ProcessExits, serVars
    <3> QED
      BY <3>1 DEF SerThread, SerNothingToDo, SerTake, SerWrite, SerEof, SerFinish
  <2>2. \A p \in Producer : drain[p] = "ok" => drain'[p] = "ok"
    BY OkStays
  <2>3. \A p \in Producer : drain[p] = "off" => drain'[p] = "off"
    <3>1. ASSUME NEW q \in Producer, DrainThread(q), NEW p \in Producer, drain[p] = "off" PROVE drain'[p] = "off"
      BY <3>1 DEF TypeOK, ThreadType, DrainThread, DrainTake, DrainForward, DrainClosed, DrainWrite, DrainEnds,
          DrainFinish
    <3> QED
      BY <1>2, <3>1, DrainMoves DEF drainVars
  <2>4. main \in {"index", "sidecars", "join", "finalize"} => errors' = {}
    BY NoLateErrors DEF PhaseInv
  <2> QED
    BY <1>2, <2>1, <2>2, <2>3, <2>4, RunAssumption DEF PhaseInv, Others
<1>3. MainThread \/ UNCHANGED <<main, exit, mode>>
  <2>1. ASSUME NEW p \in Producer, DrainThread(p) PROVE UNCHANGED <<main, exit, mode>>
    BY <2>1 DEF DrainThread, DrainTake, DrainForward, DrainClosed, DrainWrite, DrainEnds, DrainFinish, mainVars
  <2>2. CASE SerThread
    BY <2>2 DEF SerThread, SerNothingToDo, SerTake, SerWrite, SerEof, SerFinish, mainVars
  <2> QED
    BY <2>1, <2>2 DEF Next, vars, runVars, ProducerStep, ProcessExits
<1> QED
  BY <1>1, <1>2, <1>3 DEF MainThread
-----------------------------------------------------------------------------
(* A batch that is taken is the next one of its producer.                    *)
LEMMA GotGrows ==
  ASSUME StreamType, NEW p \in Producer, Deliver(p)
  PROVE  /\ Got(p)' = Got(p) \cup {<<p, Len(received[p]) + 1>>}
         /\ received'[p] # <<>>
         /\ \A q \in Producer : q # p => Got(q)' = Got(q) /\ received'[q] = received[q]
<1>1. received' = [received EXCEPT ![p] = Append(received[p], Len(received[p]) + 1)]
  BY DEF Deliver
<1>2. received[p] \in Seq(Nat) /\ Len(received[p]) \in Nat
  BY DEF StreamType
<1>3. received'[p] # <<>> /\ Len(received'[p]) = Len(received[p]) + 1
  <2>1. received'[p] = Append(received[p], Len(received[p]) + 1)
    BY <1>1 DEF StreamType
  <2> QED
    BY <1>2, <2>1, AppendIsLonger
<1>4. \A q \in Producer : q # p => received'[q] = received[q]
  BY <1>1 DEF StreamType
<1>5. ASSUME NEW n \in Nat PROVE {<<p, i>> : i \in 1..(n + 1)} = {<<p, i>> : i \in 1..n} \cup {<<p, n + 1>>}
  OBVIOUS
<1>6. Got(p)' = Got(p) \cup {<<p, Len(received[p]) + 1>>}
  BY <1>2, <1>3, <1>5 DEF Got
<1> QED
  BY <1>3, <1>4, <1>6 DEF Got

(* The steps of a drain thread keep its own partition.                       *)
LEMMA OwnPartition ==
  ASSUME TypeOK, DrainInv, PartitionInv, mode = "partition", NEW p \in Producer, DrainThread(p)
  PROVE  Partition(p)'
<1> USE DEF TypeOK, ThreadType, OutType, Writer
<1>0. Partition(p)
  BY DEF PartitionInv
<1>1. CASE DrainTake(p)
  <2>1. Got(p)' = Got(p) \cup {<<p, Len(received[p]) + 1>>} /\ received'[p] # <<>>
    BY <1>1, GotGrows DEF DrainTake
  <2>2. drain[p] = "recv" /\ UNCHANGED <<pending, visible, status>>
    BY <1>1 DEF DrainTake, outVars
  <2>3. \/ status[p] = "failed" /\ drain'[p] = "recv"
        \/ status[p] # "failed" /\ drain'[p] = "holding" /\ hand'[p] = <<p, Len(received[p]) + 1>>
    <3>1. IF status[p] = "failed" THEN UNCHANGED <<drain, hand>>
            ELSE /\ drain' = [drain EXCEPT ![p] = "holding"]
                 /\ hand' = [hand EXCEPT ![p] = <<p, Len(received[p]) + 1>>]
      BY <1>1 DEF DrainTake, PartitionInv
    <3> QED
      BY <2>2, <3>1
  <2> QED
    BY <1>0, <2>1, <2>2, <2>3 DEF Partition, Held
<1>2. CASE DrainForward(p) \/ DrainClosed(p)
  BY <1>2 DEF DrainForward, DrainClosed
<1>3. CASE DrainWrite(p)
  <2>1. drain[p] = "holding" /\ drain'[p] = "recv" /\ received' = received /\ received[p] # <<>>
    BY <1>3 DEF DrainWrite, streamVars, DrainInv
  <2>2. status[p] # "failed" /\ status[p] # "complete" /\ Got(p) = pending[p] \cup visible[p] \cup {hand[p]}
    BY <1>0, <2>1 DEF Partition, Held
  <2>3. \/ status'[p] = status[p] /\ pending'[p] \cup visible'[p] = pending[p] \cup visible[p] \cup {hand[p]}
        \/ status'[p] = "failed"
    BY <1>3 DEF DrainWrite, WriteBatch, WriterFails, Lands
  <2> QED
    BY <1>0, <2>1, <2>2, <2>3 DEF Partition, Held, Got
<1>4. CASE DrainEnds(p)
  BY <1>0, <1>4 DEF DrainEnds, EndOfStream, Partition, Held, Got, outVars, mainVars
<1>5. CASE DrainFinish(p)
  <2>1. drain[p] = "finish" /\ received' = received
    BY <1>5 DEF DrainFinish, streamVars
  <2>2. \/ status' = status /\ pending'[p] \cup visible'[p] = pending[p] \cup visible[p] /\ drain' = drain
        \/ pending' = pending /\ visible' = visible /\ status'[p] = "failed" /\ drain'[p] = "err"
        \/ pending' = pending /\ visible' = visible /\ pending[p] = {} /\ status'[p] = "complete" /\ drain'[p] = "ok"
    BY <1>5 DEF DrainFinish, PublishRest, PublishManifest, WriterFails, Lands
  <2> QED
    BY <1>0, <2>1, <2>2 DEF Partition, Held, Got
<1> QED
  BY <1>1, <1>2, <1>3, <1>4, <1>5 DEF DrainThread

(* A drain thread leaves the other partitions and the serializer's output alone. *)
LEMMA OtherOutputs ==
  ASSUME TypeOK, NEW p \in Producer, DrainThread(p)
  PROVE  /\ UNCHANGED <<mode, main, exit, ser, index>>
         /\ mode # "partition" /\ DrainInv => UNCHANGED outVars
         /\ mode # "stream" => UNCHANGED closed
         /\ \A w \in Writer : w # p => pending'[w] = pending[w] /\ visible'[w] = visible[w] /\ status'[w] = status[w]
         /\ \A q \in Producer : q # p => drain'[q] = drain[q] /\ hand'[q] = hand[q] /\ received'[q] = received[q]
<1> USE DEF TypeOK, StreamType, ThreadType, OutType, Writer
<1>1. CASE DrainTake(p) \/ DrainForward(p) \/ DrainClosed(p) \/ DrainEnds(p)
  BY <1>1 DEF DrainTake, Deliver, DrainForward, DrainClosed, DrainEnds, EndOfStream, streamVars, mainVars,
      serVars, outVars
<1>2. CASE DrainWrite(p)
  BY <1>2 DEF DrainWrite, WriteBatch, WriterFails, Lands, streamVars, mainVars, serVars
<1>3. CASE DrainFinish(p)
  BY <1>3 DEF DrainFinish, PublishRest, PublishManifest, WriterFails, Lands, streamVars, mainVars, serVars, DrainInv
<1> QED
  BY <1>1, <1>2, <1>3 DEF DrainThread

(* Every step keeps all partitions, and the index over them.                 *)
LEMMA PartitionStep ==
  ASSUME TypeOK, DrainInv, PhaseInv, PartitionInv, [Next]_vars
  PROVE  PartitionInv'
<1> USE DEF TypeOK, ThreadType, OutType, Writer
<1>1. CASE MainSpawn
  <2>1. UNCHANGED <<mode, index, received, hand, pending, visible, status, ser, closed>>
        /\ main \in {"spawn1", "spawn2"} /\ main' \in {"drain1", "drain2"}
    BY <1>1 DEF MainSpawn, Goto, At, streamVars, outVars, serVars
  <2>2. \A p \in Producer : drain'[p] = drain[p] \/ (drain[p] = "off" /\ drain'[p] = "recv")
    BY <1>1, RunAssumption DEF MainSpawn, At, PhaseInv, Others
  <2> QED
    BY <2>1, <2>2 DEF PartitionInv, Partition, Got, Held
<1>2. CASE MainPublishesIndex
  <2>1. UNCHANGED <<mode, received, drain, hand, pending, visible, status, ser, closed>> /\ main = "index"
    BY <1>2 DEF MainPublishesIndex, streamVars, outVars, drainVars, serVars, Goto, At, ReturnErr
  <2>2. \/ main' = "sidecars" /\ index' = {p \in Producer : status[p] = "complete"}
        \/ main' = "index" /\ index' = index
    BY <1>2 DEF MainPublishesIndex, Goto, At, ReturnErr
  <2> QED
    BY <2>1, <2>2 DEF PartitionInv, Partition, Got, Held
<1>3. CASE MainJoinsDrains \/ MainPostprocess \/ MainRoute \/ MainChecksErrors \/ MainDeliversSidecars \/ MainJoinsSerializer \/ MainFinalizes
  <2>1. UNCHANGED <<mode, index, received, drain, hand, pending, visible, status, ser, closed>>
    BY <1>3 DEF MainJoinsDrains, AfterDrains, MainPostprocess, MainRoute, MainChecksErrors, MainDeliversSidecars,
        MainJoinsSerializer,
        MainFinalizes,
                Goto, ReturnErr, mainVars, drainVars, streamVars, outVars, serVars
  <2>2. /\ main' = "index" => main = "index" \/ mode = "partition"
        /\ main \in {"sidecars", "join", "finalize"} => main' \in {"sidecars", "join", "finalize"}
        /\ main' \in {"sidecars", "join", "finalize"} => main \in {"sidecars", "join", "finalize"} \/ mode # "partition"
    BY <1>3 DEF MainJoinsDrains, AfterDrains, MainPostprocess, MainRoute, MainChecksErrors, MainDeliversSidecars,
        MainJoinsSerializer,
        MainFinalizes,
                At, Goto, ReturnErr, mainVars
  <2> QED
    BY <2>1, <2>2 DEF PartitionInv, Partition, Got, Held
<1>8. CASE MainWritesGraph
  <2>1. /\ mode = "separate"
        /\ UNCHANGED <<mode, main, index, status, ser, closed>>
    BY <1>8 DEF MainWritesGraph, ReturnErr, mainVars, drainVars, serVars
  <2> QED
    BY <2>1 DEF PartitionInv
<1>4. CASE SerThread
  <2>1. UNCHANGED <<mode, main, index, received, drain, hand, closed>>
    BY <1>4 DEF SerThread, SerNothingToDo, SerTake, SerWrite, SerEof, SerFinish, mainVars, drainVars, streamVars
  <2>2. CASE mode \in {"partition", "separate"}
    <3>1. UNCHANGED <<pending, visible, status>> /\ ser' \in {"recv", "ok"}
      BY <1>4, <2>2 DEF SerThread, SerNothingToDo, SerTake, SerWrite, SerEof, SerFinish, PartitionInv, outVars
    <3> QED
      BY <2>1, <2>2, <3>1 DEF PartitionInv, Partition, Got, Held
  <2>3. CASE mode \in Serialized
    <3>1. \A p \in Producer : status'[p] = status[p]
      BY <1>4, ZeroIsNoProducer DEF SerThread, SerNothingToDo, SerTake, SerWrite, SerEof, SerFinish, outVars,
          WriteBatch, WriterFails, Lands, PublishRest, PublishManifest, DropBuffer
    <3> QED
      BY <2>1, <2>3, <3>1 DEF PartitionInv
  <2> QED
    BY <2>2, <2>3, KnownMode
<1>5. ASSUME NEW p \in Producer, ProducerStep(p) PROVE PartitionInv'
  <2>1. UNCHANGED runVars /\ UNCHANGED received
    BY <1>5 DEF ProducerStep, Emit, Return, Record
  <2> QED
    BY <2>1 DEF runVars, PartitionInv, Partition, Got, Held
<1>6. CASE ProcessExits \/ UNCHANGED vars
  <2>1. UNCHANGED <<mode, main, index, received, drain, hand, pending, visible, status, ser, closed>>
    BY <1>6 DEF ProcessExits, vars, runVars, streamVars, drainVars, outVars, serVars
  <2> QED
    BY <2>1 DEF PartitionInv, Partition, Got, Held
<1>7. ASSUME NEW p \in Producer, DrainThread(p) PROVE PartitionInv'
  <2>1. /\ UNCHANGED <<mode, main, ser, index>>
        /\ mode # "partition" => UNCHANGED outVars
        /\ mode # "stream" => UNCHANGED closed
        /\ \A w \in Writer : w # p => pending'[w] = pending[w] /\ visible'[w] = visible[w] /\ status'[w] = status[w]
        /\ \A q \in Producer : q # p => drain'[q] = drain[q] /\ hand'[q] = hand[q] /\ received'[q] = received[q]
    BY <1>7, OtherOutputs
  <2>2. mode = "partition" => Partition(p)'
    BY <1>7, OwnPartition
  <2>3. ASSUME mode = "partition", NEW q \in Producer, q # p PROVE Partition(q)'
    <3>1. Partition(q)
      BY <2>3 DEF PartitionInv
    <3>2. /\ UNCHANGED <<drain[q], hand[q], received[q]>>
          /\ UNCHANGED <<pending[q], visible[q], status[q]>>
      BY <2>1, <2>3
    <3>3. Got(q)' = Got(q) /\ Held(q)' = Held(q)
      BY <3>2 DEF Got, Held
    <3> QED
      BY <3>1, <3>2, <3>3 DEF Partition
  <2>4. mode \in {"partition", "separate"} => status'[0] = "writing"
    BY <2>1, ZeroIsNoProducer DEF PartitionInv
  <2>5. main \in {"sidecars", "join", "finalize"} => \A q \in Producer : status'[q] = status[q]
    <3>1. main \in {"sidecars", "join", "finalize"} => drain[p] = "ok"
      BY DEF PhaseInv
    <3>2. drain[p] # "ok"
      BY <1>7 DEF DrainThread, DrainTake, DrainForward, DrainClosed, DrainWrite, DrainEnds, DrainFinish
    <3> QED
      BY <3>1, <3>2
  <2> QED
    BY <2>1, <2>2, <2>3, <2>4, <2>5 DEF PartitionInv, outVars
<1> QED
  BY <1>1, <1>2, <1>3, <1>4, <1>5, <1>6, <1>7, <1>8 DEF Next, MainThread
-----------------------------------------------------------------------------
(* What the drains return is what they took.                                  *)
LEMMA CollectedIsGot ==
  ASSUME StreamInv
  PROVE  Collected = UNION {Got(p) : p \in Producer}
<1>1. \A p \in Producer : Got(p) = {<<p, received[p][i]>> : i \in 1..Len(received[p])}
  BY DEF StreamInv, Got
<1> QED
  BY <1>1 DEF Collected

(* With layout=separate what was collected stays in one place per graph.      *)
LEMMA GraphStep ==
  ASSUME TypeOK, StreamInv, DrainInv, PhaseInv, PartitionInv, GraphInv, FlowInv, [Next]_vars
  PROVE  GraphInv'
<1> USE DEF TypeOK, ThreadType, OutType, Writer
<1> SUFFICES ASSUME mode' = "separate" PROVE GraphInv'
  BY DEF GraphInv
<1>1. CASE MainPostprocess
  <2>1. /\ mode = "separate" /\ main = "post" /\ UNCHANGED <<visible, received>>
        /\ \/ main' = "route" /\ (unsent' = Collected \/ unsent' = Collected \cup {<<0, 1>>})
           \/ main' = main /\ unsent' = unsent
    BY <1>1 DEF MainPostprocess, At, Goto, ReturnErr, outVars, streamVars
  <2>2. Collected = UNION {Got(p) : p \in Producer}
    BY CollectedIsGot
  <2>3. \A p \in Producer : \A b \in Got(p) : b[1] = p
    BY DEF Got
  <2>4. \A p \in Producer : {b \in Collected : b[1] = p} = Got(p) /\ {b \in Collected \cup {<<0, 1>>} : b[1] = p} = Got(p)
    BY <2>2, <2>3, ZeroIsNoProducer
  <2>5. main' = "route" => \A p \in Producer : Unsent(p)' = Got(p)
    BY <2>1, <2>4 DEF Unsent
  <2>6. \A p \in Producer : Got(p)' = Got(p)
    BY <2>1 DEF Got
  <2> QED
    BY <2>1, <2>5, <2>6 DEF GraphInv, Early
<1>2. CASE MainWritesGraph
  <2>1. /\ mode = "separate" /\ main = "route" /\ exit = "none" /\ main' = main /\ received' = received
    BY <1>2 DEF MainWritesGraph, At, ReturnErr, mainVars, streamVars
  <2>2. CASE exit' = "err"
    BY <2>1, <2>2 DEF GraphInv, Early
  <2>3. ASSUME NEW g \in Writer, Unsent(g) # {}, visible' = [visible EXCEPT ![g] = Unsent(g)], unsent' = unsent \ Unsent(g)
        PROVE  GraphInv'
    <3>1. Unsent(g)' = {} /\ \A p \in Producer : p # g => Unsent(p)' = Unsent(p)
      BY <2>3 DEF Unsent
    <3>2. \A p \in Producer : Got(p)' = Got(p) /\ Got(p) = visible[p] \cup Unsent(p) /\ (visible[p] = {} \/ Unsent(p) = {})
      BY <2>1 DEF GraphInv, Early, Got
    <3>3. visible'[g] = Unsent(g) /\ \A p \in Producer : p # g => visible'[p] = visible[p]
      BY <2>3
    <3> HIDE DEF Unsent, Got
    <3>4. \A p \in Producer : Got(p)' = visible'[p] \cup Unsent(p)' /\ (visible'[p] = {} \/ Unsent(p)' = {})
      BY <2>3, <3>1, <3>2, <3>3
    <3> QED
      BY <2>1, <3>4 DEF GraphInv, Early
  <2>4. exit' = "err" \/ \E g \in Writer : Unsent(g) # {} /\ visible' = [visible EXCEPT ![g] = Unsent(g)] /\ unsent' = unsent \ Unsent(g)
    BY <1>2 DEF MainWritesGraph, ReturnErr, Unsent
  <2> QED
    BY <2>2, <2>3, <2>4
<1>3. CASE MainThread /\ ~MainPostprocess /\ ~MainWritesGraph
  <2>1. /\ mode = "separate" /\ UNCHANGED <<visible, received, unsent>>
        /\ (main' \in Early <=> main \in Early)
        /\ exit = "none"
    BY <1>3 DEF MainThread, MainSpawn, MainJoinsDrains, AfterDrains, MainRoute, MainChecksErrors, MainPublishesIndex,
        MainDeliversSidecars, MainJoinsSerializer, MainFinalizes, At, Goto, ReturnErr, Early, mainVars, outVars,
        streamVars
  <2> QED
    BY <2>1 DEF GraphInv, Got, Unsent
<1>4. CASE SerThread
  <2>1. UNCHANGED <<mode, main, exit, received, unsent>>
    BY <1>4 DEF SerThread, SerNothingToDo, SerTake, SerWrite, SerEof, SerFinish, mainVars, streamVars
  <2>2. UNCHANGED visible
    BY <1>4, <2>1 DEF SerThread, SerNothingToDo, SerTake, SerWrite, SerEof, SerFinish, PartitionInv, outVars
  <2> QED
    BY <2>1, <2>2 DEF GraphInv, Got, Unsent
<1>5. ASSUME NEW p \in Producer, ProducerStep(p) PROVE GraphInv'
  <2>1. UNCHANGED <<mode, main, exit, received, unsent, visible>>
    BY <1>5 DEF ProducerStep, Emit, Return, Record, runVars
  <2> QED
    BY <2>1 DEF GraphInv, Got, Unsent
<1>6. CASE ProcessExits \/ UNCHANGED vars
  <2>1. UNCHANGED <<mode, main, exit, received, unsent, visible>>
    BY <1>6 DEF ProcessExits, vars, runVars, streamVars, outVars
  <2> QED
    BY <2>1 DEF GraphInv, Got, Unsent
<1>7. ASSUME NEW p \in Producer, DrainThread(p) PROVE GraphInv'
  <2>1. UNCHANGED <<mode, main, exit, visible>> /\ \A q \in Producer : q # p => received'[q] = received[q]
    BY <1>7, OtherOutputs DEF outVars
  <2>2. UNCHANGED unsent
    BY <1>7 DEF DrainThread, DrainTake, DrainForward, DrainClosed, DrainWrite, DrainEnds, DrainFinish
  <2>3. drain[p] # "ok"
    BY <1>7 DEF DrainThread, DrainTake, DrainForward, DrainClosed, DrainWrite, DrainEnds, DrainFinish
  <2>4. main \in Early
    BY <2>3 DEF PhaseInv, Early
  <2> QED
    BY <2>1, <2>2, <2>4 DEF GraphInv
<1> QED
  BY <1>1, <1>2, <1>3, <1>4, <1>5, <1>6, <1>7 DEF Next

(* Derived files are delivered all at once, and no producer comes to one later. *)
LEMMA SidecarStep ==
  ASSUME TypeOK, StreamInv, DrainInv, PhaseInv, SidecarInv, [Next]_vars
  PROVE  SidecarInv'
<1>1. CASE MainThread
  <2>1. Sent' = Sent
    BY <1>1 DEF MainThread, MainSpawn, MainJoinsDrains, MainPostprocess, MainRoute, MainWritesGraph, MainChecksErrors,
        MainPublishesIndex, MainDeliversSidecars, MainJoinsSerializer, MainFinalizes, streamVars, Sent
  <2>2. \/ /\ delivered' = delivered
           /\ main' \in {"join", "finalize"} <=> main \in {"join", "finalize"}
           /\ main = "sidecars" => main' \in {"sidecars", "join"}
        \/ main' = "join" /\ delivered' = Sent
        \/ main = "sidecars" /\ main' = main
    BY <1>1 DEF MainThread, MainSpawn, MainJoinsDrains, AfterDrains, MainPostprocess, MainRoute, MainWritesGraph,
        MainChecksErrors,
        MainPublishesIndex, MainDeliversSidecars, MainJoinsSerializer, MainFinalizes, mainVars, At, Goto, ReturnErr
  <2> QED
    BY <2>1, <2>2 DEF SidecarInv
<1>2. CASE ~MainThread
  <2>1. UNCHANGED <<main, delivered>>
    <3>1. ASSUME NEW p \in Producer, DrainThread(p) PROVE UNCHANGED <<main, delivered>>
      BY <3>1 DEF DrainThread, DrainTake, DrainForward, DrainClosed, DrainWrite, DrainEnds, DrainFinish, mainVars
    <3>2. CASE SerThread
      BY <3>2 DEF SerThread, SerNothingToDo, SerTake, SerWrite, SerEof, SerFinish, mainVars
    <3> QED
      BY <1>2, <3>1, <3>2 DEF Next, vars, runVars, ProducerStep, ProcessExits
  <2>2. (\A p \in Producer : stream[p] = "eof") => \A p \in Producer : verdict'[p] = verdict[p]
    <3>1. ASSUME NEW p \in Producer, Emit(p) \/ Return(p) \/ Record(p) \/ Deliver(p) \/ EndOfStream(p),
                 stream[p] = "eof", verdict[p] # "pending"
          PROVE  verdict' = verdict
      BY <3>1 DEF Emit, Return, Record, Deliver, EndOfStream
    <3> QED
      BY <3>1, StreamMoves DEF streamVars, StreamInv
  <2>3. main \in {"join", "finalize"} => Sent' = Sent
    BY <2>2, RunAssumption DEF PhaseInv, DrainInv, Sent
  <2> QED
    BY <2>1, <2>3 DEF SidecarInv
<1> QED
  BY <1>1, <1>2

-----------------------------------------------------------------------------
(* Only the serializer thread changes its own state.                          *)
LEMMA SerMoves ==
  ASSUME [Next]_vars
  PROVE  \/ UNCHANGED ser
         \/ SerThread
<1>1. ASSUME NEW p \in Producer, DrainThread(p) PROVE UNCHANGED ser
  BY <1>1 DEF DrainThread, DrainTake, DrainForward, DrainClosed, DrainWrite, DrainEnds, DrainFinish, serVars
<1>2. CASE MainThread
  BY <1>2 DEF MainThread, MainSpawn, MainJoinsDrains, MainPostprocess, MainRoute, MainWritesGraph, MainChecksErrors,
      MainPublishesIndex, MainDeliversSidecars, MainJoinsSerializer, MainFinalizes, serVars
<1> QED
  BY <1>1, <1>2 DEF Next, vars, runVars, ProducerStep, ProcessExits, serVars

(* The serializer thread does not finish while someone can still send.       *)
LEMMA SerializerStep ==
  ASSUME TypeOK, DrainInv, PhaseInv, PartitionInv, SerializerInv, [Next]_vars
  PROVE  SerializerInv'
<1> USE DEF TypeOK, ThreadType, OutType, Writer
<1>1. CASE MainThread
  <2>1. UNCHANGED <<mode, ser, closed, pending, status>>
    BY <1>1 DEF MainThread, MainSpawn, MainJoinsDrains, AfterDrains, MainPostprocess, MainRoute, MainWritesGraph,
        MainChecksErrors,
        MainPublishesIndex,
                MainDeliversSidecars, MainJoinsSerializer, MainFinalizes, Goto, ReturnErr, mainVars, serVars,
                drainVars, outVars
  <2>2. mode \in Serialized /\ ser \in {"finish", "ok"} =>
          /\ UNCHANGED <<drain, chan>>
          /\ exit' = "none" => main' \in {"check", "index", "sidecars", "join", "finalize"}
    BY <1>1 DEF SerializerInv, MainHoldsSender, Places,
                MainThread, MainSpawn, MainJoinsDrains, MainPostprocess, MainRoute, MainWritesGraph, MainChecksErrors,
                MainPublishesIndex,
                MainDeliversSidecars, MainJoinsSerializer, MainFinalizes, At, Goto, ReturnErr, drainVars, serVars
  <2>3. mode \in Serialized /\ exit' = "err" /\ main' \in {"drain1", "drain2"} => closed # {}
    BY <1>1 DEF MainThread, MainSpawn, MainJoinsDrains, AfterDrains, MainPostprocess, MainRoute, MainWritesGraph,
        MainChecksErrors,
        MainPublishesIndex,
                MainDeliversSidecars, MainJoinsSerializer, MainFinalizes, At, Goto, ReturnErr, mainVars
  <2> QED
    BY <2>1, <2>2, <2>3 DEF SerializerInv, MainHoldsSender, DrainHoldsSender
<1>2. CASE SerThread
  <2>1. UNCHANGED <<mode, main, exit, closed, drain>>
    BY <1>2 DEF SerThread, SerNothingToDo, SerTake, SerWrite, SerEof, SerFinish, mainVars, drainVars
  <2>2. CASE SerNothingToDo
    BY <2>2 DEF SerNothingToDo, SerializerInv, mainVars
  <2>3. CASE SerTake
    <3>1. ser = "recv" /\ ser' = "writing" /\ status' = status
      BY <2>3 DEF SerTake, outVars
    <3> QED
      BY <2>1, <3>1 DEF SerializerInv
  <2>4. CASE SerWrite
    <3>1. ser = "writing" /\ ((ser' = "recv" /\ status' = status) \/ (ser' = "err" /\ status'[0] = "failed"))
      BY <2>4 DEF SerWrite, WriteBatch, WriterFails, Lands
    <3> QED
      BY <2>1, <3>1 DEF SerializerInv
  <2>5. CASE SerEof
    <3>1. ser = "recv" /\ ser' = "finish" /\ status' = status /\ chan' = <<>> /\ ~MainHoldsSender
          /\ \A p \in Producer : ~DrainHoldsSender(p)
      BY <2>5 DEF SerEof, outVars
    <3> QED
      BY <2>1, <3>1 DEF SerializerInv, MainHoldsSender, DrainHoldsSender
  <2>6. CASE SerFinish
    <3>1. ser = "finish" /\ chan' = chan
          /\ \/ ser' = "finish" /\ status' = status
             \/ mode # "joined" /\ ser' = "ok" /\ status'[0] = "complete" /\ pending'[0] = {}
             \/ mode = "joined" /\ ser' = "ok" /\ status'[0] = "written" /\ pending'[0] = {}
             \/ mode = "joined" /\ ser' = "ok" /\ status'[0] = "cut"
             \/ ser' = "err" /\ status'[0] = "failed"
      BY <2>6 DEF SerFinish, PublishRest, PublishManifest, DropBuffer, WriterFails, Lands
    <3> QED
      BY <2>1, <3>1 DEF SerializerInv, MainHoldsSender, DrainHoldsSender
  <2> QED
    BY <1>2, <2>2, <2>3, <2>4, <2>5, <2>6 DEF SerThread
<1>3. ASSUME NEW p \in Producer, ProducerStep(p) PROVE SerializerInv'
  BY <1>3 DEF ProducerStep, runVars, SerializerInv, MainHoldsSender, DrainHoldsSender
<1>4. CASE ProcessExits \/ UNCHANGED vars
  <2>1. UNCHANGED <<mode, main, exit, drain, closed, chan, ser, pending, visible, status>>
    BY <1>4 DEF ProcessExits, vars, runVars, drainVars, serVars, outVars
  <2> QED
    BY <2>1 DEF SerializerInv, MainHoldsSender, DrainHoldsSender
<1>5. ASSUME NEW p \in Producer, DrainThread(p), mode \in Serialized PROVE SerializerInv'
  <2>1. UNCHANGED <<mode, main, exit, ser>> /\ UNCHANGED <<pending, visible, status>>
    BY <1>5, OtherOutputs DEF outVars
  <2>2. \A q \in Producer : DrainHoldsSender(q)' => DrainHoldsSender(q)
    <3>1. drain'[p] \in {"recv", "holding"} => drain[p] \in {"recv", "holding"}
      BY <1>5 DEF DrainThread, DrainTake, DrainForward, DrainClosed, DrainWrite, DrainEnds, DrainFinish
    <3>2. \A q \in Producer : q # p => drain'[q] = drain[q]
      BY <1>5, OtherOutputs
    <3> QED
      BY <2>1, <3>1, <3>2 DEF DrainHoldsSender
  <2>3. ser \in {"finish", "ok"} => chan' = chan /\ closed' = closed
    <3>1. ser \in {"finish", "ok"} => ~DrainHoldsSender(p)
      BY <1>5 DEF SerializerInv
    <3>2. CASE DrainForward(p) \/ DrainClosed(p)
      BY <3>1, <3>2 DEF DrainForward, DrainClosed, DrainHoldsSender
    <3>3. CASE DrainTake(p) \/ DrainWrite(p) \/ DrainEnds(p) \/ DrainFinish(p)
      BY <3>3 DEF DrainTake, DrainWrite, DrainEnds, DrainFinish, serVars
    <3> QED
      BY <1>5, <3>2, <3>3 DEF DrainThread
  <2>4. closed' # {} => ser = "err"
    <3>1. closed' = closed \/ ~ReceiverAlive
      BY <1>5 DEF DrainThread, DrainTake, DrainForward, DrainClosed, DrainWrite, DrainEnds, DrainFinish
    <3> QED
      BY <1>5, <2>3, <3>1 DEF ReceiverAlive, SerializerInv
  <2> QED
    BY <1>5, <2>1, <2>2, <2>3, <2>4 DEF SerializerInv, MainHoldsSender
<1>6. ASSUME NEW p \in Producer, DrainThread(p), mode \notin Serialized PROVE SerializerInv'
  <2>1. mode' = mode
    BY <1>6, OtherOutputs
  <2> QED
    BY <1>6, <2>1 DEF SerializerInv
<1> QED
  BY <1>1, <1>2, <1>3, <1>4, <1>5, <1>6 DEF Next
-----------------------------------------------------------------------------
(* What the serializer thread was given moves with it until it fails.         *)
LEMMA GivenBySerializer ==
  ASSUME TypeOK, SerThread, mode \in Serialized
  PROVE  /\ Given' \subseteq Given
         /\ ser' # "err" => Given' = Given
         /\ UNCHANGED <<streamVars, mode, main, exit, drain, hand, closed, unsent, index>>
<1> USE DEF TypeOK, ThreadType, OutType, Writer
<1>1. CASE SerNothingToDo
  BY <1>1 DEF SerNothingToDo
<1>2. CASE SerTake
  <2>1. /\ Writing = {} /\ Writing' = {Head(chan)}
        /\ chan \in Seq(Batch) /\ chan # <<>> /\ chan' = Tail(chan)
        /\ UNCHANGED <<pending, visible>>
    BY <1>2 DEF SerTake, Writing, outVars
  <2>2. Elems(chan) = {Head(chan)} \cup Elems(chan')
    BY <2>1, ElemsTail
  <2>3. Given' = Given
    BY <2>1, <2>2 DEF Given, Elems
  <2> QED
    BY <1>2, <2>3 DEF SerTake, mainVars, drainVars
<1>3. CASE SerWrite
  <2>1. Writing = {serHand} /\ Writing' = {} /\ UNCHANGED <<streamVars, mode, main, exit, drain, hand, closed, unsent, index>>
    BY <1>3 DEF SerWrite, Writing, mainVars, drainVars
  <2>2. CASE WriteBatch(0, serHand) /\ ser' = "recv" /\ UNCHANGED chan
    <3>1. pending'[0] \cup visible'[0] = pending[0] \cup visible[0] \cup {serHand}
      BY <2>2 DEF WriteBatch
    <3> QED
      BY <2>1, <2>2, <3>1 DEF Given, Elems
  <2>3. CASE WriterFails(0) /\ ser' = "err" /\ chan' = <<>>
    <3>1. pending'[0] \cup visible'[0] = pending[0] \cup visible[0] /\ Elems(chan') = {}
      BY <2>3, ElemsEmpty DEF WriterFails, Lands
    <3>2. Elems(chan)' = Elems(chan')
      BY DEF Elems
    <3> QED
      BY <2>1, <2>3, <3>1, <3>2 DEF Given
  <2> QED
    BY <1>3, <2>2, <2>3 DEF SerWrite
<1>4. CASE SerEof
  BY <1>4 DEF SerEof, Given, Writing, Elems, mainVars, drainVars, outVars
<1>5. CASE SerFinish
  <2>1. ser = "finish" /\ ser' \in {"finish", "ok", "err"} /\ pending'[0] \cup visible'[0] = pending[0] \cup visible[0]
    BY <1>5 DEF SerFinish, PublishRest, PublishManifest, DropBuffer, WriterFails, Lands
  <2> QED
    BY <1>5, <2>1 DEF SerFinish, Given, Writing, Elems, mainVars, drainVars
<1> QED
  BY <1>1, <1>2, <1>3, <1>4, <1>5 DEF SerThread

(* Before `main` has the collected batches only drain threads give it any.    *)
LEMMA GivenByDrain ==
  ASSUME TypeOK, DrainInv, mode \in Serialized, NEW p \in Producer, DrainThread(p)
  PROVE  \/ Given' = Given /\ ~DrainForward(p)
         \/ DrainForward(p) /\ Given' = Given \cup {hand[p]}
<1> USE DEF TypeOK, ThreadType, OutType, Writer
<1>1. UNCHANGED <<ser, serHand>> /\ UNCHANGED <<pending, visible>>
  <2>1. UNCHANGED outVars
    BY OtherOutputs
  <2>2. UNCHANGED <<ser, serHand>>
    BY DEF DrainThread, DrainTake, DrainForward, DrainClosed, DrainWrite, DrainEnds, DrainFinish, serVars
  <2> QED
    BY <2>1, <2>2 DEF outVars
<1>2. CASE DrainForward(p)
  <2>1. chan' = Append(chan, hand[p]) /\ hand[p] \in Batch /\ chan \in Seq(Batch)
    BY <1>2 DEF DrainForward
  <2>2. Elems(Append(chan, hand[p])) = Elems(chan) \cup {hand[p]}
    BY <2>1, ElemsAppend
  <2>3. Elems(chan)' = Elems(Append(chan, hand[p]))
    BY <2>1 DEF Elems
  <2> QED
    BY <1>1, <1>2, <2>2, <2>3 DEF Given, Writing
<1>3. CASE ~DrainForward(p)
  <2>1. UNCHANGED chan
    BY <1>3 DEF DrainThread, DrainTake, DrainClosed, DrainWrite, DrainEnds, DrainFinish, serVars
  <2> QED
    BY <1>1, <1>3, <2>1 DEF Given, Writing, Elems
<1> QED
  BY <1>2, <1>3

\* The parts of FlowInv.
FlowEmpty ==
  /\ mode \notin Collecting => unsent = {}
  /\ main \in {"check", "index", "sidecars", "join", "finalize"} => unsent = {}
  /\ mode \in {"collect", "joined"} /\ main \in Early => unsent = {} /\ Given = {}
FlowKept ==
  /\ mode = "stream" /\ ser # "err" => \A p \in Producer : Got(p) \subseteq Held(p) \cup Given
  /\ mode \in {"collect", "joined"} /\ ser # "err" /\ main \notin Early => \A p \in Producer : Got(p) \subseteq unsent \cup Given
FlowOnly ==
  mode \in Serialized => \A b \in unsent \cup Given : b = <<0, 1>> \/ \E p \in Producer : b \in Got(p)

(* FlowInv in parts.                                                         *)
LEMMA FlowParts == FlowInv <=> FlowEmpty /\ FlowKept /\ FlowOnly
  BY DEF FlowInv, FlowEmpty, FlowKept, FlowOnly

(* The serializer thread loses nothing before it fails.                      *)
LEMMA FlowBySerializer ==
  ASSUME TypeOK, PartitionInv, FlowInv, SerThread
  PROVE  FlowInv'
<1>1. CASE mode \in Serialized
  <2>1. /\ Given' \subseteq Given
        /\ ser' # "err" => Given' = Given
        /\ UNCHANGED <<streamVars, mode, main, exit, drain, hand, closed, unsent, index>>
    BY <1>1, GivenBySerializer
  <2>2. ser' # "err" => ser # "err"
    BY DEF SerThread, SerNothingToDo, SerTake, SerWrite, SerEof, SerFinish
  <2>3. UNCHANGED received
    BY <2>1 DEF streamVars
  <2>4. \A p \in Producer : Got(p)' = Got(p) /\ Held(p)' = Held(p)
    BY <2>1, <2>3 DEF Got, Held
  <2> HIDE DEF Given
  <2> QED
    BY <1>1, <2>1, <2>2, <2>4 DEF FlowInv
<1>2. CASE mode \notin Serialized
  <2>1. UNCHANGED <<mode, main, unsent>>
    BY DEF SerThread, SerNothingToDo, SerTake, SerWrite, SerEof, SerFinish, mainVars
  <2> QED
    BY <1>2, <2>1 DEF FlowInv
<1> QED
  BY <1>1, <1>2

(* A drain thread loses nothing before the serializer fails.                 *)
LEMMA FlowByDrain ==
  ASSUME TypeOK, StreamInv, DrainInv, PhaseInv, PartitionInv, SerializerInv, FlowInv, SerializerInv',
         NEW p \in Producer, DrainThread(p)
  PROVE  FlowInv'
<1>1. UNCHANGED <<mode, main, exit, ser>>
      /\ \A q \in Producer : q # p => drain'[q] = drain[q] /\ hand'[q] = hand[q] /\ received'[q] = received[q]
  BY OtherOutputs
<1>2. UNCHANGED unsent
  BY DEF DrainThread, DrainTake, DrainForward, DrainClosed, DrainWrite, DrainEnds, DrainFinish
<1>3. CASE mode \notin Serialized
  BY <1>1, <1>2, <1>3 DEF FlowInv
<1>4. CASE mode \in Serialized
  <2>1. \A q \in Producer : q # p => Got(q)' = Got(q) /\ Held(q)' = Held(q)
    BY <1>1 DEF Got, Held
  <2>2. \/ Given' = Given /\ ~DrainForward(p)
        \/ DrainForward(p) /\ Given' = Given \cup {hand[p]}
    BY <1>4, GivenByDrain
  <2>3. Got(p) \subseteq Got(p)'
    <3>1. Deliver(p) \/ received' = received
      BY DEF DrainThread, DrainTake, DrainForward, DrainClosed, DrainWrite, DrainEnds, DrainFinish, EndOfStream,
          streamVars
    <3> QED
      BY <3>1, GotGrows DEF Got, TypeOK
  <2>4. DrainForward(p) => hand[p] \in Got(p) /\ mode = "stream"
    <3>1. DrainForward(p) => drain[p] = "holding" /\ mode = "stream"
      BY DEF DrainForward
    <3>2. received[p] # <<>> => Len(received[p]) \in 1..Len(received[p])
      BY DEF TypeOK, StreamType
    <3> QED
      BY <3>1, <3>2 DEF DrainInv, Got
  <2>5. FlowEmpty'
    BY <1>1, <1>2, <1>4, <2>2, <2>4, FlowParts DEF FlowEmpty
  <2>6. FlowOnly'
    BY <1>1, <1>2, <1>4, <2>1, <2>2, <2>3, <2>4, FlowParts DEF FlowOnly
  <2>7. mode = "stream" /\ ser # "err" => Got(p)' \subseteq Held(p)' \cup Given'
    <3>1. ASSUME mode = "stream", ser # "err" PROVE Got(p)' \subseteq Held(p)' \cup Given'
      <4>1. closed = {} /\ closed' = {} /\ status[p] # "failed"
        BY <1>1, <3>1 DEF SerializerInv, PartitionInv
      <4>2. Got(p) \subseteq Held(p) \cup Given
        BY <3>1 DEF FlowInv
      <4>3. CASE DrainTake(p)
        <5>1. Got(p)' = Got(p) \cup {<<p, Len(received[p]) + 1>>}
          BY <4>3, GotGrows DEF DrainTake, TypeOK
        <5>2. drain[p] = "recv" /\ drain'[p] = "holding" /\ hand'[p] = <<p, Len(received[p]) + 1>>
          BY <3>1, <4>1, <4>3 DEF DrainTake, TypeOK, ThreadType
        <5>3. Given' = Given
          BY <2>2, <5>2 DEF DrainForward
        <5> QED
          BY <4>2, <5>1, <5>2, <5>3 DEF Held
      <4>4. CASE DrainForward(p)
        <5>1. received' = received /\ Given' = Given \cup {hand[p]}
          BY <2>2, <4>4 DEF DrainForward, streamVars
        <5> QED
          BY <4>2, <5>1 DEF Held, Got
      <4>5. CASE DrainClosed(p)
        BY <4>1, <4>5 DEF DrainClosed
      <4>6. CASE DrainWrite(p) \/ DrainFinish(p)
        BY <3>1, <4>6 DEF DrainWrite, DrainFinish, DrainInv
      <4>7. CASE DrainEnds(p)
        <5>1. received' = received /\ drain[p] = "recv" /\ Given' = Given
          BY <2>2, <4>7 DEF DrainEnds, EndOfStream, DrainForward
        <5> QED
          BY <4>2, <5>1 DEF Held, Got
      <4> QED
        BY <4>3, <4>4, <4>5, <4>6, <4>7 DEF DrainThread
    <3> QED
      BY <3>1
  <2>8. mode \in {"collect", "joined"} /\ main \notin Early => Got(p)' = Got(p) /\ Given' = Given
    <3>1. mode \in {"collect", "joined"} /\ main \notin Early => drain[p] = "ok"
      BY DEF PhaseInv, Early
    <3>2. drain[p] # "ok"
      BY DEF DrainThread, DrainTake, DrainForward, DrainClosed, DrainWrite, DrainEnds, DrainFinish
    <3> QED
      BY <3>1, <3>2
  <2>9. FlowKept'
    BY <1>1, <1>2, <2>1, <2>2, <2>7, <2>8, FlowParts DEF FlowKept
  <2> QED
    BY <2>5, <2>6, <2>9, FlowParts DEF FlowInv, FlowEmpty, FlowKept, FlowOnly
<1> QED
  BY <1>3, <1>4

(* `main` routes every collected batch, and nothing else but its own.        *)
LEMMA FlowByMain ==
  ASSUME TypeOK, StreamInv, DrainInv, PhaseInv, SerializerInv, FlowInv, MainThread
  PROVE  FlowInv'
<1> USE DEF TypeOK
<1>0. CASE MainWritesGraph
  <2>1. mode = "separate" /\ main = "route" /\ UNCHANGED <<mode, main>>
    BY <1>0 DEF MainWritesGraph, At, ReturnErr, mainVars
  <2> QED
    BY <2>1 DEF FlowInv, Early
<1> SUFFICES ASSUME ~MainWritesGraph PROVE FlowInv'
  BY <1>0
<1>1. UNCHANGED <<mode, received, hand, ser, serHand, pending, visible>>
  BY DEF MainThread, MainSpawn, MainJoinsDrains, AfterDrains, MainPostprocess, MainRoute, MainChecksErrors,
      MainPublishesIndex,
         MainDeliversSidecars, MainJoinsSerializer, MainFinalizes, Goto, ReturnErr, mainVars, serVars, drainVars,
         outVars, streamVars
<1>2. \A p \in Producer : Got(p)' = Got(p)
  BY <1>1 DEF Got
<1>3. CASE MainSpawn
  <2>1. UNCHANGED <<chan, unsent>> /\ main \in Early /\ main' \in Early
    BY <1>3 DEF MainSpawn, At, Goto, serVars, Early
  <2>2. Given' = Given
    BY <1>1, <2>1 DEF Given, Writing, Elems
  <2>3. \A p \in Producer : Held(p)' = Held(p)
    <3>1. \A p \in Producer : drain'[p] = drain[p] \/ (drain[p] = "off" /\ drain'[p] = "recv")
      BY <1>3, RunAssumption DEF MainSpawn, At, PhaseInv, Others, ThreadType
    <3> QED
      BY <1>1, <3>1 DEF Held
  <2>4. main' \notin {"check", "index", "sidecars", "join", "finalize"}
    BY <2>1 DEF Early
  <2> HIDE DEF Given
  <2> QED
    BY <1>1, <1>2, <2>1, <2>2, <2>3, <2>4 DEF FlowInv
<1>4. CASE MainPostprocess
  <2>1. UNCHANGED <<chan, drain>> /\ main = "post"
    BY <1>4 DEF MainPostprocess, At, serVars, drainVars
  <2>2. Given' = Given /\ \A p \in Producer : Held(p)' = Held(p)
    BY <1>1, <2>1 DEF Given, Writing, Elems, Held
  <2>4. Collected = UNION {Got(p) : p \in Producer}
    BY CollectedIsGot
  <2>5. \/ main' = "route" /\ mode \in Collecting /\ (unsent' = Collected \/ unsent' = Collected \cup {<<0, 1>>})
        \/ main' = "route" /\ mode \notin Collecting /\ unsent' = unsent
        \/ main' = main /\ unsent' = unsent
    BY <1>4 DEF MainPostprocess, Goto, ReturnErr
  <2> HIDE DEF Given
  <2> QED
    BY <1>1, <1>2, <2>1, <2>2, <2>4, <2>5 DEF FlowInv, Early
<1>5. CASE MainRoute
  <2>1. UNCHANGED drain /\ main = "route" /\ exit = "none"
    BY <1>5 DEF MainRoute, At, drainVars
  <2>2. \A p \in Producer : Held(p)' = Held(p)
    BY <1>1, <2>1 DEF Held
  <2>3. CASE unsent = {} /\ Goto("check") /\ UNCHANGED <<chan, unsent>>
    <3>1. Given' = Given /\ main' = "check"
      BY <1>1, <2>3 DEF Given, Writing, Elems, Goto
    <3> HIDE DEF Given
    <3> QED
      BY <1>1, <1>2, <2>1, <2>2, <2>3, <3>1 DEF FlowInv, Early
  <2>4. ASSUME NEW b \in unsent, mode # "separate", unsent' = unsent \ {b}, UNCHANGED mainVars,
               IF ReceiverAlive THEN Len(chan) < SerCap /\ chan' = Append(chan, b) ELSE UNCHANGED chan
        PROVE  FlowInv'
    <3>1. mode \in {"collect", "joined"} /\ main' = main
      BY <2>4 DEF FlowInv, mainVars
    <3>2. CASE ReceiverAlive
      <4>1. chan' = Append(chan, b) /\ b \in Batch /\ chan \in Seq(Batch)
        BY <2>4, <3>2 DEF ThreadType
      <4>2. Elems(chan)' = Elems(chan) \cup {b}
        <5>1. Elems(Append(chan, b)) = Elems(chan) \cup {b}
          BY <4>1, ElemsAppend
        <5> QED
          BY <4>1, <5>1 DEF Elems
      <4>3. Given' = Given \cup {b}
        BY <1>1, <4>2 DEF Given, Writing
      <4> HIDE DEF Given
      <4> QED
        BY <1>1, <1>2, <2>1, <2>4, <3>1, <4>3 DEF FlowInv, Early
    <3>3. CASE ~ReceiverAlive
      <4>1. ser = "err"
        BY <2>1, <3>1, <3>3 DEF ReceiverAlive, SerializerInv, MainHoldsSender
      <4>2. Given' = Given
        BY <1>1, <2>4, <3>3 DEF Given, Writing, Elems
      <4> HIDE DEF Given
      <4> QED
        BY <1>1, <1>2, <2>1, <2>4, <3>1, <4>1, <4>2 DEF FlowInv, Early
    <3> QED
      BY <3>2, <3>3
  <2> QED
    BY <1>5, <2>3, <2>4 DEF MainRoute
<1>6. CASE MainJoinsDrains \/ MainChecksErrors \/ MainPublishesIndex \/ MainDeliversSidecars \/ MainJoinsSerializer \/ MainFinalizes
  <2>1. UNCHANGED <<chan, drain, unsent>>
    BY <1>6 DEF MainJoinsDrains, MainChecksErrors, MainPublishesIndex, MainDeliversSidecars, MainJoinsSerializer,
        MainFinalizes,
        serVars, drainVars
  <2>2. Given' = Given /\ \A p \in Producer : Held(p)' = Held(p)
    BY <1>1, <2>1 DEF Given, Writing, Elems, Held
  <2>3. /\ main' \in Early <=> main \in Early
        /\ main' \in {"check", "index", "sidecars", "join", "finalize"} <=> main \in {"check", "index", "sidecars", "join", "finalize"}
    BY <1>6 DEF MainJoinsDrains, AfterDrains, MainChecksErrors, MainPublishesIndex, MainDeliversSidecars,
        MainJoinsSerializer, MainFinalizes,
                At, Goto, ReturnErr, Early
  <2> HIDE DEF Given
  <2> QED
    BY <1>1, <1>2, <2>1, <2>2, <2>3 DEF FlowInv
<1> QED
  BY <1>3, <1>4, <1>5, <1>6 DEF MainThread

(* Every step keeps what is on its way.                                      *)
LEMMA FlowStep ==
  ASSUME TypeOK, StreamInv, DrainInv, PhaseInv, PartitionInv, SerializerInv, FlowInv, SerializerInv', [Next]_vars
  PROVE  FlowInv'
<1>1. ASSUME NEW p \in Producer, ProducerStep(p) PROVE FlowInv'
  <2>1. UNCHANGED runVars /\ UNCHANGED received
    BY <1>1 DEF ProducerStep, Emit, Return, Record
  <2>2. Given' = Given /\ \A q \in Producer : Got(q)' = Got(q) /\ Held(q)' = Held(q)
    BY <2>1 DEF runVars, Given, Got, Held, Writing, Elems
  <2> HIDE DEF Given
  <2> QED
    BY <2>1, <2>2 DEF runVars, FlowInv
<1>2. CASE ProcessExits \/ UNCHANGED vars
  <2>1. UNCHANGED <<received, mode, main, drain, hand, chan, ser, serHand, unsent, pending, visible>>
    BY <1>2 DEF ProcessExits, vars, runVars, streamVars, drainVars, serVars, outVars
  <2>2. Given' = Given /\ \A p \in Producer : Got(p)' = Got(p) /\ Held(p)' = Held(p)
    BY <2>1 DEF Given, Got, Held, Writing, Elems
  <2> HIDE DEF Given
  <2> QED
    BY <2>1, <2>2 DEF FlowInv
<1> QED
  BY <1>1, <1>2, FlowByMain, FlowBySerializer, FlowByDrain DEF Next

-----------------------------------------------------------------------------
(* The invariant holds when the run starts.                                  *)
LEMMA RunStarts == Init => RunInv
<1> SUFFICES ASSUME Init PROVE RunInv
  OBVIOUS
<1> USE DEF Init, StreamsInit
<1>1. TypeOK
  <2>1. <<>> \in Seq(Nat) /\ <<>> \in Seq(Batch)
    OBVIOUS
  <2> QED
    BY <2>1, RunAssumption DEF TypeOK, StreamType, ThreadType, OutType, Verdicts, Places, None, Writer
<1>2. StreamInv /\ DrainInv /\ PhaseInv
  BY DEF StreamInv, DrainInv, PhaseInv
<1>3. PartitionInv
  BY ZeroIsNoProducer DEF PartitionInv, Partition, Got, Held, Writer
<1>6. GraphInv /\ SidecarInv
  BY DEF GraphInv, SidecarInv, Writer, Early
<1>4. SerializerInv
  BY DEF SerializerInv, Writer
<1>5. FlowInv
  <2>1. Given = {}
    BY ElemsEmpty DEF Given, Writing, Writer
  <2>2. \A p \in Producer : Got(p) = {}
    BY DEF Got
  <2> HIDE DEF Given, Got
  <2> QED
    BY <2>1, <2>2 DEF FlowInv, Early
<1> QED
  BY <1>1, <1>2, <1>3, <1>4, <1>5, <1>6 DEF RunInv

(* A run never leaves its inductive invariant.                               *)
THEOREM RunInvariant == Spec => []RunInv
<1>1. RunInv /\ [Next]_vars => RunInv'
  <2> SUFFICES ASSUME RunInv, [Next]_vars PROVE RunInv'
    OBVIOUS
  <2> USE DEF RunInv
  <2>1. TypeOK' /\ StreamInv' /\ DrainInv' /\ PhaseInv' /\ PartitionInv'
       /\ GraphInv' /\ SidecarInv' /\ SerializerInv'
    BY TypeStep, StreamStep, DrainStep, PhaseStep, PartitionStep, GraphStep, SidecarStep, SerializerStep
  <2>2. FlowInv'
    BY <2>1, FlowStep
  <2> QED
    BY <2>1, <2>2
<1> QED
  BY <1>1, RunStarts, PTL DEF Spec

(* Every variable keeps its type.                                            *)
THEOREM TypeCorrect == Spec => []TypeOK
  BY RunInvariant, PTL DEF RunInv

(* A successful run has produced everything and published all of it.         *)
THEOREM SuccessIsComplete == Spec => []SuccessMeansComplete
<1>1. RunInv => SuccessMeansComplete
  <2> SUFFICES ASSUME RunInv, exit = "ok" PROVE SuccessMeansComplete
    BY DEF SuccessMeansComplete
  <2> USE DEF RunInv, TypeOK
  <2>1. main = "finalize" /\ errors = {} /\ ser = "ok" /\ \A p \in Producer : drain[p] = "ok"
    BY DEF PhaseInv
  <2>2. \A p \in Producer : stream[p] = "eof" /\ verdict[p] = "ok"
    BY <2>1 DEF DrainInv, StreamInv, StreamType, Verdicts
  <2>3. \A p \in Producer : Got(p) = Produced(p) /\ Held(p) = {}
    BY <2>1, <2>2 DEF StreamInv, Got, Produced, Held
  <2>6. delivered = Sidecar
    BY <2>1, <2>2, RunAssumption DEF SidecarInv, Sent
  <2>4. CASE mode = "partition"
    <3>1. index = {p \in Producer : status[p] = "complete"}
      BY <2>1, <2>4 DEF PartitionInv
    <3>2. \A p \in Producer : received[p] # <<>> <=> produced[p] > 0
      BY <2>2, EmptyHasNoLength DEF StreamInv, StreamType
    <3>3. ASSUME NEW p \in Producer PROVE visible[p] = Produced(p) /\ (status[p] = "complete" <=> produced[p] > 0)
      <4>1. Partition(p)
        BY <2>4 DEF PartitionInv
      <4>2. CASE received[p] # <<>>
        BY <2>1, <2>3, <3>2, <4>1, <4>2 DEF Partition
      <4>3. CASE received[p] = <<>>
        <5>1. Got(p) = {} /\ ~(produced[p] > 0)
          BY <3>2, <4>3 DEF Got
        <5> QED
          BY <2>1, <2>3, <4>1, <4>3, <5>1 DEF Partition
      <4> QED
        BY <4>2, <4>3
    <3> QED
      BY <2>2, <2>4, <2>6, <3>1, <3>3 DEF SuccessMeansComplete
  <2>7. CASE mode = "separate"
    <3>1. ASSUME NEW p \in Producer PROVE visible[p] = Produced(p)
      <4>1. unsent = {} /\ Got(p) = visible[p] \cup Unsent(p)
        BY <2>1, <2>7 DEF GraphInv, FlowInv, Early
      <4>2. Unsent(p) = {}
        BY <4>1 DEF Unsent
      <4> QED
        BY <2>3, <4>1, <4>2
    <3> QED
      BY <2>2, <2>6, <2>7, <3>1 DEF SuccessMeansComplete
  <2>5. CASE mode \in Serialized
    <3>1. /\ chan = <<>>
          /\ mode # "joined" => status[0] = "complete"
          /\ mode = "joined" => status[0] \in {"written", "cut"}
          /\ status[0] \in {"complete", "written"} => pending[0] = {}
      BY <2>1, <2>5 DEF SerializerInv
    <3>2. Given = visible[0] \cup pending[0] /\ unsent = {}
      BY <2>1, <3>1, ElemsEmpty DEF Given, Writing, FlowInv
    <3>3. \A p \in Producer : Got(p) \subseteq visible[0] \cup pending[0]
      BY <2>1, <2>3, <2>5, <3>2 DEF FlowInv, ThreadType, Early
    <3>4. \A b \in visible[0] \cup pending[0] : b = <<0, 1>> \/ \E p \in Producer : b \in Got(p)
      BY <2>5, <3>2 DEF FlowInv
    <3>5. \A p \in Producer : <<0, 1>> \notin Got(p)
      BY ZeroIsNoProducer DEF Got
    <3>6. (visible[0] \cup pending[0]) \ {<<0, 1>>} = AllProduced
      BY <2>3, <3>3, <3>4, <3>5 DEF AllProduced
    <3> QED
      BY <2>2, <2>5, <2>6, <3>1, <3>6 DEF SuccessMeansComplete
  <2> QED
    BY <2>4, <2>5, <2>7, KnownMode
<1> QED
  BY <1>1, RunInvariant, PTL

(* A manifest, and the index over them, never come too early.                *)
THEOREM MarkersAreTrue == Spec => []MarkersTellTheTruth
<1>1. RunInv => ManifestLast
  <2> SUFFICES ASSUME RunInv PROVE ManifestLast
    OBVIOUS
  <2> USE DEF RunInv, TypeOK
  <2>1. ASSUME NEW p \in Producer, status[p] = "complete" PROVE stream[p] = "eof" /\ visible[p] = Produced(p)
    <3>1. mode = "partition" /\ Partition(p)
      BY <2>1 DEF PartitionInv
    <3>2. drain[p] = "ok" /\ stream[p] = "eof" /\ Held(p) = {}
      BY <2>1, <3>1 DEF Partition, DrainInv, Held
    <3>3. Got(p) = Produced(p)
      BY <3>2 DEF StreamInv, Got, Produced
    <3> QED
      BY <2>1, <3>1, <3>2, <3>3 DEF Partition
  <2>2. ASSUME status[0] = "complete"
        PROVE  IF PostprocessFailed THEN visible[0] = {}
               ELSE \A p \in Producer : stream[p] = "eof" /\ Produced(p) \subseteq visible[0]
    <3>1. mode \in Serialized /\ ser = "ok" /\ chan = <<>> /\ pending[0] = {} /\ ~MainHoldsSender
      BY <2>2, KnownMode DEF PartitionInv, SerializerInv
    <3>2. Given = visible[0]
      BY <3>1, ElemsEmpty DEF Given, Writing
    <3>3. CASE PostprocessFailed
      <4>1. mode \in {"collect", "joined"} => visible[0] = {}
        BY <3>2, <3>3 DEF PostprocessFailed, FlowInv, Early
      <4>2. mode \in {"collect", "joined"}
        BY <3>1, <3>3 DEF PostprocessFailed, FlowInv, PhaseInv, ThreadType
      <4> QED
        BY <3>3, <4>1, <4>2
    <3>4. CASE ~PostprocessFailed
      <4>1. main \in {"check", "index", "sidecars", "join", "finalize"}
        BY <3>1, <3>4 DEF PostprocessFailed, SerializerInv, MainHoldsSender, PhaseInv, ThreadType, Places
      <4>2. \A p \in Producer : drain[p] = "ok" /\ stream[p] = "eof" /\ Held(p) = {}
        BY <4>1 DEF PhaseInv, DrainInv, Held
      <4>3. \A p \in Producer : Got(p) = Produced(p)
        BY <4>2 DEF StreamInv, Got, Produced
      <4>4. unsent = {} /\ main \notin Early
        BY <4>1 DEF FlowInv, Early
      <4>5. \A p \in Producer : Got(p) \subseteq visible[0]
        BY <3>1, <3>2, <4>2, <4>4 DEF FlowInv, ThreadType
      <4> QED
        BY <3>4, <4>2, <4>3, <4>5
    <3> QED
      BY <3>3, <3>4
  <2> QED
    BY <2>1, <2>2 DEF ManifestLast
<1>2. RunInv => IndexMeansSuccess
  <2> SUFFICES ASSUME RunInv, index # {0} PROVE IndexMeansSuccess
    BY DEF IndexMeansSuccess
  <2> USE DEF RunInv, TypeOK
  <2>1. main \in {"sidecars", "join", "finalize"} /\ mode = "partition"
    BY DEF PartitionInv
  <2>2. errors = {} /\ \A p \in Producer : drain[p] = "ok"
    BY <2>1 DEF PhaseInv
  <2>3. \A p \in Producer : verdict[p] = "ok"
    BY <2>2 DEF DrainInv, StreamInv, StreamType, Verdicts
  <2>4. \A p \in index : status[p] = "complete"
    BY <2>1 DEF PartitionInv
  <2> QED
    BY <2>3, <2>4 DEF IndexMeansSuccess
<1>3. RunInv => SidecarMeansSuccess
  <2> SUFFICES ASSUME RunInv, delivered # {} PROVE \A p \in Producer : verdict[p] = "ok"
    BY DEF SidecarMeansSuccess
  <2> USE DEF RunInv, TypeOK
  <2>1. errors = {} /\ \A p \in Producer : drain[p] = "ok"
    BY DEF SidecarInv, PhaseInv
  <2> QED
    BY <2>1 DEF DrainInv, StreamInv, StreamType, Verdicts
<1> QED
  BY <1>1, <1>2, <1>3, RunInvariant, PTL DEF MarkersTellTheTruth
=============================================================================
