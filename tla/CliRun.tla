------------------------------- MODULE CliRun -------------------------------
(***************************************************************************)
(* One run of the command line program from the start of the produce stage *)
(* to the exit of the process: the main thread of `main`, one drain thread *)
(* per producer, and the LBD serializer thread, over the batch streams of  *)
(* the produce stage (BatchStreams, which ProducerPool implements).        *)
(*                                                                         *)
(* `mode` is how batches travel to the output:                             *)
(*   "stream"     chunked N-Quads, no postprocessor: every drain thread    *)
(*                forwards to the serializer's bounded channel;            *)
(*   "partition"  chunked N-Quads with partitioning=producers: every drain *)
(*                thread owns a chunk writer, `main` publishes an index;   *)
(*   "collect"    chunked N-Quads after a postprocessor: drains collect,   *)
(*                `main` postprocesses and sends all;                      *)
(*   "joined"     joined Turtle and un-chunked N-Quads: as "collect", but  *)
(*                into one file that has its final name from the start and *)
(*                no manifest, through a buffer nobody flushes;            *)
(*   "separate"   Turtle with layout=separate: drains collect, `main`      *)
(*                writes one file per graph itself.                        *)
(***************************************************************************)
EXTENDS BatchStreams, FiniteSets

CONSTANTS IfcOwl,    \* the IfcOWL producer, if it is active: {} or a singleton
          Sidecar,   \* the producer that makes a derived file: {} or a singleton
          Modes,     \* the modes to run, among AllModes
          SerCap,    \* SERIALIZER_CHANNEL_CAPACITY
          MayFail    \* whether file operations and the postprocessor may fail

AllModes == {"stream", "partition", "collect", "joined", "separate"}
\* The modes in which the serializer thread writes, and those in which the
\* drain threads collect.
Serialized == {"stream", "collect", "joined"}
Collecting == {"collect", "joined", "separate"}

ASSUME RunAssumption ==
  /\ IfcOwl \subseteq Producer
  /\ \A p, q \in IfcOwl : p = q
  /\ Sidecar \subseteq Producer
  /\ \A p, q \in Sidecar : p = q
  /\ Modes \subseteq AllModes
  /\ SerCap \in Nat \ {0}
  /\ MayFail \in BOOLEAN

\* Phase 1 runs every producer but IfcOWL, phase 2 runs IfcOWL alone.
Others == Producer \ IfcOwl

\* A batch: producer and number.  The postprocessor's batch is <<0, 1>>.
Batch == ({0} \cup Producer) \X Nat
\* Writers: 0 is the serializer thread's, p the one of p's drain thread; in
\* "separate" w is the file of the graph that producer w names.
Writer == {0} \cup Producer

VARIABLES
  mode,     \* how batches travel, set by the options of the run
  main,     \* where the main thread is
  exit,     \* what `main` returned: "none" until it does, then "ok" or "err"
  alive,    \* the process still exists
  drain,    \* drain[p]: the drain thread of p
  hand,     \* hand[p]: the batch the drain thread of p has in its hands
  closed,   \* producers whose drain has found the serializer's channel closed
  chan,     \* the bounded channel to the serializer thread
  ser,      \* the serializer thread
  serHand,  \* the batch the serializer thread has in its hands
  unsent,   \* batches `main` still has to send or to write
  pending, visible, status,  \* pending[w], ...: the output of writer w
  index,    \* producers listed in the published partition manifest, {0} if none
  delivered \* producers whose derived file is in the output

mainVars == <<mode, main, exit, alive>>
drainVars == <<drain, hand, closed>>
serVars == <<chan, ser, serHand>>
outVars == <<pending, visible, status>>
runVars == <<mode, main, exit, alive, drain, hand, closed, chan, ser, serHand, unsent,
             pending, visible, status, index, delivered>>
vars == <<streamVars, runVars>>

None == <<>>

Init ==
  /\ StreamsInit
  /\ mode \in Modes
  /\ main = "spawn1"
  /\ exit = "none"
  /\ alive = TRUE
  /\ drain = [p \in Producer |-> "off"]
  /\ hand = [p \in Producer |-> None]
  /\ closed = {}
  /\ chan = <<>>
  /\ ser = "recv"
  /\ serHand = None
  /\ unsent = {}
  /\ pending = [w \in Writer |-> {}]
  /\ visible = [w \in Writer |-> {}]
  /\ status = [w \in Writer |-> "writing"]
  /\ index = {0}
  /\ delivered = {}
-----------------------------------------------------------------------------
(* Output of writer w.  A batch is where its last line is: the chunk writer *)
(* rotates, if at all, before a line, so a batch stays behind when the      *)
(* chunks before it are published.  In "joined" what is pending is in the   *)
(* buffer, which writes what it holds to the file when it is full.          *)
WriteBatch(w, b) ==
  /\ \/ /\ pending' = [pending EXCEPT ![w] = @ \cup {b}]
        /\ UNCHANGED visible
     \/ /\ visible' = [visible EXCEPT ![w] = @ \cup pending[w]]
        /\ pending' = [pending EXCEPT ![w] = {b}]
  /\ UNCHANGED status

PublishRest(w) ==
  /\ pending[w] # {}
  /\ visible' = [visible EXCEPT ![w] = @ \cup pending[w]]
  /\ pending' = [pending EXCEPT ![w] = {}]
  /\ UNCHANGED status

\* Mutant of PublishManifest: the last chunk is not closed first.
PublishManifestEarly(w) ==
  /\ status' = [status EXCEPT ![w] = "complete"]
  /\ UNCHANGED <<pending, visible>>

PublishManifest(w) ==
  /\ pending[w] = {}
  /\ status' = [status EXCEPT ![w] = "complete"]
  /\ UNCHANGED <<pending, visible>>

\* Of what the buffer of w held, `kept` reaches the file.
Lands(w, kept) ==
  /\ visible' = [visible EXCEPT ![w] = @ \cup kept]
  /\ pending' = [pending EXCEPT ![w] = @ \ kept]

\* An operation returns an error.  A buffer is dropped with the writer and
\* tries once more to write what it holds.
WriterFails(w) ==
  /\ MayFail
  /\ status' = [status EXCEPT ![w] = "failed"]
  /\ IF mode = "joined" THEN \E kept \in SUBSET pending[w] : Lands(w, kept)
     ELSE UNCHANGED <<pending, visible>>

\* The end of "joined": the BufWriter goes out of scope without a flush.  Its
\* destructor writes what it holds and ignores the error.
DropBuffer(w) ==
  \/ /\ Lands(w, pending[w])
     /\ status' = [status EXCEPT ![w] = "written"]
  \/ /\ MayFail
     /\ \E kept \in SUBSET pending[w] : Lands(w, kept)
     /\ status' = [status EXCEPT ![w] = "cut"]

-----------------------------------------------------------------------------
(* The producers, once `main` has spawned their phase.                     *)

Spawned(p) ==
  IF p \in IfcOwl THEN main \notin {"spawn1", "drain1", "spawn2"} ELSE main # "spawn1"

ProducerStep(p) ==
  /\ alive
  /\ Spawned(p)
  /\ Emit(p) \/ Return(p) \/ Record(p)
  /\ UNCHANGED runVars

-----------------------------------------------------------------------------
(* drain_producer_receivers and its partitioned variant.                   *)

\* `for batch in receiver`: a batch goes to `hand`, unless the thread only
\* keeps draining ("stream" after a failed send, "partition" after a failure)
\* or collects (the collected batches are `received`).
DrainTake(p) ==
  /\ alive
  /\ drain[p] = "recv"
  /\ Deliver(p)
  /\ IF mode \in Collecting \/ p \in closed \/ status[p] = "failed"
     THEN UNCHANGED <<drain, hand>>
     ELSE /\ drain' = [drain EXCEPT ![p] = "holding"]
          /\ hand' = [hand EXCEPT ![p] = <<p, Len(received[p]) + 1>>]
  /\ UNCHANGED <<mainVars, closed, serVars, unsent, outVars, index, delivered>>

ReceiverAlive == ser \notin {"ok", "err"}

DrainForward(p) ==
  /\ alive
  /\ mode = "stream"
  /\ drain[p] = "holding"
  /\ ReceiverAlive
  /\ Len(chan) < SerCap
  /\ chan' = Append(chan, hand[p])
  /\ drain' = [drain EXCEPT ![p] = "recv"]
  /\ hand' = [hand EXCEPT ![p] = None]
  /\ UNCHANGED <<streamVars, mainVars, closed, ser, serHand, unsent, outVars, index, delivered>>

DrainClosed(p) ==
  /\ alive
  /\ mode = "stream"
  /\ drain[p] = "holding"
  /\ ~ReceiverAlive
  /\ closed' = closed \cup {p}
  /\ drain' = [drain EXCEPT ![p] = "recv"]
  /\ hand' = [hand EXCEPT ![p] = None]
  /\ UNCHANGED <<streamVars, mainVars, serVars, unsent, outVars, index, delivered>>

DrainWrite(p) ==
  /\ alive
  /\ mode = "partition"
  /\ drain[p] = "holding"
  /\ WriteBatch(p, hand[p]) \/ WriterFails(p)
  /\ drain' = [drain EXCEPT ![p] = "recv"]
  /\ hand' = [hand EXCEPT ![p] = None]
  /\ UNCHANGED <<streamVars, mainVars, closed, serVars, unsent, index, delivered>>

\* The receiver loop ends.  A partition that got a batch is finished; one
\* that got none has no writer.
DrainEnds(p) ==
  /\ alive
  /\ drain[p] = "recv"
  /\ EndOfStream(p)
  /\ drain' = [drain EXCEPT ![p] =
       IF mode # "partition" \/ received[p] = <<>> THEN "ok"
       ELSE IF status[p] = "failed" THEN "err" ELSE "finish"]
  /\ UNCHANGED <<mainVars, hand, closed, serVars, unsent, outVars, index, delivered>>

\* QuadChunkWriter::finish on the partition's writer.
DrainFinish(p) ==
  /\ alive
  /\ drain[p] = "finish"
  /\ \/ PublishRest(p) /\ UNCHANGED drain
     \/ PublishManifest(p) /\ drain' = [drain EXCEPT ![p] = "ok"]
     \/ WriterFails(p) /\ drain' = [drain EXCEPT ![p] = "err"]
  /\ UNCHANGED <<streamVars, mainVars, hand, closed, serVars, unsent, index, delivered>>

DrainThread(p) ==
  \/ DrainTake(p) \/ DrainForward(p) \/ DrainClosed(p) \/ DrainWrite(p)
  \/ DrainEnds(p) \/ DrainFinish(p)

-----------------------------------------------------------------------------
(* The LBD serializer thread.                                              *)

\* partitioning=producers, layout=separate: nothing to serialize here.
SerNothingToDo ==
  /\ alive
  /\ mode \in {"partition", "separate"}
  /\ ser = "recv"
  /\ ser' = "ok"
  /\ UNCHANGED <<streamVars, mainVars, drainVars, chan, serHand, unsent, outVars, index, delivered>>

SerTake ==
  /\ alive
  /\ mode \in Serialized
  /\ ser = "recv"
  /\ chan # <<>>
  /\ serHand' = Head(chan)
  /\ chan' = Tail(chan)
  /\ ser' = "writing"
  /\ UNCHANGED <<streamVars, mainVars, drainVars, unsent, outVars, index, delivered>>

\* On an error the thread returns; the receiver goes with it.
SerWrite ==
  /\ alive
  /\ ser = "writing"
  /\ serHand' = None
  /\ \/ WriteBatch(0, serHand) /\ ser' = "recv" /\ UNCHANGED chan
     \/ WriterFails(0) /\ ser' = "err" /\ chan' = <<>>
  /\ UNCHANGED <<streamVars, mainVars, drainVars, unsent, index, delivered>>

\* Mutant of MainHoldsSender: `main` forgets to drop its sender.
MainKeepsSender == exit = "none"

\* `main` holds a sender (converter_lbd_sender) until the batches are routed,
\* or until it returns early.
MainHoldsSender ==
  exit = "none" /\ main \in {"spawn1", "drain1", "spawn2", "drain2", "post", "route"}

\* Each drain thread holds a clone in "stream".
DrainHoldsSender(p) == mode = "stream" /\ drain[p] \in {"recv", "holding"}

SerEof ==
  /\ alive
  /\ mode \in Serialized
  /\ ser = "recv"
  /\ chan = <<>>
  /\ ~MainHoldsSender
  /\ \A p \in Producer : ~DrainHoldsSender(p)
  /\ ser' = "finish"
  /\ UNCHANGED <<streamVars, mainVars, drainVars, chan, serHand, unsent, outVars, index, delivered>>

SerFinish ==
  /\ alive
  /\ ser = "finish"
  /\ \/ mode # "joined" /\ PublishRest(0) /\ UNCHANGED ser
     \/ mode # "joined" /\ PublishManifest(0) /\ ser' = "ok"
     \/ mode = "joined" /\ DropBuffer(0) /\ ser' = "ok"
     \/ WriterFails(0) /\ ser' = "err"
  /\ UNCHANGED <<streamVars, mainVars, drainVars, chan, serHand, unsent, index, delivered>>

SerThread == SerNothingToDo \/ SerTake \/ SerWrite \/ SerEof \/ SerFinish
-----------------------------------------------------------------------------
(* The main thread.                                                        *)
At(l) == exit = "none" /\ main = l
Goto(l) == main' = l /\ UNCHANGED <<mode, exit, alive>>
ReturnErr == exit' = "err" /\ UNCHANGED <<mode, main, alive>>

MainSpawn ==
  /\ \/ At("spawn1") /\ Goto("drain1") /\ drain' = [p \in Producer |->
            IF p \in Others THEN "recv" ELSE "off"]
     \/ At("spawn2") /\ Goto("drain2") /\ drain' = [p \in Producer |->
            IF p \in IfcOwl THEN "recv" ELSE drain[p]]
  /\ UNCHANGED <<streamVars, hand, closed, serVars, unsent, outVars, index, delivered>>

\* The drain threads of a phase are joined in order.  In "partition" the first
\* error returns at once; otherwise all are joined before `closed` is looked at.
AfterDrains(P, next) ==
  IF mode = "partition"
  THEN \/ (\A p \in P : drain[p] = "ok") /\ Goto(next)
       \/ (\E p \in P : drain[p] = "err" /\ \A q \in P : q < p => drain[q] = "ok") /\ ReturnErr
  ELSE /\ \A p \in P : drain[p] = "ok"
       /\ IF closed \cap P = {} THEN Goto(next) ELSE ReturnErr

MainJoinsDrains ==
  /\ \/ At("drain1") /\ AfterDrains(Others, "spawn2")
     \/ At("drain2") /\ AfterDrains(IfcOwl, "post")
  /\ UNCHANGED <<streamVars, drainVars, serVars, unsent, outVars, index, delivered>>

\* All collected batches.
Collected == UNION {{<<p, received[p][i]>> : i \in 1..Len(received[p])} : p \in Producer}

\* The postprocessor adds a batch of its own, adds none, or fails.
MainPostprocess ==
  /\ At("post")
  /\ IF mode \notin Collecting
     THEN Goto("route") /\ UNCHANGED unsent
     ELSE \/ unsent' = Collected /\ Goto("route")
          \/ unsent' = Collected \cup {<<0, 1>>} /\ Goto("route")
          \/ MayFail /\ ReturnErr /\ UNCHANGED unsent
  /\ UNCHANGED <<streamVars, drainVars, serVars, outVars, index, delivered>>

\* The order in which the drains are joined, IfcOWL's last, and within one of
\* them; the postprocessor's batch comes after all others.
Turn(b) == IF b[1] = 0 THEN 3 ELSE IF b[1] \in IfcOwl THEN 2 ELSE 1
Before(b, c) ==
  \/ Turn(b) < Turn(c)
  \/ Turn(b) = Turn(c) /\ b[1] < c[1]
  \/ b[1] = c[1] /\ b[2] <= c[2]

\* `let _ = converter_lbd_sender.send(batch)`: a failed send is ignored, the
\* serializer's own error shows when it is joined.  The sender is dropped last.
MainRoute ==
  /\ At("route")
  /\ \/ unsent = {} /\ Goto("check") /\ UNCHANGED <<chan, unsent>>
     \/ \E b \in unsent :
          /\ mode # "separate"
          /\ \A c \in unsent : Before(b, c)
          /\ unsent' = unsent \ {b}
          /\ IF ReceiverAlive
             THEN Len(chan) < SerCap /\ chan' = Append(chan, b)
             ELSE UNCHANGED chan
          /\ UNCHANGED mainVars
  /\ UNCHANGED <<streamVars, drainVars, ser, serHand, outVars, index, delivered>>

\* layout=separate: the batches of one graph after the other are written to its
\* file.  The file has its own name from the start: an error leaves a part.
MainWritesGraph ==
  /\ At("route")
  /\ mode = "separate"
  /\ \E g \in Writer : LET graph == {b \in unsent : b[1] = g} IN
       /\ graph # {}
       /\ \/ /\ visible' = [visible EXCEPT ![g] = graph]
             /\ unsent' = unsent \ graph
             /\ UNCHANGED mainVars
          \/ /\ MayFail
             /\ \E part \in SUBSET graph : visible' = [visible EXCEPT ![g] = part]
             /\ ReturnErr
             /\ UNCHANGED unsent
  /\ UNCHANGED <<streamVars, drainVars, serVars, pending, status, index, delivered>>

\* Every recorded error aborts the run, whatever the producer's FailurePolicy.
MainChecksErrors ==
  /\ At("check")
  /\ IF errors # {} THEN ReturnErr
     ELSE IF mode = "partition" THEN Goto("index") ELSE Goto("sidecars")
  /\ UNCHANGED <<streamVars, drainVars, serVars, unsent, outVars, index, delivered>>

\* write_producer_partition_manifest.
MainPublishesIndex ==
  /\ At("index")
  /\ \/ index' = {p \in Producer : status[p] = "complete"} /\ Goto("sidecars")
     \/ MayFail /\ ReturnErr /\ UNCHANGED index
  /\ UNCHANGED <<streamVars, drainVars, serVars, unsent, outVars, delivered>>

\* Derived files sent so far: a producer sends its file right before `produce`
\* returns Ok.  There is room for one, so this never waits.
Sent == {p \in Sidecar : verdict[p] = "ok"}

\* accept_derived_file for what the channel holds; if it fails, the file may be
\* there in part.
MainDeliversSidecars ==
  /\ At("sidecars")
  /\ \/ delivered' = Sent /\ Goto("join")
     \/ MayFail /\ Sent # {} /\ ReturnErr /\ delivered' \in {delivered, Sent}
  /\ UNCHANGED <<streamVars, drainVars, serVars, unsent, outVars, index>>

\* Mutant of MainJoinsSerializer: the outcome of the thread is not looked at.
MainIgnoresSerializer ==
  /\ At("join")
  /\ ser \in {"ok", "err"}
  /\ Goto("finalize")
  /\ UNCHANGED <<streamVars, drainVars, serVars, unsent, outVars, index, delivered>>

MainJoinsSerializer ==
  /\ At("join")
  /\ \/ ser = "ok" /\ Goto("finalize")
     \/ ser = "err" /\ ReturnErr
  /\ UNCHANGED <<streamVars, drainVars, serVars, unsent, outVars, index, delivered>>

\* Threads that hold a clone of the export session.
SessionHolders ==
  (IF ser \in {"ok", "err"} THEN {} ELSE {0}) \cup
  {p \in Producer : mode = "partition" /\ drain[p] \in {"recv", "holding", "finish"}}

\* Files the session still has staged: chunks that are not published yet.
Staged(w) == IF mode = "joined" THEN {} ELSE pending[w]

\* session::finalize takes the session out of its Arc, which fails while
\* another thread holds a clone, and fails when staged files are left.
MainFinalizes ==
  /\ At("finalize")
  /\ exit' = IF SessionHolders = {} /\ \A w \in Writer : Staged(w) = {} THEN "ok" ELSE "err"
  /\ UNCHANGED <<streamVars, mode, main, alive, drainVars, serVars, unsent, outVars, index, delivered>>

MainThread ==
  \/ MainSpawn \/ MainJoinsDrains \/ MainPostprocess \/ MainRoute \/ MainWritesGraph
  \/ MainChecksErrors \/ MainPublishesIndex \/ MainDeliversSidecars
  \/ MainJoinsSerializer \/ MainFinalizes

\* After `main` has returned the other threads run on until the process exits.
ProcessExits ==
  /\ alive
  /\ exit # "none"
  /\ alive' = FALSE
  /\ UNCHANGED <<streamVars, mode, main, exit, drainVars, serVars, unsent, outVars, index, delivered>>

Next ==
  \/ MainThread \/ SerThread \/ ProcessExits
  \/ \E p \in Producer : ProducerStep(p) \/ DrainThread(p)
  \/ ~alive /\ UNCHANGED vars

Spec == Init /\ [][Next]_vars

(* Every thread is scheduled, and a producer comes to an end: that it does,   *)
(* as long as its receiver is drained, is StageEnds of ProducerPool.          *)
Fairness ==
  /\ WF_vars(MainThread)
  /\ WF_vars(SerThread)
  /\ \A p \in Producer : WF_vars(ProducerStep(p)) /\ WF_vars(DrainThread(p))

FairSpec == Spec /\ Fairness
-----------------------------------------------------------------------------
Places == {"spawn1", "drain1", "spawn2", "drain2", "post", "route", "check", "index",
           "sidecars", "join", "finalize"}

\* The streams, the threads with what they hold, and the output have their types.
StreamType ==
  /\ produced \in [Producer -> Nat]
  /\ verdict \in [Producer -> Verdicts]
  /\ errors \subseteq Producer
  /\ received \in [Producer -> Seq(Nat)]
  /\ stream \in [Producer -> {"open", "eof"}]
ThreadType ==
  /\ mode \in Modes
  /\ main \in Places
  /\ exit \in {"none", "ok", "err"}
  /\ alive \in BOOLEAN
  /\ drain \in [Producer -> {"off", "recv", "holding", "finish", "ok", "err"}]
  /\ hand \in [Producer -> {None} \cup Batch]
  /\ \A p \in Producer : drain[p] = "holding" => hand[p] \in Batch
  /\ closed \subseteq Producer
  /\ chan \in Seq(Batch)
  /\ ser \in {"recv", "writing", "finish", "ok", "err"}
  /\ ser = "writing" => serHand \in Batch
  /\ unsent \subseteq Batch
OutType ==
  /\ pending \in [Writer -> SUBSET Batch]
  /\ visible \in [Writer -> SUBSET Batch]
  /\ status \in [Writer -> {"writing", "complete", "failed", "written", "cut"}]
  /\ index \subseteq Writer
  /\ delivered \subseteq Sidecar
TypeOK == StreamType /\ ThreadType /\ OutType

Produced(p) == {<<p, i>> : i \in 1..produced[p]}
AllProduced == UNION {Produced(p) : p \in Producer}

(* A run that exits with success has produced everything and published all    *)
(* of it, each batch where its mode says, behind a manifest if there is one,  *)
(* and the derived file: no error of a producer, a drain, the serializer      *)
(* thread or a file operation gets lost, with one exception.  In "joined" the *)
(* last write is that of the buffer's destructor, whose error nobody sees:    *)
(* the run then succeeds with a file that is cut, but only by what the buffer *)
(* still held.                                                                *)
SuccessMeansComplete ==
  exit = "ok" =>
    /\ \A p \in Producer : verdict[p] = "ok"
    /\ delivered = Sidecar
    /\ mode \in {"partition", "separate"} => \A p \in Producer : visible[p] = Produced(p)
    /\ mode = "partition" => index = {p \in Producer : produced[p] > 0}
    /\ mode \in Serialized =>
         \/ /\ status[0] = (IF mode = "joined" THEN "written" ELSE "complete")
            /\ visible[0] \ {<<0, 1>>} = AllProduced
         \/ /\ mode = "joined"
            /\ status[0] = "cut"
            /\ (visible[0] \cup pending[0]) \ {<<0, 1>>} = AllProduced

(* The manifest of a prefix appears only when every batch that was ever       *)
(* produced for it is visible and its producers are over: no chunk follows    *)
(* its own manifest.  One case is excepted: when the postprocessor fails,     *)
(* `main` returns, and the serializer thread takes the dropped sender for the *)
(* end of its input and may publish a manifest without any chunk.             *)
PostprocessFailed == exit = "err" /\ main = "post"
ManifestLast ==
  /\ status[0] = "complete" =>
       IF PostprocessFailed THEN visible[0] = {}
       ELSE \A p \in Producer : stream[p] = "eof" /\ Produced(p) \subseteq visible[0]
  /\ \A p \in Producer : status[p] = "complete" =>
       stream[p] = "eof" /\ visible[p] = Produced(p)

(* The index over the partitions is published only in a run in which every    *)
(* producer succeeded, and every manifest it lists is there.                  *)
IndexMeansSuccess ==
  index # {0} =>
    /\ \A p \in Producer : verdict[p] = "ok"
    /\ \A p \in index : status[p] = "complete"

(* So is the derived file, though its producer is done long before.           *)
SidecarMeansSuccess ==
  delivered # {} => \A p \in Producer : verdict[p] = "ok"

(* What a loader takes for the sign that its data is whole - the manifest of *)
(* a prefix, the index over all of them, the model beside the graph - never   *)
(* comes too early.                                                           *)
MarkersTellTheTruth == ManifestLast /\ IndexMeansSuccess /\ SidecarMeansSuccess

(* Every run comes to an end: `main`, the drains and the serializer thread    *)
(* never wait for each other for good, also when the serializer fails with    *)
(* its channel full.                                                          *)
RunEnds == <>(exit # "none")
=============================================================================
