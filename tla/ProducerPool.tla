---------------------------- MODULE ProducerPool ----------------------------
(***************************************************************************)
(* The produce stage of lbd-pipeline: `spawn_producers` puts the active    *)
(* producers in one shared queue and starts at most `max_concurrent`       *)
(* chains over it; a chain runs a producer as a rayon job, records its     *)
(* error, drops its sender and pops the next one (`start_next_producer`).  *)
(*                                                                         *)
(* Inside `produce` a producer writes raw batches to a bounded channel of  *)
(* its own; `forward_as_tagged`, an OS thread on native targets, moves     *)
(* them to the bounded channel that `spawn_producers` returned, for which  *)
(* it holds a second sender.  The receiver sees the end of the stream only *)
(* when both senders are gone.                                             *)
(*                                                                         *)
(* A rayon job that waits for parallel work of its own (par_iter in the    *)
(* bSDD producer, rayon::scope in IfcOWL) does not idle: its thread may    *)
(* pick up another queued job and run it to its end on top of the waiting  *)
(* one.  `host` keeps which producer is stacked on which.                  *)
(***************************************************************************)
EXTENDS Naturals, Sequences, FiniteSets

CONSTANTS N,           \* number of active producers, in activation order
          PoolThreads, \* rayon::current_num_threads()
          RawCap,      \* capacity of a producer's raw channel
          ChanCap,     \* chan_cap: capacity of a receiver's channel
          MaxBatches,  \* bound of the model: batches one producer may emit
          MayDrop      \* whether the consumer may drop a receiver before its end

ASSUME PoolAssumption ==
  /\ N \in Nat
  /\ PoolThreads \in Nat \ {0}
  /\ RawCap \in Nat \ {0}
  /\ ChanCap \in Nat \ {0}
  /\ MaxBatches \in Nat
  /\ MayDrop \in BOOLEAN

Producer == 1..N

\* The number of chains: max(1, (max(threads, 2) - 1) / 2).
MaxConcurrent ==
  LET half == ((IF PoolThreads < 2 THEN 2 ELSE PoolThreads) - 1) \div 2
  IN  IF half < 1 THEN 1 ELSE half

VARIABLES
  front,    \* the queue holds the producers front .. N
  kicks,    \* how many chains the loop of spawn_producers has started
  pc,       \* pc[p]: where the rayon job of p is
  host,     \* host[p]: the waiting producer p is stacked on, 0 for a free thread
  forked,   \* forked[p]: p has used its parallel section
  produced, \* produced[p]: number of batches sent to the raw channel
  verdict,  \* verdict[p]: result of `produce`
  errors,   \* producers with an entry in producer_errors
  raw,      \* raw[p]: contents of the raw channel
  hop,      \* hop[p]: the forwarder: "none", "live" or "exited"
  held,     \* held[p]: the batch the forwarder has taken and not yet sent, 0 if none
  tagged,   \* tagged[p]: contents of the channel spawn_producers returned
  received, \* received[p]: the batches the drain side has taken
  stream    \* stream[p]: "open", "eof" or "gone", the drain side's receiver

poolVars == <<front, kicks, pc, host, forked>>
chanVars == <<produced, raw, hop, held, tagged, received, stream>>
vars == <<front, kicks, pc, host, forked, produced, verdict, errors, raw, hop,
          held, tagged, received, stream>>

PCs == {"queued", "spawned", "entered", "producing", "waiting", "sending",
        "returned", "recorded", "closed", "done"}

\* Producers whose rayon job has been spawned and has not run to its end.
Active == {p \in Producer : pc[p] \notin {"queued", "done"}}
\* Producers whose job is on a pool thread.
OnThread == {p \in Active : pc[p] # "spawned"}
\* Each stack of jobs occupies one thread: its bottom job has no host.
Occupied == {p \in OnThread : host[p] = 0}

Init ==
  /\ front    = 1
  /\ kicks    = 0
  /\ pc       = [p \in Producer |-> "queued"]
  /\ host     = [p \in Producer |-> 0]
  /\ forked   = [p \in Producer |-> FALSE]
  /\ produced = [p \in Producer |-> 0]
  /\ verdict  = [p \in Producer |-> "pending"]
  /\ errors   = {}
  /\ raw      = [p \in Producer |-> <<>>]
  /\ hop      = [p \in Producer |-> "none"]
  /\ held     = [p \in Producer |-> 0]
  /\ tagged   = [p \in Producer |-> <<>>]
  /\ received = [p \in Producer |-> <<>>]
  /\ stream   = [p \in Producer |-> "open"]

-----------------------------------------------------------------------------
(* start_next_producer pops the front of the queue and spawns its job; on  *)
(* an empty queue it does nothing and the chain ends.  `jobs` is the pc    *)
(* function the caller leaves behind.                                      *)
StartNextProducer(jobs) ==
  IF front <= N
  THEN /\ pc' = [jobs EXCEPT ![front] = "spawned"]
       /\ front' = front + 1
  ELSE /\ pc' = jobs
       /\ front' = front

\* One round of `for _ in 0..max_concurrent` in spawn_producers.
Kick ==
  /\ kicks < MaxConcurrent
  /\ kicks' = kicks + 1
  /\ StartNextProducer(pc)
  /\ UNCHANGED <<host, forked, verdict, errors, chanVars>>

\* An idle pool thread takes the job of p.
RunOnFreeThread(p) ==
  /\ pc[p] = "spawned"
  /\ Cardinality(Occupied) < PoolThreads
  /\ pc' = [pc EXCEPT ![p] = "entered"]
  /\ UNCHANGED <<front, kicks, host, forked, verdict, errors, chanVars>>

\* A thread that waits in q's parallel section takes the job of p meanwhile.
RunWhileWaiting(p, q) ==
  /\ pc[p] = "spawned"
  /\ pc[q] = "waiting"
  /\ \A r \in OnThread : host[r] # q
  /\ pc' = [pc EXCEPT ![p] = "entered"]
  /\ host' = [host EXCEPT ![p] = q]
  /\ UNCHANGED <<front, kicks, forked, verdict, errors, chanVars>>

\* `produce` finds what it needs in the context, opens its raw channel and
\* starts the forwarder.
SpawnForwarder(p) ==
  /\ pc[p] = "entered"
  /\ pc' = [pc EXCEPT ![p] = "producing"]
  /\ hop' = [hop EXCEPT ![p] = "live"]
  /\ UNCHANGED <<front, kicks, host, forked, produced, verdict, errors, raw,
                 held, tagged, received, stream>>

\* `produce` misses something in the context and returns before it starts one.
FailEarly(p) ==
  /\ pc[p] = "entered"
  /\ pc' = [pc EXCEPT ![p] = "returned"]
  /\ verdict' = [verdict EXCEPT ![p] = "err"]
  /\ UNCHANGED <<front, kicks, host, forked, errors, chanVars>>

Fork(p) ==
  /\ pc[p] = "producing"
  /\ ~forked[p]
  /\ forked' = [forked EXCEPT ![p] = TRUE]
  /\ pc' = [pc EXCEPT ![p] = "waiting"]
  /\ UNCHANGED <<front, kicks, host, verdict, errors, chanVars>>

\* The parallel section is over, and so is every job stacked on p meanwhile.
Join(p) ==
  /\ pc[p] = "waiting"
  /\ \A r \in OnThread : host[r] # p
  /\ pc' = [pc EXCEPT ![p] = "producing"]
  /\ UNCHANGED <<front, kicks, host, forked, verdict, errors, chanVars>>

\* The next batch is ready: from here `produce` is inside a blocking send.
BeginSend(p) ==
  /\ pc[p] = "producing"
  /\ produced[p] < MaxBatches
  /\ pc' = [pc EXCEPT ![p] = "sending"]
  /\ UNCHANGED <<front, kicks, host, forked, verdict, errors, chanVars>>

SendRaw(p) ==
  /\ pc[p] = "sending"
  /\ hop[p] = "live"
  /\ Len(raw[p]) < RawCap
  /\ pc' = [pc EXCEPT ![p] = "producing"]
  /\ produced' = [produced EXCEPT ![p] = @ + 1]
  /\ raw' = [raw EXCEPT ![p] = Append(@, produced[p] + 1)]
  /\ UNCHANGED <<front, kicks, host, forked, verdict, errors, hop, held,
                 tagged, received, stream>>

\* The forwarder is gone and the raw receiver with it: the send fails and
\* `produce` returns that error.
SendFails(p) ==
  /\ pc[p] = "sending"
  /\ hop[p] = "exited"
  /\ pc' = [pc EXCEPT ![p] = "returned"]
  /\ verdict' = [verdict EXCEPT ![p] = "err"]
  /\ UNCHANGED <<front, kicks, host, forked, errors, chanVars>>

\* All triples are out, or `produce` fails for a reason of its own.
ReturnFromProduce(p) ==
  /\ pc[p] = "producing"
  /\ pc' = [pc EXCEPT ![p] = "returned"]
  /\ \E v \in {"ok", "err"} : verdict' = [verdict EXCEPT ![p] = v]
  /\ UNCHANGED <<front, kicks, host, forked, errors, chanVars>>

RecordProducerError(p) ==
  /\ pc[p] = "returned"
  /\ verdict[p] = "err"
  /\ errors' = errors \cup {p}
  /\ pc' = [pc EXCEPT ![p] = "recorded"]
  /\ UNCHANGED <<front, kicks, host, forked, verdict, chanVars>>

\* `drop(tx)`: only now may the receiver see the end of the stream.
DropSender(p) ==
  /\ pc[p] = "recorded" \/ (pc[p] = "returned" /\ verdict[p] = "ok")
  /\ pc' = [pc EXCEPT ![p] = "closed"]
  /\ UNCHANGED <<front, kicks, host, forked, verdict, errors, chanVars>>

\* Mutant of ContinueChain: a failed producer ends its chain.
ChainEndsOnError(p) ==
  /\ pc[p] = "closed"
  /\ IF verdict[p] = "ok"
     THEN StartNextProducer([pc EXCEPT ![p] = "done"])
     ELSE pc' = [pc EXCEPT ![p] = "done"] /\ front' = front
  /\ UNCHANGED <<kicks, host, forked, verdict, errors, chanVars>>

\* The last statement of the job: the chain goes on with the next producer.
ContinueChain(p) ==
  /\ pc[p] = "closed"
  /\ StartNextProducer([pc EXCEPT ![p] = "done"])
  /\ UNCHANGED <<kicks, host, forked, verdict, errors, chanVars>>

-----------------------------------------------------------------------------
(* forward_as_tagged: `for batch in raw_receiver { tagged_sender.send(..) }`. *)
ProduceIsOver(p) == pc[p] \in {"returned", "recorded", "closed", "done"}

HopTake(p) ==
  /\ hop[p] = "live"
  /\ held[p] = 0
  /\ raw[p] # <<>>
  /\ held' = [held EXCEPT ![p] = Head(raw[p])]
  /\ raw' = [raw EXCEPT ![p] = Tail(@)]
  /\ UNCHANGED <<poolVars, produced, verdict, errors, hop, tagged, received, stream>>

\* Blocks while the receiver's channel is full.
HopSend(p) ==
  /\ held[p] # 0
  /\ stream[p] # "gone"
  /\ Len(tagged[p]) < ChanCap
  /\ tagged' = [tagged EXCEPT ![p] = Append(@, held[p])]
  /\ held' = [held EXCEPT ![p] = 0]
  /\ UNCHANGED <<poolVars, produced, verdict, errors, raw, hop, received, stream>>

\* The receiver was dropped: the send fails, the loop breaks, and what is left
\* in the raw channel goes with its receiver.
HopBreak(p) ==
  /\ held[p] # 0
  /\ stream[p] = "gone"
  /\ hop' = [hop EXCEPT ![p] = "exited"]
  /\ held' = [held EXCEPT ![p] = 0]
  /\ raw' = [raw EXCEPT ![p] = <<>>]
  /\ UNCHANGED <<poolVars, produced, verdict, errors, tagged, received, stream>>

\* Mutant of HopExit: the loop stops when `produce` returns, not when the raw
\* channel is empty.
HopExitEarly(p) ==
  /\ hop[p] = "live"
  /\ held[p] = 0
  /\ ProduceIsOver(p)
  /\ hop' = [hop EXCEPT ![p] = "exited"]
  /\ raw' = [raw EXCEPT ![p] = <<>>]
  /\ UNCHANGED <<poolVars, produced, verdict, errors, held, tagged, received, stream>>

\* The raw sender is gone (`produce` has returned) and the channel is empty.
HopExit(p) ==
  /\ hop[p] = "live"
  /\ held[p] = 0
  /\ raw[p] = <<>>
  /\ ProduceIsOver(p)
  /\ hop' = [hop EXCEPT ![p] = "exited"]
  /\ UNCHANGED <<poolVars, produced, verdict, errors, raw, held, tagged, received, stream>>

-----------------------------------------------------------------------------
(* The drain side: one OS thread per receiver, `for batch in receiver`.    *)

Receive(p) ==
  /\ stream[p] = "open"
  /\ tagged[p] # <<>>
  /\ received' = [received EXCEPT ![p] = Append(@, Head(tagged[p]))]
  /\ tagged' = [tagged EXCEPT ![p] = Tail(@)]
  /\ UNCHANGED <<poolVars, produced, verdict, errors, raw, hop, held, stream>>

\* No sender of p's channel is left: the job has dropped its own, and the
\* forwarder, if there was one, has exited.
TaskSenderDropped(p) == pc[p] \in {"closed", "done"}
SendersGone(p) == TaskSenderDropped(p) /\ hop[p] # "live"

SeeEof(p) ==
  /\ stream[p] = "open"
  /\ tagged[p] = <<>>
  /\ SendersGone(p)
  /\ stream' = [stream EXCEPT ![p] = "eof"]
  /\ UNCHANGED <<poolVars, produced, verdict, errors, raw, hop, held, tagged, received>>

\* The consumer gives the receiver up (a serializer that returns its error).
DropReceiver(p) ==
  /\ MayDrop
  /\ stream[p] = "open"
  /\ stream' = [stream EXCEPT ![p] = "gone"]
  /\ tagged' = [tagged EXCEPT ![p] = <<>>]
  /\ UNCHANGED <<poolVars, produced, verdict, errors, raw, hop, held, received>>

JobStep(p) ==
  \/ SpawnForwarder(p) \/ FailEarly(p)
  \/ Join(p) \/ BeginSend(p) \/ SendRaw(p) \/ SendFails(p)
  \/ ReturnFromProduce(p)
  \/ RecordProducerError(p) \/ DropSender(p) \/ ContinueChain(p)
HopStep(p)   == HopTake(p) \/ HopSend(p) \/ HopBreak(p) \/ HopExit(p)
DrainStep(p) == Receive(p) \/ SeeEof(p)

Next ==
  \/ Kick
  \/ \E p \in Producer :
       \/ RunOnFreeThread(p)
       \/ \E q \in Producer : RunWhileWaiting(p, q)
       \/ JobStep(p) \/ Fork(p) \/ HopStep(p) \/ DrainStep(p) \/ DropReceiver(p)
  \* The stage has come to its end; the process goes on elsewhere.
  \/ /\ \A p \in Producer : pc[p] = "done" /\ stream[p] # "open" /\ hop[p] # "live"
     /\ kicks = MaxConcurrent
     /\ UNCHANGED vars

Spec == Init /\ [][Next]_vars

(* rayon runs a spawned job once a thread is free, OS threads are scheduled, *)
(* and `produce` works through a finite model.  Nothing forces a waiting     *)
(* thread to steal, a producer to fork, or a receiver to be dropped.         *)
Fairness ==
  /\ WF_vars(Kick)
  /\ \A p \in Producer :
       /\ WF_vars(RunOnFreeThread(p))
       /\ WF_vars(JobStep(p))
       /\ WF_vars(HopStep(p))
       /\ WF_vars(DrainStep(p))

FairSpec == Spec /\ Fairness
-----------------------------------------------------------------------------
TypeOK ==
  /\ front \in 1..(N + 1)
  /\ kicks \in 0..MaxConcurrent
  /\ pc \in [Producer -> PCs]
  /\ host \in [Producer -> 0..N]
  /\ forked \in [Producer -> BOOLEAN]
  /\ produced \in [Producer -> Nat]
  /\ verdict \in [Producer -> {"pending", "ok", "err"}]
  /\ errors \subseteq Producer
  /\ raw \in [Producer -> Seq(Nat)]
  /\ \A p \in Producer : Len(raw[p]) <= RawCap
  /\ hop \in [Producer -> {"none", "live", "exited"}]
  /\ held \in [Producer -> Nat]
  /\ tagged \in [Producer -> Seq(Nat)]
  /\ \A p \in Producer : Len(tagged[p]) <= ChanCap
  /\ received \in [Producer -> Seq(Nat)]
  /\ stream \in [Producer -> {"open", "eof", "gone"}]

(* The inductive invariant, in parts.  The job of p and its error:           *)
JobInv(p) ==
  /\ verdict[p] = "pending" <=> ~ProduceIsOver(p)
  /\ p \in errors <=> verdict[p] = "err" /\ pc[p] \in {"recorded", "closed", "done"}
  /\ pc[p] = "recorded" => verdict[p] = "err"
  /\ pc[p] \in {"queued", "spawned", "entered"} => hop[p] = "none"
  /\ pc[p] \in {"producing", "waiting", "sending"} => hop[p] # "none"
  /\ pc[p] = "sending" => produced[p] < MaxBatches
  /\ stream[p] = "eof" => SendersGone(p)

(* The forwarder of p and what it may still hold.                            *)
HopInv(p) ==
  /\ hop[p] = "none" => raw[p] = <<>> /\ produced[p] = 0
  /\ hop[p] # "live" => held[p] = 0 /\ raw[p] = <<>>
  /\ hop[p] = "exited" /\ stream[p] # "gone" => ProduceIsOver(p)
  /\ stream[p] # "open" => tagged[p] = <<>>

(* The raw channel, the forwarder's hands and the receiver's channel hold,    *)
(* one after the other, exactly the batches between what was received and     *)
(* what was produced.                                                         *)
InOrder(rec, tag) ==
  /\ \A i \in 1..Len(rec) : rec[i] = i
  /\ \A i \in 1..Len(tag) : tag[i] = Len(rec) + i

NothingLost(prod, rw, h, tag, rec) ==
  /\ \A i \in 1..Len(rw) : rw[i] = prod - Len(rw) + i
  /\ h = 0 => Len(rec) + Len(tag) = prod - Len(rw)
  /\ h # 0 => h = prod - Len(rw) /\ Len(rec) + Len(tag) = h - 1

FlowInv(p) ==
  /\ InOrder(received[p], tagged[p])
  /\ stream[p] # "gone" =>
       NothingLost(produced[p], raw[p], held[p], tagged[p], received[p])

PoolInv ==
  /\ TypeOK
  /\ \A p \in Producer : p >= front <=> pc[p] = "queued"
  /\ \A p \in Producer : JobInv(p) /\ HopInv(p) /\ FlowInv(p)
  /\ Cardinality(Active) <= kicks

(* At most max_concurrent rayon jobs of producers exist at any time, counting *)
(* the ones still waiting for a thread, however the loop that starts the      *)
(* chains interleaves with chains that already continue: the bound on which   *)
(* spawn_producers' "keeping at least one thread free" rests.                 *)
SlotBound == Cardinality(Active) <= MaxConcurrent

(* Whoever has seen the end of a receiver may rely on producer_errors: the    *)
(* producer has returned, and its error is recorded if and only if it failed. *)
(* main reads producer_errors right after the last drain thread is joined.    *)
ErrorsBeforeEof ==
  \A p \in Producer : stream[p] = "eof" =>
    /\ verdict[p] # "pending"
    /\ verdict[p] = "err" <=> p \in errors

(* The drain side gets every batch once and in order, and when it sees the    *)
(* end of the stream nothing is left in either channel or in the forwarder's  *)
(* hands.                                                                     *)
DeliveredInOrder ==
  \A p \in Producer :
    /\ \A i \in 1..Len(received[p]) : received[p][i] = i
    /\ stream[p] = "eof" => Len(received[p]) = produced[p]

(* The produce stage comes to its end whatever receivers are dropped on the   *)
(* way and whatever jobs waiting threads pick up: every producer runs to the  *)
(* end of its job, no forwarder stays behind, and no receiver stays open.     *)
StageEnds ==
  <>(\A p \in Producer : pc[p] = "done" /\ hop[p] # "live" /\ stream[p] # "open")

(* The produce stage implements the batch streams its users rely on.          *)
Streams == INSTANCE BatchStreams
ImplementsStreams == Streams!StreamsSpec
=============================================================================
