---------------------------- MODULE BrowserPool ----------------------------
(***************************************************************************)
(* The produce stage as the browser build runs it (ifc2lbd-wasm).  There   *)
(* are no OS threads to spawn: the forwarder of a producer and the relay   *)
(* that strips the tags of its batches (`to_raw_receiver`) are rayon jobs  *)
(* on the same pool as the producers.  The calling worker, which is not in *)
(* the pool, drains the relays' receivers one after the other: in the      *)
(* order of the queue, but for sorted joined Turtle, which drains RML      *)
(* before IfcOWL while the queue has IfcOWL first.                         *)
(*                                                                         *)
(* Batches of one producer cannot overtake each other here (ProducerPool   *)
(* keeps their numbers), so channels are counters.                         *)
(***************************************************************************)
EXTENDS Naturals, Sequences, SequencesExt, FiniteSets

CONSTANTS N,           \* number of active producers, in the order of the queue
          PoolThreads, \* threads given to initNeoThreadPool
          ChanCap,     \* chan_cap: capacity of every channel
          Orders,      \* the orders in which they may be drained, by place
          Batches,     \* Batches[p], bound of the model: batches producer p may emit
          Forking,     \* producers with a parallel section inside `produce`
          MayFail      \* whether writing to the sink may fail

ASSUME BrowserAssumption ==
  /\ N \in Nat
  /\ PoolThreads \in Nat \ {0}
  /\ ChanCap \in Nat \ {0}
  /\ Orders \subseteq [1..N -> 1..N]
  /\ \A o \in Orders : \A i, j \in 1..N : o[i] = o[j] => i = j
  /\ Batches \in [1..N -> Nat]
  /\ Forking \subseteq 1..N
  /\ MayFail \in BOOLEAN

Producer == 1..N

MaxConcurrent ==
  LET half == ((IF PoolThreads < 2 THEN 2 ELSE PoolThreads) - 1) \div 2
  IN  IF half < 1 THEN 1 ELSE half

\* The rayon jobs: `produce`, `forward_as_tagged` and `to_raw_receiver`.
Produce(p) == <<"produce", p>>
Forward(p) == <<"forward", p>>
Relay(p)   == <<"relay", p>>
Job == {"produce", "forward", "relay"} \X Producer

VARIABLES
  main,     \* the calling worker: "kick", "relays", "drain", "done" or "failed"
  order,    \* the order in which it drains the receivers, set by the options
  at,       \* the place in the order that it has reached
  front,    \* the queue of producers holds front .. N
  kicks,    \* chains started by spawn_producers
  injected, \* the pool's queue of jobs that were spawned from outside
  busy,     \* the threads that have a job: [deque, stack], the jobs the thread has
            \* spawned and those it runs; below the last one, jobs that wait
  over,     \* jobs that have ended
  pc,       \* pc[p]: where `produce` is
  forked,   \* producers that have entered their parallel section
  produced, verdict, errors,
  raw, tagged, out,  \* batches in the three channels of p
  held,     \* held[j]: batches (0 or 1) in the hands of a forwarder or relay
  got       \* got[p]: batches the calling worker has written

poolVars == <<injected, busy, over, forked, front, kicks>>
dataVars == <<produced, raw, tagged, out, held, got>>
vars == <<main, order, at, poolVars, pc, verdict, errors, dataVars>>

Init ==
  /\ main = "kick"
  /\ order \in Orders
  /\ at = 1
  /\ front = 1
  /\ kicks = 0
  /\ injected = <<>>
  /\ busy = {}
  /\ over = {}
  /\ pc = [p \in Producer |-> "idle"]
  /\ forked = {}
  /\ produced = [p \in Producer |-> 0]
  /\ verdict = [p \in Producer |-> "pending"]
  /\ errors = {}
  /\ raw = [p \in Producer |-> 0]
  /\ tagged = [p \in Producer |-> 0]
  /\ out = [p \in Producer |-> 0]
  /\ held = [j \in Job |-> 0]
  /\ got = [p \in Producer |-> 0]
-----------------------------------------------------------------------------
(* rayon.  A thread takes the job it spawned last, else the first job of    *)
(* another thread, else the first job of the pool's queue.  A job may       *)
(* appear on another thread after that thread was asked, so either of the   *)
(* last two may come first.                                                 *)
Running(j) == \E t \in busy : j \in ToSet(t.stack)
Queued(j) == j \in ToSet(injected) \/ \E t \in busy : j \in ToSet(t.deque)

\* Threads are told apart by their jobs only.
NoJob == [deque |-> <<>>, stack |-> <<>>]
Thread == busy \cup (IF Cardinality(busy) < PoolThreads THEN {NoJob} ELSE {})
Become(from, to) == busy' = ((busy \ from) \cup to) \ {NoJob}

\* t has no job, or its job waits in a parallel section.
Idle(t) ==
  t.stack # <<>> => \E p \in Forking : pc[p] = "waiting" /\ Last(t.stack) = Produce(p)

Start(j) ==
  /\ pc' = [p \in Producer |-> IF j = Produce(p) THEN "entered" ELSE pc[p]]
  /\ UNCHANGED <<main, at, front, kicks, over, forked, verdict, errors, dataVars>>
Run(t, j) == [t EXCEPT !.stack = Append(@, j)]

TakeOwn(t) ==
  /\ Idle(t)
  /\ t.deque # <<>>
  /\ Start(Last(t.deque))
  /\ Become({t}, {[Run(t, Last(t.deque)) EXCEPT !.deque = Front(@)]})
  /\ UNCHANGED injected

Steal(t, u) ==
  /\ Idle(t)
  /\ t.deque = <<>>
  /\ u.deque # <<>>
  /\ Start(Head(u.deque))
  /\ Become({t, u}, {Run(t, Head(u.deque)), [u EXCEPT !.deque = Tail(@)]})
  /\ UNCHANGED injected

TakeInjected(t) ==
  /\ Idle(t)
  /\ t.deque = <<>>
  /\ injected # <<>>
  /\ Start(Head(injected))
  /\ Become({t}, {Run(t, Head(injected))})
  /\ injected' = Tail(injected)

\* The last job of t's stack is j; it ends, having spawned the given jobs.
On(t, j) == t.stack # <<>> /\ Last(t.stack) = j
End(t, j, spawned) ==
  /\ On(t, j)
  /\ Become({t}, {[deque |-> t.deque \o spawned, stack |-> Front(t.stack)]})
  /\ over' = over \cup {j}
-----------------------------------------------------------------------------
(* The producer's job, as in ProducerPool.                                 *)
SpawnForwarder(p) ==
  /\ pc[p] = "entered"
  /\ pc' = [pc EXCEPT ![p] = "producing"]
  /\ \E t \in busy :
       /\ On(t, Produce(p))
       /\ Become({t}, {[t EXCEPT !.deque = Append(@, Forward(p))]})
  /\ UNCHANGED <<main, at, front, kicks, injected, over, forked, verdict, errors, dataVars>>

FailEarly(p) ==
  /\ pc[p] = "entered"
  /\ pc' = [pc EXCEPT ![p] = "returned"]
  /\ verdict' = [verdict EXCEPT ![p] = "err"]
  /\ UNCHANGED <<main, at, poolVars, errors, dataVars>>

\* rayon::scope in `stream_ifcowl`, par_iter in the extended topology: before the
\* job sends anything, parts of the work run on other threads, and it waits for them.
Fork(p) ==
  /\ pc[p] = "producing"
  /\ produced[p] = 0
  /\ p \in Forking \ forked
  /\ pc' = [pc EXCEPT ![p] = "waiting"]
  /\ forked' = forked \cup {p}
  /\ UNCHANGED <<main, at, front, kicks, injected, busy, over, verdict, errors, dataVars>>

Join(p) ==
  /\ pc[p] = "waiting"
  /\ \E t \in busy : On(t, Produce(p))
  /\ pc' = [pc EXCEPT ![p] = "producing"]
  /\ UNCHANGED <<main, at, poolVars, verdict, errors, dataVars>>

BeginSend(p) ==
  /\ pc[p] = "producing"
  /\ produced[p] < Batches[p]
  /\ pc' = [pc EXCEPT ![p] = "sending"]
  /\ UNCHANGED <<main, at, poolVars, verdict, errors, dataVars>>

SendRaw(p) ==
  /\ pc[p] = "sending"
  /\ Forward(p) \notin over
  /\ raw[p] < ChanCap
  /\ pc' = [pc EXCEPT ![p] = "producing"]
  /\ raw' = [raw EXCEPT ![p] = @ + 1]
  /\ produced' = [produced EXCEPT ![p] = @ + 1]
  /\ UNCHANGED <<main, at, poolVars, verdict, errors, tagged, out, held, got>>

SendFails(p) ==
  /\ pc[p] = "sending"
  /\ Forward(p) \in over
  /\ pc' = [pc EXCEPT ![p] = "returned"]
  /\ verdict' = [verdict EXCEPT ![p] = "err"]
  /\ UNCHANGED <<main, at, poolVars, errors, dataVars>>

ReturnFromProduce(p) ==
  /\ pc[p] = "producing"
  /\ pc' = [pc EXCEPT ![p] = "returned"]
  /\ \E v \in {"ok", "err"} : verdict' = [verdict EXCEPT ![p] = v]
  /\ UNCHANGED <<main, at, poolVars, errors, dataVars>>

RecordProducerError(p) ==
  /\ pc[p] = "returned"
  /\ verdict[p] = "err"
  /\ errors' = errors \cup {p}
  /\ pc' = [pc EXCEPT ![p] = "recorded"]
  /\ UNCHANGED <<main, at, poolVars, verdict, dataVars>>

\* Mutant of DropSender: the sender goes before the error is recorded.
DropSenderUnrecorded(p) ==
  /\ pc[p] = "returned"
  /\ pc' = [pc EXCEPT ![p] = "closed"]
  /\ UNCHANGED <<main, at, poolVars, verdict, errors, dataVars>>

DropSender(p) ==
  /\ pc[p] = "recorded" \/ (pc[p] = "returned" /\ verdict[p] = "ok")
  /\ pc' = [pc EXCEPT ![p] = "closed"]
  /\ UNCHANGED <<main, at, poolVars, verdict, errors, dataVars>>

\* Mutant of ContinueChain: a failed producer ends its chain.
ChainEndsOnError(p) ==
  /\ pc[p] = "closed"
  /\ pc' = [pc EXCEPT ![p] = "done"]
  /\ \E t \in busy :
       End(t, Produce(p), IF front <= N /\ verdict[p] = "ok" THEN <<Produce(front)>> ELSE <<>>)
  /\ front' = IF front <= N /\ verdict[p] = "ok" THEN front + 1 ELSE front
  /\ UNCHANGED <<main, at, kicks, injected, forked, verdict, errors, dataVars>>

\* The last statement of the job spawns the next producer on the same thread.
ContinueChain(p) ==
  /\ pc[p] = "closed"
  /\ pc' = [pc EXCEPT ![p] = "done"]
  /\ \E t \in busy : End(t, Produce(p), IF front <= N THEN <<Produce(front)>> ELSE <<>>)
  /\ front' = IF front <= N THEN front + 1 ELSE front
  /\ UNCHANGED <<main, at, kicks, injected, forked, verdict, errors, dataVars>>

ProduceIsOver(p) == pc[p] \in {"returned", "recorded", "closed", "done"}
-----------------------------------------------------------------------------
(* The forwarder and the relay: `for batch in rx { tx.send(..) }`.         *)
ForwardTake(p) ==
  /\ Running(Forward(p))
  /\ held[Forward(p)] = 0
  /\ raw[p] > 0
  /\ raw' = [raw EXCEPT ![p] = @ - 1]
  /\ held' = [held EXCEPT ![Forward(p)] = 1]
  /\ UNCHANGED <<main, at, poolVars, pc, verdict, errors, produced, tagged, out, got>>

ForwardSend(p) ==
  /\ held[Forward(p)] = 1
  /\ Relay(p) \notin over
  /\ tagged[p] < ChanCap
  /\ tagged' = [tagged EXCEPT ![p] = @ + 1]
  /\ held' = [held EXCEPT ![Forward(p)] = 0]
  /\ UNCHANGED <<main, at, poolVars, pc, verdict, errors, produced, raw, out, got>>

\* The job ends: its input is exhausted, or its send failed and the rest of
\* its input goes with it.
ForwardEnds(p) ==
  /\ \E t \in busy : End(t, Forward(p), <<>>)
  /\ \/ held[Forward(p)] = 0 /\ raw[p] = 0 /\ ProduceIsOver(p)
     \/ held[Forward(p)] = 1 /\ Relay(p) \in over
  /\ held' = [held EXCEPT ![Forward(p)] = 0]
  /\ raw' = [raw EXCEPT ![p] = 0]
  /\ UNCHANGED <<main, at, front, kicks, injected, forked, pc, verdict, errors, produced,
                 tagged, out, got>>

RelayTake(p) ==
  /\ Running(Relay(p))
  /\ held[Relay(p)] = 0
  /\ tagged[p] > 0
  /\ tagged' = [tagged EXCEPT ![p] = @ - 1]
  /\ held' = [held EXCEPT ![Relay(p)] = 1]
  /\ UNCHANGED <<main, at, poolVars, pc, verdict, errors, produced, raw, out, got>>

RelaySend(p) ==
  /\ held[Relay(p)] = 1
  /\ main # "failed"
  /\ out[p] < ChanCap
  /\ out' = [out EXCEPT ![p] = @ + 1]
  /\ held' = [held EXCEPT ![Relay(p)] = 0]
  /\ UNCHANGED <<main, at, poolVars, pc, verdict, errors, produced, raw, tagged, got>>

\* The job and the forwarder have dropped their senders of p's channel.
TaskSenderDropped(p) == pc[p] \in {"closed", "done"}
SendersGone(p) == TaskSenderDropped(p) /\ ~Queued(Forward(p)) /\ ~Running(Forward(p))

RelayEnds(p) ==
  /\ \E t \in busy : End(t, Relay(p), <<>>)
  /\ \/ held[Relay(p)] = 0 /\ tagged[p] = 0 /\ SendersGone(p)
     \/ held[Relay(p)] = 1 /\ main = "failed"
  /\ held' = [held EXCEPT ![Relay(p)] = 0]
  /\ tagged' = [tagged EXCEPT ![p] = 0]
  /\ UNCHANGED <<main, at, front, kicks, injected, forked, pc, verdict, errors, produced,
                 raw, out, got>>
-----------------------------------------------------------------------------
(* The calling worker.                                                     *)
Kick ==
  /\ main = "kick"
  /\ kicks' = kicks + 1
  /\ main' = IF kicks' < MaxConcurrent THEN "kick" ELSE "relays"
  /\ front' = IF front <= N THEN front + 1 ELSE front
  /\ injected' = IF front <= N THEN Append(injected, Produce(front)) ELSE injected
  /\ UNCHANGED <<at, busy, over, forked, pc, verdict, errors, dataVars>>

\* One receiver after the other gets its relay, in the order of the producers.
SpawnRelay ==
  /\ main = "relays"
  /\ IF at <= N
     THEN /\ injected' = Append(injected, Relay(at))
          /\ at' = at + 1
          /\ UNCHANGED main
     ELSE /\ main' = IF N = 0 THEN "done" ELSE "drain"
          /\ at' = 1
          /\ UNCHANGED injected
  /\ UNCHANGED <<front, kicks, busy, over, forked, pc, verdict, errors, dataVars>>

Draining(p) == main = "drain" /\ at <= N /\ order[at] = p

DrainBatch(p) ==
  /\ Draining(p)
  /\ out[p] > 0
  /\ out' = [out EXCEPT ![p] = @ - 1]
  /\ got' = [got EXCEPT ![p] = @ + 1]
  /\ UNCHANGED <<main, at, poolVars, pc, verdict, errors, produced, raw, tagged, held>>

\* The sink refuses bytes or an event: the function returns with `?` and drops
\* the receivers it has not drained.
SinkFails ==
  /\ MayFail
  /\ main = "drain"
  /\ main' = "failed"
  /\ out' = [p \in Producer |-> 0]
  /\ UNCHANGED <<at, poolVars, pc, verdict, errors, produced, raw, tagged, held, got>>

DrainEof(p) ==
  /\ Draining(p)
  /\ out[p] = 0
  /\ Relay(p) \in over
  /\ at' = at + 1
  /\ main' = IF at = N THEN "done" ELSE "drain"
  /\ UNCHANGED <<poolVars, pc, verdict, errors, dataVars>>

PoolEmpty == \A j \in Job : ~Queued(j) /\ ~Running(j)

Terminated ==
  /\ main \in {"done", "failed"}
  /\ PoolEmpty
  /\ front > N
  /\ UNCHANGED vars

ProduceStep(p) ==
  \/ SpawnForwarder(p) \/ FailEarly(p) \/ Join(p) \/ BeginSend(p) \/ SendRaw(p)
  \/ SendFails(p) \/ ReturnFromProduce(p) \/ RecordProducerError(p) \/ DropSender(p)
  \/ ContinueChain(p)
ForwardStep(p) == ForwardTake(p) \/ ForwardSend(p) \/ ForwardEnds(p)
RelayStep(p) == RelayTake(p) \/ RelaySend(p) \/ RelayEnds(p)
MainStep == Kick \/ SpawnRelay \/ \E p \in Producer : DrainBatch(p) \/ DrainEof(p)

Next ==
  /\ UNCHANGED order
  /\ \/ Kick \/ SpawnRelay \/ SinkFails \/ Terminated
     \/ \E p \in Producer : DrainBatch(p) \/ DrainEof(p)
     \/ \E p \in Producer : ProduceStep(p) \/ Fork(p) \/ ForwardStep(p) \/ RelayStep(p)
     \/ \E t \in Thread : TakeOwn(t) \/ TakeInjected(t) \/ \E u \in Thread \ {t} : Steal(t, u)

Spec == Init /\ [][Next]_vars

(* As long as the calling worker, a job on top of its thread or a thread      *)
(* without a job can do something, something happens; that is enough, for the *)
(* work is finite.  Nothing forces a waiting thread to take a job, a producer *)
(* to fork or the sink to fail.                                               *)
FindJob ==
  \E t \in Thread :
    /\ t.stack = <<>>
    /\ TakeOwn(t) \/ TakeInjected(t) \/ \E u \in Thread \ {t} : Steal(t, u)

Progress ==
  /\ UNCHANGED order
  /\ \/ MainStep \/ FindJob
     \/ \E p \in Producer : ProduceStep(p) \/ ForwardStep(p) \/ RelayStep(p)

Fairness == WF_vars(Progress)

FairSpec == Spec /\ Fairness
-----------------------------------------------------------------------------
TypeOK ==
  /\ main \in {"kick", "relays", "drain", "done", "failed"}
  /\ order \in Orders
  /\ at \in 1..(N + 1)
  /\ front \in 1..(N + 1)
  /\ kicks \in 0..MaxConcurrent
  /\ ToSet(injected) \subseteq Job
  /\ Cardinality(busy) <= PoolThreads
  /\ \A t \in busy : ToSet(t.deque) \subseteq Job /\ ToSet(t.stack) \subseteq Job
  /\ over \subseteq Job
  /\ forked \subseteq Forking
  /\ verdict \in [Producer -> {"pending", "ok", "err"}]
  /\ errors \subseteq Producer
  /\ \A p \in Producer :
       /\ raw[p] \in 0..ChanCap /\ tagged[p] \in 0..ChanCap /\ out[p] \in 0..ChanCap
       /\ produced[p] \in 0..Batches[p] /\ got[p] \in 0..Batches[p]
  /\ held \in [Job -> 0..1]

\* A receiver is over when the worker has gone past it.
Drained(p) ==
  main \in {"drain", "done", "failed"} /\ \E i \in 1..(at - 1) : order[i] = p

(* The worker that has gone past a receiver has every batch of its producer,  *)
(* and the producer's error is recorded: emit_producer_error_events, which    *)
(* runs after the last receiver, misses none.                                 *)
NothingMissing ==
  \A p \in Producer : Drained(p) =>
    /\ got[p] = produced[p]
    /\ verdict[p] # "pending"
    /\ verdict[p] = "err" <=> p \in errors

\* The worker drains a producer before one that is ahead of it in the queue and
\* has sent more than the relay and the channels around it hold.  Until that one is
\* drained too, its relay and its forwarder keep two threads: with four, none is
\* left for the last job of the producer the worker waits for.
Overtaken ==
  /\ main = "drain"
  /\ \E i \in (at + 1)..N : order[i] < order[at] /\ produced[order[i]] > 2 * ChanCap + 1

(* The pool is free again in the end, for the next conversion uses it too:    *)
(* every job is over, also after a failed conversion left its receivers.  Two *)
(* things may spoil that: a producer with a parallel section, see             *)
(* NeverExhausted, and drains in another order than the queue's.              *)
PoolIsFreed ==
  <>(\/ forked # {}
     \/ Overtaken
     \/ /\ main \in {"done", "failed"}
        /\ front > N
        /\ PoolEmpty)

(* lib.rs on max_concurrent: it keeps at least one thread free, and producers *)
(* run without ever exhausting the pool: a conversion comes to its end.       *)
NeverExhausted == <>(main \in {"done", "failed"})
=============================================================================
