-------------------------- MODULE Producers_proofs --------------------------
(***************************************************************************)
(* Theorems about the produce stage and one of its producers: ProducerPool *)
(* for any number of producers, any pool size and any channel capacities,  *)
(* and RmlRun for any mappings, files and capacity of its channel.         *)
(***************************************************************************)
EXTENDS ProducerPool, RmlRun, FiniteSetTheorems, TLAPS

LEMMA MaxConcurrentType == MaxConcurrent \in Nat \ {0}
  BY PoolAssumption DEF MaxConcurrent

(* Appending to and taking from a channel's contents.                      *)
LEMMA AppendType ==
  ASSUME NEW s \in Seq(Nat), NEW n \in Nat
  PROVE  /\ Append(s, n) \in Seq(Nat)
         /\ Len(s) \in Nat
         /\ Len(Append(s, n)) = Len(s) + 1
         /\ \A i \in 1..Len(s) : Append(s, n)[i] = s[i]
         /\ Append(s, n)[Len(s) + 1] = n
  OBVIOUS

LEMMA TailType ==
  ASSUME NEW s \in Seq(Nat), s # <<>>
  PROVE  /\ Head(s) \in Nat /\ Head(s) = s[1]
         /\ Tail(s) \in Seq(Nat)
         /\ Len(s) \in Nat \ {0}
         /\ Len(Tail(s)) = Len(s) - 1
         /\ \A i \in 1..Len(Tail(s)) : Tail(s)[i] = s[i + 1]
  OBVIOUS

LEMMA EmptyType == <<>> \in Seq(Nat) /\ Len(<<>>) = 0
  OBVIOUS

(* The initial state is well typed.                                        *)
LEMMA InitTypeOK == Init => TypeOK
  BY PoolAssumption, MaxConcurrentType DEF Init, TypeOK, Producer, PCs

(* Every step of the stage keeps the state well typed.                     *)
LEMMA NextTypeOK == TypeOK /\ [Next]_vars => TypeOK'
  <1> SUFFICES ASSUME TypeOK, [Next]_vars PROVE TypeOK'
    OBVIOUS
  <1> USE DEF TypeOK, PCs, chanVars, poolVars
  <1>1. CASE Kick
    <2>1. kicks' \in 0..MaxConcurrent
      BY <1>1, MaxConcurrentType DEF Kick
    <2>2. front' \in 1..(N + 1) /\ pc' \in [Producer -> PCs]
      <3>1. CASE front <= N
        <4>1. front \in Producer /\ front + 1 \in 1..(N + 1)
          BY <3>1, PoolAssumption DEF Producer
        <4> QED BY <1>1, <3>1, <4>1 DEF Kick, StartNextProducer
      <3>2. CASE ~(front <= N)
        BY <1>1, <3>2 DEF Kick, StartNextProducer
      <3> QED BY <3>1, <3>2
    <2> QED BY <1>1, <2>1, <2>2 DEF Kick
  <1>2. ASSUME NEW p \in Producer, RunOnFreeThread(p) PROVE TypeOK'
    BY <1>2 DEF RunOnFreeThread
  <1>3. ASSUME NEW p \in Producer, NEW q \in Producer, RunWhileWaiting(p, q) PROVE TypeOK'
    <2>1. host' \in [Producer -> 0..N] /\ pc' \in [Producer -> PCs]
      <3>1. q \in 0..N BY PoolAssumption DEF Producer
      <3> QED BY <1>3, <3>1 DEF RunWhileWaiting
    <2> QED BY <1>3, <2>1 DEF RunWhileWaiting
  <1>4. ASSUME NEW p \in Producer, JobStep(p) PROVE TypeOK'
    <2>1. CASE SpawnForwarder(p) BY <2>1 DEF SpawnForwarder
    <2>2. CASE FailEarly(p) BY <2>2 DEF FailEarly
    <2>3. CASE Join(p) BY <2>3 DEF Join
    <2>4. CASE BeginSend(p) BY <2>4 DEF BeginSend
    <2>5. CASE SendRaw(p)
      <3>1. produced[p] + 1 \in Nat /\ raw[p] \in Seq(Nat)
        OBVIOUS
      <3>2. Append(raw[p], produced[p] + 1) \in Seq(Nat)
            /\ Len(Append(raw[p], produced[p] + 1)) = Len(raw[p]) + 1
            /\ Len(raw[p]) \in Nat
        BY <3>1, AppendType
      <3>3. raw' \in [Producer -> Seq(Nat)] /\ \A r \in Producer : Len(raw'[r]) <= RawCap
        <4>1. Len(Append(raw[p], produced[p] + 1)) <= RawCap
          BY <2>5, <3>2, PoolAssumption DEF SendRaw
        <4> QED BY <2>5, <3>2, <4>1 DEF SendRaw
      <3>4. produced' \in [Producer -> Nat]
        BY <2>5, <3>1 DEF SendRaw
      <3> QED BY <2>5, <3>3, <3>4 DEF SendRaw
    <2>6. CASE SendFails(p) BY <2>6 DEF SendFails
    <2>7. CASE ReturnFromProduce(p) BY <2>7 DEF ReturnFromProduce
    <2>8. CASE RecordProducerError(p) BY <2>8 DEF RecordProducerError
    <2>9. CASE DropSender(p) BY <2>9 DEF DropSender
    <2>10. CASE ContinueChain(p)
      <3>1. front' \in 1..(N + 1) /\ pc' \in [Producer -> PCs]
        <4>1. CASE front <= N
          <5>1. front \in Producer /\ front + 1 \in 1..(N + 1)
            BY <4>1, PoolAssumption DEF Producer
          <5> QED BY <2>10, <4>1, <5>1 DEF ContinueChain, StartNextProducer
        <4>2. CASE ~(front <= N)
          BY <2>10, <4>2 DEF ContinueChain, StartNextProducer
        <4> QED BY <4>1, <4>2
      <3> QED BY <2>10, <3>1 DEF ContinueChain
    <2> QED BY <1>4, <2>1, <2>2, <2>3, <2>4, <2>5, <2>6, <2>7, <2>8, <2>9, <2>10 DEF JobStep
  <1>5. ASSUME NEW p \in Producer, Fork(p) PROVE TypeOK'
    BY <1>5 DEF Fork
  <1>6. ASSUME NEW p \in Producer, HopStep(p) PROVE TypeOK'
    <2>1. CASE HopTake(p)
      <3>1. Head(raw[p]) \in Nat /\ Tail(raw[p]) \in Seq(Nat)
            /\ Len(Tail(raw[p])) = Len(raw[p]) - 1 /\ Len(raw[p]) \in Nat
        BY <2>1, TailType DEF HopTake
      <3>2. raw' \in [Producer -> Seq(Nat)] /\ \A r \in Producer : Len(raw'[r]) <= RawCap
        <4>1. Len(Tail(raw[p])) <= RawCap
          BY <3>1, PoolAssumption
        <4> QED BY <2>1, <3>1, <4>1 DEF HopTake
      <3> QED BY <2>1, <3>1, <3>2 DEF HopTake
    <2>2. CASE HopSend(p)
      <3>1. Append(tagged[p], held[p]) \in Seq(Nat)
            /\ Len(Append(tagged[p], held[p])) = Len(tagged[p]) + 1 /\ Len(tagged[p]) \in Nat
        BY AppendType
      <3>2. tagged' \in [Producer -> Seq(Nat)] /\ \A r \in Producer : Len(tagged'[r]) <= ChanCap
        <4>1. Len(Append(tagged[p], held[p])) <= ChanCap
          BY <2>2, <3>1, PoolAssumption DEF HopSend
        <4> QED BY <2>2, <3>1, <4>1 DEF HopSend
      <3> QED BY <2>2, <3>2 DEF HopSend
    <2>3. CASE HopBreak(p)
      <3>1. raw' \in [Producer -> Seq(Nat)] /\ \A r \in Producer : Len(raw'[r]) <= RawCap
        BY <2>3, EmptyType, PoolAssumption DEF HopBreak
      <3> QED BY <2>3, <3>1 DEF HopBreak
    <2>4. CASE HopExit(p) BY <2>4 DEF HopExit
    <2> QED BY <1>6, <2>1, <2>2, <2>3, <2>4 DEF HopStep
  <1>7. ASSUME NEW p \in Producer, DrainStep(p) PROVE TypeOK'
    <2>1. CASE Receive(p)
      <3>1. Head(tagged[p]) \in Nat /\ Tail(tagged[p]) \in Seq(Nat)
            /\ Len(Tail(tagged[p])) = Len(tagged[p]) - 1 /\ Len(tagged[p]) \in Nat
        BY <2>1, TailType DEF Receive
      <3>2. Append(received[p], Head(tagged[p])) \in Seq(Nat)
        BY <3>1, AppendType
      <3>3. received' \in [Producer -> Seq(Nat)]
        BY <2>1, <3>2 DEF Receive
      <3>4. tagged' \in [Producer -> Seq(Nat)] /\ \A r \in Producer : Len(tagged'[r]) <= ChanCap
        <4>1. Len(Tail(tagged[p])) <= ChanCap
          BY <3>1, PoolAssumption
        <4> QED BY <2>1, <3>1, <4>1 DEF Receive
      <3> QED BY <2>1, <3>3, <3>4 DEF Receive
    <2>2. CASE SeeEof(p) BY <2>2 DEF SeeEof
    <2> QED BY <1>7, <2>1, <2>2 DEF DrainStep
  <1>8. ASSUME NEW p \in Producer, DropReceiver(p) PROVE TypeOK'
    BY SMTT(20), <1>8, EmptyType, PoolAssumption DEF DropReceiver
  <1>9. CASE UNCHANGED vars
    BY <1>9 DEF vars
  <1> QED
    BY <1>1, <1>2, <1>3, <1>4, <1>5, <1>6, <1>7, <1>8, <1>9 DEF Next

(* Type correctness of the produce stage.                                  *)
THEOREM TypeCorrect == Spec => []TypeOK
  <1>1. Init => TypeOK BY InitTypeOK
  <1>2. TypeOK /\ [Next]_vars => TypeOK' BY NextTypeOK
  <1> QED BY <1>1, <1>2, PTL DEF Spec

-----------------------------------------------------------------------------
(* One step as its smallest parts, for the lemmas below.                   *)
ActionOf(p) ==
  \/ RunOnFreeThread(p)
  \/ \E q \in Producer : RunWhileWaiting(p, q)
  \/ JobStep(p) \/ Fork(p) \/ HopStep(p) \/ DrainStep(p) \/ DropReceiver(p)

LEMMA NextCases == [Next]_vars => Kick \/ (\E p \in Producer : ActionOf(p)) \/ UNCHANGED vars
  BY DEF Next, ActionOf

QueueInv == \A p \in Producer : p >= front <=> pc[p] = "queued"

(* The producers from `front` on are the ones still in the queue.          *)
LEMMA NextQueueInv == TypeOK /\ QueueInv /\ [Next]_vars => QueueInv'
  <1> SUFFICES ASSUME TypeOK, QueueInv, [Next]_vars, NEW r \in Producer
               PROVE  (r >= front <=> pc[r] = "queued")'
    BY DEF QueueInv
  <1> USE DEF QueueInv
  <1>1. CASE Kick
    <2>1. CASE front <= N
      <3>1. front \in Producer BY <2>1, PoolAssumption DEF TypeOK, Producer
      <3>2. pc' = [pc EXCEPT ![front] = "spawned"] /\ front' = front + 1
        BY <1>1, <2>1 DEF Kick, StartNextProducer
      <3> QED BY SMTT(20), <3>1, <3>2, PoolAssumption DEF TypeOK, Producer
    <2>2. CASE ~(front <= N)
      BY <1>1, <2>2 DEF Kick, StartNextProducer
    <2> QED BY <2>1, <2>2
  <1>2. ASSUME NEW p \in Producer, ActionOf(p) PROVE (r >= front <=> pc[r] = "queued")'
    <2>1. CASE ContinueChain(p)
      <3>1. pc[p] = "closed" BY <2>1 DEF ContinueChain
      <3>2. CASE front <= N
        <4>1. front \in Producer BY <3>2, PoolAssumption DEF TypeOK, Producer
        <4>2. pc' = [[pc EXCEPT ![p] = "done"] EXCEPT ![front] = "spawned"] /\ front' = front + 1
          BY <2>1, <3>2 DEF ContinueChain, StartNextProducer
        <4> front \in Nat /\ p \in Nat /\ r \in Nat
          BY PoolAssumption DEF TypeOK, Producer
        <4>3. pc[front] = "queued" /\ p # front /\ ~(p >= front)
          BY <3>1, <4>1
        <4>4. pc'[p] = "done" /\ pc'[front] = "spawned"
          BY <4>1, <4>2, <4>3 DEF TypeOK
        <4>5. r # p /\ r # front => pc'[r] = pc[r]
          BY <4>2 DEF TypeOK
        <4>6. ~(p >= front + 1) /\ ~(front >= front + 1)
              /\ (r # front => (r >= front + 1 <=> r >= front))
          BY <4>3
        <4> QED BY <4>2, <4>3, <4>4, <4>5, <4>6
      <3>3. CASE ~(front <= N)
        <4>1. pc' = [pc EXCEPT ![p] = "done"] /\ front' = front
          BY <2>1, <3>3 DEF ContinueChain, StartNextProducer
        <4> QED BY <3>1, <4>1 DEF TypeOK
      <3> QED BY <3>2, <3>3
    <2>2. CASE ~ContinueChain(p)
      <3>1. front' = front
        BY <1>2, <2>2 DEF ActionOf, RunOnFreeThread, RunWhileWaiting, JobStep, SpawnForwarder,
          FailEarly, Join, BeginSend, SendRaw, SendFails, ReturnFromProduce,
          RecordProducerError, DropSender, Fork, HopStep, HopTake, HopSend, HopBreak, HopExit,
          DrainStep, Receive, SeeEof, DropReceiver, poolVars
      <3>2. \/ pc' = pc
            \/ /\ pc[p] # "queued"
               /\ \E s \in PCs \ {"queued"} : pc' = [pc EXCEPT ![p] = s]
        BY <1>2, <2>2 DEF ActionOf, RunOnFreeThread, RunWhileWaiting, JobStep, SpawnForwarder,
          FailEarly, Join, BeginSend, SendRaw, SendFails, ReturnFromProduce,
          RecordProducerError, DropSender, Fork, HopStep, HopTake, HopSend, HopBreak, HopExit,
          DrainStep, Receive, SeeEof, DropReceiver, poolVars, PCs
      <3> QED BY <3>1, <3>2 DEF TypeOK
    <2> QED BY <2>1, <2>2
  <1>3. CASE UNCHANGED vars
    BY <1>3 DEF vars
  <1> QED BY <1>1, <1>2, <1>3, NextCases

(* How a step changes the job of a producer: JobInv is kept.               *)
LEMMA NextJobInv ==
  ASSUME TypeOK, QueueInv, \A r \in Producer : JobInv(r) /\ HopInv(r), [Next]_vars,
         NEW r \in Producer
  PROVE  JobInv(r)'
  <1> USE DEF JobInv, ProduceIsOver, SendersGone, TaskSenderDropped
  <1> JobInv(r) /\ HopInv(r)
    OBVIOUS
  <1>1. CASE Kick
    <2>1. CASE front <= N
      <3>1. front \in Producer BY <2>1, PoolAssumption DEF TypeOK, Producer
      <3>2. pc[front] = "queued" BY <3>1, PoolAssumption DEF QueueInv, TypeOK, Producer
      <3>3. pc' = [pc EXCEPT ![front] = "spawned"]
            /\ UNCHANGED <<produced, verdict, errors, hop, stream>>
        BY <1>1, <2>1 DEF Kick, StartNextProducer, chanVars
      <3> QED BY <3>1, <3>2, <3>3 DEF TypeOK
    <2>2. CASE ~(front <= N)
      BY <1>1, <2>2 DEF Kick, StartNextProducer, chanVars
    <2> QED BY <2>1, <2>2
  <1>2. ASSUME NEW p \in Producer, ActionOf(p) PROVE JobInv(r)'
    <2>1. CASE RunOnFreeThread(p)
      BY <2>1 DEF RunOnFreeThread, chanVars, TypeOK
    <2>2. ASSUME NEW q \in Producer, RunWhileWaiting(p, q) PROVE JobInv(r)'
      BY <2>2 DEF RunWhileWaiting, chanVars, TypeOK
    <2>3. CASE JobStep(p)
      <3> JobInv(p) OBVIOUS
      <3>1. CASE SpawnForwarder(p) BY <3>1 DEF SpawnForwarder, TypeOK
      <3>2. CASE FailEarly(p) BY <3>2 DEF FailEarly, chanVars, TypeOK
      <3>3. CASE Join(p) BY <3>3 DEF Join, chanVars, TypeOK
      <3>4. CASE BeginSend(p) BY <3>4 DEF BeginSend, chanVars, TypeOK
      <3>5. CASE SendRaw(p) BY <3>5 DEF SendRaw, TypeOK
      <3>6. CASE SendFails(p) BY <3>6 DEF SendFails, chanVars, TypeOK
      <3>7. CASE ReturnFromProduce(p) BY <3>7 DEF ReturnFromProduce, chanVars, TypeOK
      <3>8. CASE RecordProducerError(p) BY <3>8 DEF RecordProducerError, chanVars, TypeOK
      <3>9. CASE DropSender(p) BY <3>9 DEF DropSender, chanVars, TypeOK
      <3>10. CASE ContinueChain(p)
        <4>1. UNCHANGED <<produced, verdict, errors, hop, stream>> /\ pc[p] = "closed"
          BY <3>10 DEF ContinueChain, chanVars
        <4>2. CASE front <= N
          <5>1. front \in Producer BY <4>2, PoolAssumption DEF TypeOK, Producer
          <5>2. pc[front] = "queued" BY <5>1, PoolAssumption DEF QueueInv, TypeOK, Producer
          <5>3. pc' = [[pc EXCEPT ![p] = "done"] EXCEPT ![front] = "spawned"]
            BY <3>10, <4>2 DEF ContinueChain, StartNextProducer
          <5>4. JobInv(front) BY <5>1
          <5> QED BY <4>1, <5>1, <5>2, <5>3, <5>4 DEF TypeOK
        <4>3. CASE ~(front <= N)
          <5>1. pc' = [pc EXCEPT ![p] = "done"]
            BY <3>10, <4>3 DEF ContinueChain, StartNextProducer
          <5> QED BY <4>1, <5>1 DEF TypeOK
        <4> QED BY <4>2, <4>3
      <3> QED BY <2>3, <3>1, <3>2, <3>3, <3>4, <3>5, <3>6, <3>7, <3>8, <3>9, <3>10 DEF JobStep
    <2>4. CASE Fork(p)
      BY <2>4 DEF Fork, chanVars, TypeOK
    <2>5. CASE HopStep(p)
      <3>1. CASE HopTake(p) BY <3>1 DEF HopTake, poolVars
      <3>2. CASE HopSend(p) BY <3>2 DEF HopSend, poolVars
      <3>3. CASE HopBreak(p) BY <3>3 DEF HopBreak, poolVars, TypeOK, HopInv
      <3>4. CASE HopExit(p) BY <3>4 DEF HopExit, poolVars, TypeOK
      <3> QED BY <2>5, <3>1, <3>2, <3>3, <3>4 DEF HopStep
    <2>6. CASE DrainStep(p)
      <3>1. CASE Receive(p) BY <3>1 DEF Receive, poolVars
      <3>2. CASE SeeEof(p) BY <3>2 DEF SeeEof, poolVars, TypeOK
      <3> QED BY <2>6, <3>1, <3>2 DEF DrainStep
    <2>7. CASE DropReceiver(p)
      BY <2>7 DEF DropReceiver, poolVars, TypeOK
    <2> QED BY <1>2, <2>1, <2>2, <2>3, <2>4, <2>5, <2>6, <2>7 DEF ActionOf
  <1>3. CASE UNCHANGED vars
    BY <1>3 DEF vars
  <1> QED BY <1>1, <1>2, <1>3, NextCases

(* How a step changes the forwarder of a producer: HopInv is kept.         *)
LEMMA NextHopInv ==
  ASSUME TypeOK, QueueInv, \A r \in Producer : JobInv(r) /\ HopInv(r), [Next]_vars,
         NEW r \in Producer
  PROVE  HopInv(r)'
  <1> USE DEF HopInv, ProduceIsOver
  <1> JobInv(r) /\ HopInv(r)
    OBVIOUS
  <1>1. CASE Kick
    <2>1. pc' = pc \/ (front \in Producer /\ pc[front] = "queued"
                       /\ pc' = [pc EXCEPT ![front] = "spawned"])
      BY <1>1, PoolAssumption DEF Kick, StartNextProducer, QueueInv, TypeOK, Producer
    <2>2. UNCHANGED <<produced, raw, hop, held, tagged, stream>>
      BY <1>1 DEF Kick, chanVars
    <2> QED BY <2>1, <2>2 DEF TypeOK
  <1>2. ASSUME NEW p \in Producer, ActionOf(p) PROVE HopInv(r)'
    <2>1. CASE RunOnFreeThread(p)
      BY <2>1 DEF RunOnFreeThread, chanVars, TypeOK
    <2>2. ASSUME NEW q \in Producer, RunWhileWaiting(p, q) PROVE HopInv(r)'
      BY <2>2 DEF RunWhileWaiting, chanVars, TypeOK
    <2>3. CASE JobStep(p)
      <3> JobInv(p) OBVIOUS
      <3>1. CASE SpawnForwarder(p)
        BY <3>1 DEF SpawnForwarder, TypeOK, JobInv
      <3>2. CASE FailEarly(p) BY <3>2 DEF FailEarly, chanVars, TypeOK
      <3>3. CASE Join(p) BY <3>3 DEF Join, chanVars, TypeOK
      <3>4. CASE BeginSend(p) BY <3>4 DEF BeginSend, chanVars, TypeOK
      <3>5. CASE SendRaw(p) BY <3>5 DEF SendRaw, TypeOK
      <3>6. CASE SendFails(p) BY <3>6 DEF SendFails, chanVars, TypeOK
      <3>7. CASE ReturnFromProduce(p) BY <3>7 DEF ReturnFromProduce, chanVars, TypeOK
      <3>8. CASE RecordProducerError(p) BY <3>8 DEF RecordProducerError, chanVars, TypeOK
      <3>9. CASE DropSender(p) BY <3>9 DEF DropSender, chanVars, TypeOK
      <3>10. CASE ContinueChain(p)
        <4>1. UNCHANGED <<produced, raw, hop, held, tagged, stream>> /\ pc[p] = "closed"
          BY <3>10 DEF ContinueChain, chanVars
        <4>2. CASE front <= N
          <5>1. front \in Producer BY <4>2, PoolAssumption DEF TypeOK, Producer
          <5>2. pc[front] = "queued" BY <5>1, PoolAssumption DEF QueueInv, TypeOK, Producer
          <5>3. pc' = [[pc EXCEPT ![p] = "done"] EXCEPT ![front] = "spawned"]
            BY <3>10, <4>2 DEF ContinueChain, StartNextProducer
          <5> QED BY <4>1, <5>1, <5>2, <5>3 DEF TypeOK
        <4>3. CASE ~(front <= N)
          <5>1. pc' = [pc EXCEPT ![p] = "done"]
            BY <3>10, <4>3 DEF ContinueChain, StartNextProducer
          <5> QED BY <4>1, <5>1 DEF TypeOK
        <4> QED BY <4>2, <4>3
      <3> QED BY <2>3, <3>1, <3>2, <3>3, <3>4, <3>5, <3>6, <3>7, <3>8, <3>9, <3>10 DEF JobStep
    <2>4. CASE Fork(p)
      BY <2>4 DEF Fork, chanVars, TypeOK
    <2>5. CASE HopStep(p)
      <3> HopInv(p) /\ JobInv(p) OBVIOUS
      <3>1. CASE HopTake(p) BY <3>1 DEF HopTake, poolVars, TypeOK
      <3>2. CASE HopSend(p)
        <4>1. stream[p] = "open"
          BY <3>2 DEF HopSend, JobInv, SendersGone, TypeOK
        <4> QED BY <3>2, <4>1 DEF HopSend, poolVars, TypeOK
      <3>3. CASE HopBreak(p) BY <3>3 DEF HopBreak, poolVars, TypeOK
      <3>4. CASE HopExit(p) BY <3>4 DEF HopExit, poolVars, TypeOK
      <3> QED BY <2>5, <3>1, <3>2, <3>3, <3>4 DEF HopStep
    <2>6. CASE DrainStep(p)
      <3>1. CASE Receive(p) BY <3>1 DEF Receive, poolVars, TypeOK
      <3>2. CASE SeeEof(p) BY <3>2 DEF SeeEof, poolVars, TypeOK
      <3> QED BY <2>6, <3>1, <3>2 DEF DrainStep
    <2>7. CASE DropReceiver(p)
      BY <2>7 DEF DropReceiver, poolVars, TypeOK
    <2> QED BY <1>2, <2>1, <2>2, <2>3, <2>4, <2>5, <2>6, <2>7 DEF ActionOf
  <1>3. CASE UNCHANGED vars
    BY <1>3 DEF vars
  <1> QED BY <1>1, <1>2, <1>3, NextCases

-----------------------------------------------------------------------------
(* The flow of batches, one lemma per way a batch can move.                *)
LEMMA FlowSendRaw ==
  ASSUME NEW prod \in Nat, NEW rw \in Seq(Nat), NEW h \in Nat,
         NEW tag \in Seq(Nat), NEW rec \in Seq(Nat),
         NothingLost(prod, rw, h, tag, rec)
  PROVE  NothingLost(prod + 1, Append(rw, prod + 1), h, tag, rec)
  <1>1. /\ Len(rw) \in Nat /\ Len(Append(rw, prod + 1)) = Len(rw) + 1
        /\ \A i \in 1..Len(rw) : Append(rw, prod + 1)[i] = rw[i]
        /\ Append(rw, prod + 1)[Len(rw) + 1] = prod + 1
    BY AppendType
  <1>2. (prod + 1) - (Len(rw) + 1) = prod - Len(rw)
    BY <1>1
  <1>3. ASSUME NEW i \in 1..(Len(rw) + 1)
        PROVE  Append(rw, prod + 1)[i] = prod - Len(rw) + i
    <2>1. CASE i \in 1..Len(rw) BY <2>1, <1>1 DEF NothingLost
    <2>2. CASE i = Len(rw) + 1 BY <2>2, <1>1
    <2>3. i \in 1..Len(rw) \/ i = Len(rw) + 1 BY <1>1
    <2> QED BY <2>1, <2>2, <2>3
  <1> QED BY <1>1, <1>2, <1>3 DEF NothingLost

LEMMA FlowHopTake ==
  ASSUME NEW prod \in Nat, NEW rw \in Seq(Nat), rw # <<>>,
         NEW tag \in Seq(Nat), NEW rec \in Seq(Nat),
         NothingLost(prod, rw, 0, tag, rec)
  PROVE  NothingLost(prod, Tail(rw), Head(rw), tag, rec)
  <1> DEFINE n == Len(rw)
  <1>1. /\ Head(rw) = rw[1] /\ Head(rw) \in Nat
        /\ n \in Nat \ {0} /\ Len(Tail(rw)) = n - 1
        /\ \A i \in 1..Len(Tail(rw)) : Tail(rw)[i] = rw[i + 1]
    BY TailType
  <1>2. Head(rw) = prod - n + 1
    BY <1>1 DEF NothingLost
  <1>3. prod - (n - 1) = prod - n + 1
    BY <1>1
  <1>4. ASSUME NEW i \in 1..Len(Tail(rw))
        PROVE  Tail(rw)[i] = prod - (n - 1) + i
    <2>1. i + 1 \in 1..n /\ i \in Nat BY <1>1
    <2>2. rw[i + 1] = prod - n + (i + 1) BY <2>1 DEF NothingLost
    <2> QED BY <1>1, <2>1, <2>2
  <1>5. Len(rec) + Len(tag) = Head(rw) - 1
    <2>1. Len(rec) + Len(tag) = prod - n BY DEF NothingLost
    <2>2. ASSUME NEW d \in Int, Head(rw) = d + 1 PROVE Head(rw) - 1 = d
      BY <2>2
    <2>3. prod - n \in Int BY <1>1
    <2> QED BY <1>2, <2>1, <2>2, <2>3
  <1>6. Head(rw) # 0
    <2>1. Len(rec) \in Nat /\ Len(tag) \in Nat BY AppendType
    <2> QED BY <1>1, <1>5, <2>1
  <1> QED BY <1>1, <1>2, <1>3, <1>4, <1>5, <1>6 DEF NothingLost

LEMMA FlowHopSend ==
  ASSUME NEW prod \in Nat, NEW rw \in Seq(Nat), NEW h \in Nat, h # 0,
         NEW tag \in Seq(Nat), NEW rec \in Seq(Nat),
         NothingLost(prod, rw, h, tag, rec), InOrder(rec, tag)
  PROVE  NothingLost(prod, rw, 0, Append(tag, h), rec) /\ InOrder(rec, Append(tag, h))
  <1>1. /\ Len(tag) \in Nat /\ Len(rec) \in Nat /\ Len(rw) \in Nat
        /\ Len(Append(tag, h)) = Len(tag) + 1
        /\ \A i \in 1..Len(tag) : Append(tag, h)[i] = tag[i]
        /\ Append(tag, h)[Len(tag) + 1] = h
    BY AppendType
  <1>2. h = prod - Len(rw) /\ Len(rec) + Len(tag) = h - 1
    BY DEF NothingLost
  <1>3. Len(rec) + (Len(tag) + 1) = h
    BY <1>1, <1>2
  <1>4. ASSUME NEW i \in 1..(Len(tag) + 1)
        PROVE  Append(tag, h)[i] = Len(rec) + i
    <2>1. CASE i \in 1..Len(tag) BY <2>1, <1>1 DEF InOrder
    <2>2. CASE i = Len(tag) + 1 BY <2>2, <1>1, <1>3
    <2> QED BY <1>1, <2>1, <2>2
  <1>5. InOrder(rec, Append(tag, h))
    BY <1>1, <1>4 DEF InOrder
  <1> QED BY <1>1, <1>2, <1>3, <1>5 DEF NothingLost

LEMMA FlowReceive ==
  ASSUME NEW prod \in Nat, NEW rw \in Seq(Nat), NEW h \in Nat,
         NEW tag \in Seq(Nat), tag # <<>>, NEW rec \in Seq(Nat), InOrder(rec, tag)
  PROVE  /\ InOrder(Append(rec, Head(tag)), Tail(tag))
         /\ Head(tag) = Len(rec) + 1
         /\ NothingLost(prod, rw, h, tag, rec)
              => NothingLost(prod, rw, h, Tail(tag), Append(rec, Head(tag)))
  <1>1. /\ Head(tag) = tag[1] /\ Head(tag) \in Nat
        /\ Len(tag) \in Nat \ {0} /\ Len(Tail(tag)) = Len(tag) - 1
        /\ \A i \in 1..Len(Tail(tag)) : Tail(tag)[i] = tag[i + 1]
    BY TailType
  <1>2. /\ Len(rec) \in Nat /\ Len(Append(rec, Head(tag))) = Len(rec) + 1
        /\ \A i \in 1..Len(rec) : Append(rec, Head(tag))[i] = rec[i]
        /\ Append(rec, Head(tag))[Len(rec) + 1] = Head(tag)
    BY <1>1, AppendType
  <1>3. Head(tag) = Len(rec) + 1
    BY <1>1 DEF InOrder
  <1>4. ASSUME NEW i \in 1..(Len(rec) + 1)
        PROVE  Append(rec, Head(tag))[i] = i
    <2>1. CASE i \in 1..Len(rec) BY <2>1, <1>2 DEF InOrder
    <2>2. CASE i = Len(rec) + 1 BY <2>2, <1>2, <1>3
    <2> QED BY <1>2, <2>1, <2>2
  <1>5. ASSUME NEW i \in 1..Len(Tail(tag))
        PROVE  Tail(tag)[i] = (Len(rec) + 1) + i
    <2>1. i + 1 \in 1..Len(tag) /\ i \in Nat BY <1>1
    <2>2. tag[i + 1] = Len(rec) + (i + 1) BY <2>1 DEF InOrder
    <2> QED BY <1>1, <1>2, <2>1, <2>2
  <1>6. (Len(rec) + 1) + (Len(tag) - 1) = Len(rec) + Len(tag)
    BY <1>1, <1>2
  <1>7. InOrder(Append(rec, Head(tag)), Tail(tag))
    BY <1>2, <1>4, <1>5 DEF InOrder
  <1> QED BY <1>1, <1>2, <1>3, <1>6, <1>7 DEF NothingLost

(* What waits in the receiver's channel has been produced.                 *)
LEMMA TaggedWasProduced ==
  ASSUME NEW prod \in Nat, NEW rw \in Seq(Nat), NEW h \in Nat,
         NEW tag \in Seq(Nat), tag # <<>>, NEW rec \in Seq(Nat),
         NothingLost(prod, rw, h, tag, rec)
  PROVE  Len(rec) < prod
  <1>1. Len(rec) \in Nat /\ Len(tag) \in Nat \ {0} /\ Len(rw) \in Nat
    BY TailType, AppendType
  <1>2. CASE h = 0
    <2>1. Len(rec) + Len(tag) = prod - Len(rw) BY <1>2 DEF NothingLost
    <2> QED BY <1>1, <2>1
  <1>3. CASE h # 0
    <2>1. h = prod - Len(rw) /\ Len(rec) + Len(tag) = h - 1 BY <1>3 DEF NothingLost
    <2> QED BY <1>1, <2>1
  <1> QED BY <1>2, <1>3

(* A step that leaves the channels of r alone keeps FlowInv(r).            *)
LEMMA FlowFrame ==
  ASSUME NEW r \in Producer, FlowInv(r),
         produced'[r] = produced[r], raw'[r] = raw[r], held'[r] = held[r],
         tagged'[r] = tagged[r], received'[r] = received[r],
         stream'[r] = "gone" <=> stream[r] = "gone"
  PROVE  FlowInv(r)'
  BY DEF FlowInv

(* Only these six actions touch the channels of a producer.                *)
LEMMA FlowActions ==
  ASSUME NEW p \in Producer, ActionOf(p)
  PROVE  \/ SendRaw(p) \/ HopTake(p) \/ HopSend(p) \/ HopBreak(p)
         \/ Receive(p) \/ DropReceiver(p)
         \/ /\ UNCHANGED <<produced, raw, held, tagged, received>>
            /\ stream' = stream \/ (stream[p] = "open" /\ stream' = [stream EXCEPT ![p] = "eof"])
  BY DEF ActionOf, RunOnFreeThread, RunWhileWaiting, JobStep, SpawnForwarder, FailEarly, Join,
    BeginSend, SendFails, ReturnFromProduce, RecordProducerError, DropSender, ContinueChain,
    Fork, HopStep, HopExit, DrainStep, SeeEof, chanVars

(* How a step moves batches along: FlowInv is kept.                        *)
LEMMA NextFlowInv ==
  ASSUME TypeOK, \A r \in Producer : FlowInv(r), [Next]_vars, NEW r \in Producer
  PROVE  FlowInv(r)'
  <1>1. CASE Kick
    BY <1>1, FlowFrame DEF Kick, chanVars
  <1>2. ASSUME NEW p \in Producer, ActionOf(p), r # p PROVE FlowInv(r)'
    <2>1. /\ produced'[r] = produced[r] /\ raw'[r] = raw[r] /\ held'[r] = held[r]
          /\ tagged'[r] = tagged[r] /\ received'[r] = received[r] /\ stream'[r] = stream[r]
      <3>1. CASE SendRaw(p) BY <3>1, <1>2 DEF SendRaw, TypeOK
      <3>2. CASE HopTake(p) BY <3>2, <1>2 DEF HopTake, TypeOK
      <3>3. CASE HopSend(p) BY <3>3, <1>2 DEF HopSend, TypeOK
      <3>4. CASE HopBreak(p) BY <3>4, <1>2 DEF HopBreak, TypeOK
      <3>5. CASE Receive(p) BY <3>5, <1>2 DEF Receive, TypeOK
      <3>6. CASE DropReceiver(p) BY <3>6, <1>2 DEF DropReceiver, TypeOK
      <3>7. CASE /\ UNCHANGED <<produced, raw, held, tagged, received>>
                 /\ stream' = stream \/ (stream[p] = "open" /\ stream' = [stream EXCEPT ![p] = "eof"])
        BY <3>7, <1>2 DEF TypeOK
      <3> QED BY <1>2, <3>1, <3>2, <3>3, <3>4, <3>5, <3>6, <3>7, FlowActions
    <2> QED BY <2>1, FlowFrame
  <1>3. ASSUME ActionOf(r) PROVE FlowInv(r)'
    <2>1. /\ raw[r] \in Seq(Nat) /\ tagged[r] \in Seq(Nat) /\ received[r] \in Seq(Nat)
          /\ produced[r] \in Nat /\ held[r] \in Nat
      BY DEF TypeOK
    <2>2. FlowInv(r) OBVIOUS
    <2>3. CASE SendRaw(r)
      <3>1. /\ raw'[r] = Append(raw[r], produced[r] + 1) /\ produced'[r] = produced[r] + 1
            /\ UNCHANGED <<held, tagged, received, stream>>
        BY <2>3 DEF SendRaw, TypeOK
      <3> QED BY <2>1, <2>2, <3>1, FlowSendRaw DEF FlowInv
    <2>4. CASE HopTake(r)
      <3>1. /\ raw'[r] = Tail(raw[r]) /\ held'[r] = Head(raw[r]) /\ held[r] = 0 /\ raw[r] # <<>>
            /\ UNCHANGED <<produced, tagged, received, stream>>
        BY <2>4 DEF HopTake, TypeOK
      <3> QED BY <2>1, <2>2, <3>1, FlowHopTake DEF FlowInv
    <2>5. CASE HopSend(r)
      <3>1. /\ tagged'[r] = Append(tagged[r], held[r]) /\ held'[r] = 0 /\ held[r] # 0
            /\ stream[r] # "gone" /\ UNCHANGED <<produced, raw, received, stream>>
        BY <2>5 DEF HopSend, TypeOK, poolVars
      <3> QED BY <2>1, <2>2, <3>1, FlowHopSend DEF FlowInv
    <2>6. CASE HopBreak(r)
      <3>1. UNCHANGED <<tagged, received, stream>> /\ stream[r] = "gone"
        BY <2>6 DEF HopBreak
      <3> QED BY <2>2, <3>1 DEF FlowInv
    <2>7. CASE Receive(r)
      <3>1. /\ received'[r] = Append(received[r], Head(tagged[r])) /\ tagged'[r] = Tail(tagged[r])
            /\ tagged[r] # <<>> /\ UNCHANGED <<produced, raw, held, stream>>
        BY <2>7 DEF Receive, TypeOK
      <3> QED BY <2>1, <2>2, <3>1, FlowReceive DEF FlowInv
    <2>8. CASE DropReceiver(r)
      <3>1. tagged'[r] = <<>> /\ UNCHANGED received /\ stream'[r] = "gone"
        BY <2>8 DEF DropReceiver, TypeOK
      <3> QED BY <2>2, <3>1, EmptyType DEF FlowInv, InOrder
    <2>9. CASE /\ UNCHANGED <<produced, raw, held, tagged, received>>
               /\ stream' = stream \/ (stream[r] = "open" /\ stream' = [stream EXCEPT ![r] = "eof"])
      <3>1. stream'[r] = "gone" <=> stream[r] = "gone"
        BY <2>9 DEF TypeOK
      <3> QED BY <2>2, <2>9, <3>1, FlowFrame
    <2> QED BY <1>3, <2>3, <2>4, <2>5, <2>6, <2>7, <2>8, <2>9, FlowActions
  <1>4. CASE UNCHANGED vars
    BY <1>4, FlowFrame DEF vars
  <1> QED BY <1>1, <1>2, <1>3, <1>4, NextCases

-----------------------------------------------------------------------------
(* The slots.                                                              *)
LEMMA ActiveFinite == IsFiniteSet(Active) /\ Cardinality(Active) \in Nat
  <1>1. IsFiniteSet(Producer)
    BY FS_Interval, PoolAssumption DEF Producer
  <1>2. Active \subseteq Producer BY DEF Active
  <1> QED BY <1>1, <1>2, FS_Subset, FS_CardinalityType

SlotInv == Cardinality(Active) <= kicks

LEMMA InitSlotInv == Init => SlotInv
  <1> SUFFICES ASSUME Init PROVE SlotInv
    OBVIOUS
  <1>1. Active = {} BY DEF Init, Active
  <1> QED BY <1>1, FS_EmptySet DEF SlotInv, Init

(* A chain hands its slot to the next producer; only a round of the loop   *)
(* adds one.                                                               *)
LEMMA NextSlotInv == TypeOK /\ QueueInv /\ SlotInv /\ [Next]_vars => SlotInv'
  <1> SUFFICES ASSUME TypeOK, QueueInv, SlotInv, [Next]_vars PROVE SlotInv'
    OBVIOUS
  <1>0. /\ IsFiniteSet(Active) /\ Cardinality(Active) \in Nat /\ kicks \in Nat
        /\ Cardinality(Active) <= kicks /\ front \in Nat
    BY ActiveFinite, MaxConcurrentType DEF TypeOK, SlotInv
  <1>q. front <= N => front \in Producer /\ pc[front] = "queued" /\ front \notin Active
    BY PoolAssumption DEF QueueInv, TypeOK, Producer, Active
  <1>1. CASE Kick
    <2>1. kicks' = kicks + 1 BY <1>1 DEF Kick
    <2>2. CASE front <= N
      <3>1. pc' = [pc EXCEPT ![front] = "spawned"]
        BY <1>1, <2>2 DEF Kick, StartNextProducer
      <3>2. Active' = Active \cup {front}
        BY <1>q, <2>2, <3>1 DEF Active, TypeOK
      <3>3. Cardinality(Active') = Cardinality(Active) + 1
        BY <1>0, <1>q, <2>2, <3>2, FS_AddElement
      <3> QED BY <1>0, <2>1, <3>3 DEF SlotInv
    <2>3. CASE ~(front <= N)
      <3>1. Active' = Active
        BY <1>1, <2>3 DEF Kick, StartNextProducer, Active
      <3> QED BY <1>0, <2>1, <3>1 DEF SlotInv
    <2> QED BY <2>2, <2>3
  <1>2. ASSUME NEW p \in Producer, ContinueChain(p) PROVE SlotInv'
    <2>1. kicks' = kicks /\ pc[p] = "closed" /\ p \in Active
      BY <1>2 DEF ContinueChain, Active
    <2>2. CASE front <= N
      <3>1. pc' = [[pc EXCEPT ![p] = "done"] EXCEPT ![front] = "spawned"]
        BY <1>2, <2>2 DEF ContinueChain, StartNextProducer
      <3>2. p # front BY <1>q, <2>1, <2>2
      <3>3. Active' = (Active \ {p}) \cup {front}
        BY <1>q, <2>1, <2>2, <3>1, <3>2 DEF Active, TypeOK
      <3>4. IsFiniteSet(Active \ {p}) /\ Cardinality(Active \ {p}) = Cardinality(Active) - 1
        BY <1>0, <2>1, FS_RemoveElement
      <3>5. Cardinality(Active') = Cardinality(Active \ {p}) + 1
        BY <1>q, <2>2, <3>3, <3>4, FS_AddElement
      <3>6. Cardinality(Active') = Cardinality(Active)
        BY <1>0, <3>4, <3>5
      <3> QED BY <1>0, <2>1, <3>6 DEF SlotInv
    <2>3. CASE ~(front <= N)
      <3>1. pc' = [pc EXCEPT ![p] = "done"]
        BY <1>2, <2>3 DEF ContinueChain, StartNextProducer
      <3>2. Active' = Active \ {p}
        BY <2>1, <3>1 DEF Active, TypeOK
      <3>3. Cardinality(Active') = Cardinality(Active) - 1
        BY <1>0, <2>1, <3>2, FS_RemoveElement
      <3> QED BY <1>0, <2>1, <3>3 DEF SlotInv
    <2> QED BY <2>2, <2>3
  <1>3. ASSUME NEW p \in Producer, ActionOf(p), ~ContinueChain(p) PROVE SlotInv'
    <2>1. kicks' = kicks
      BY <1>3 DEF ActionOf, RunOnFreeThread, RunWhileWaiting, JobStep, SpawnForwarder,
        FailEarly, Join, BeginSend, SendRaw, SendFails, ReturnFromProduce,
        RecordProducerError, DropSender, Fork, HopStep, HopTake, HopSend, HopBreak, HopExit,
        DrainStep, Receive, SeeEof, DropReceiver, poolVars
    <2>2. \/ pc' = pc
          \/ /\ pc[p] \notin {"queued", "done"}
             /\ \E s \in PCs \ {"queued", "done"} : pc' = [pc EXCEPT ![p] = s]
      BY <1>3 DEF ActionOf, RunOnFreeThread, RunWhileWaiting, JobStep, SpawnForwarder,
        FailEarly, Join, BeginSend, SendRaw, SendFails, ReturnFromProduce,
        RecordProducerError, DropSender, Fork, HopStep, HopTake, HopSend, HopBreak, HopExit,
        DrainStep, Receive, SeeEof, DropReceiver, poolVars, PCs
    <2>3. Active' = Active
      BY <2>2 DEF Active, TypeOK
    <2> QED BY <1>0, <2>1, <2>3 DEF SlotInv
  <1>4. CASE UNCHANGED vars
    BY <1>4 DEF vars, SlotInv, Active
  <1> QED BY <1>1, <1>2, <1>3, <1>4, NextCases

-----------------------------------------------------------------------------
LEMMA PoolInvParts ==
  PoolInv <=> TypeOK /\ QueueInv /\ SlotInv
              /\ \A p \in Producer : JobInv(p) /\ HopInv(p) /\ FlowInv(p)
  BY DEF PoolInv, QueueInv, SlotInv

LEMMA InitPoolInv == Init => PoolInv
  <1> SUFFICES ASSUME Init PROVE PoolInv
    OBVIOUS
  <1>1. QueueInv BY PoolAssumption DEF Init, QueueInv, Producer
  <1>2. ASSUME NEW p \in Producer PROVE JobInv(p) /\ HopInv(p)
    BY DEF Init, JobInv, HopInv, ProduceIsOver, SendersGone, TaskSenderDropped
  <1>3. ASSUME NEW p \in Producer PROVE FlowInv(p)
    BY EmptyType DEF Init, FlowInv, InOrder, NothingLost
  <1> QED BY <1>1, <1>2, <1>3, InitTypeOK, InitSlotInv, PoolInvParts

LEMMA NextPoolInv == PoolInv /\ [Next]_vars => PoolInv'
  <1> SUFFICES ASSUME PoolInv, [Next]_vars PROVE PoolInv'
    OBVIOUS
  <1>1. TypeOK /\ QueueInv /\ SlotInv
        /\ \A p \in Producer : JobInv(p) /\ HopInv(p) /\ FlowInv(p)
    BY PoolInvParts
  <1>2. TypeOK' /\ QueueInv' /\ SlotInv'
    BY <1>1, NextTypeOK, NextQueueInv, NextSlotInv
  <1>3. ASSUME NEW p \in Producer PROVE (JobInv(p) /\ HopInv(p) /\ FlowInv(p))'
    BY <1>1, NextJobInv, NextHopInv, NextFlowInv
  <1> QED BY <1>2, <1>3 DEF PoolInv, QueueInv, SlotInv

(* The inductive invariant holds throughout.                               *)
THEOREM PoolInvariant == Spec => []PoolInv
  <1> QED BY InitPoolInv, NextPoolInv, PTL DEF Spec

(* Never more producer jobs than max_concurrent.                           *)
THEOREM SlotsBounded == Spec => []SlotBound
  <1>1. PoolInv => SlotBound
    <2> SUFFICES ASSUME PoolInv PROVE SlotBound
      OBVIOUS
    <2>1. Cardinality(Active) <= kicks /\ kicks \in 0..MaxConcurrent
      BY DEF PoolInv, TypeOK
    <2> QED BY <2>1, ActiveFinite, MaxConcurrentType DEF SlotBound
  <1> QED BY <1>1, PoolInvariant, PTL

(* The end of a receiver is proof that its producer's error is recorded.   *)
THEOREM ErrorRecordedBeforeEof == Spec => []ErrorsBeforeEof
  <1>1. PoolInv => ErrorsBeforeEof
    BY DEF PoolInv, JobInv, ErrorsBeforeEof, SendersGone, TaskSenderDropped, ProduceIsOver
  <1> QED BY <1>1, PoolInvariant, PTL

(* Nothing is lost, doubled or reordered between produce and the drain.    *)
LEMMA EofMeansAllReceived ==
  ASSUME PoolInv, NEW p \in Producer,
         \/ stream[p] = "eof"
         \/ SendersGone(p) /\ tagged[p] = <<>> /\ stream[p] # "gone"
  PROVE  Len(received[p]) = produced[p]
  <1>1. JobInv(p) /\ HopInv(p) /\ FlowInv(p) /\ TypeOK
    BY DEF PoolInv
  <1>2. stream[p] # "gone" /\ SendersGone(p) /\ tagged[p] = <<>>
    BY <1>1 DEF JobInv, HopInv
  <1>3. held[p] = 0 /\ raw[p] = <<>>
    BY <1>1, <1>2 DEF HopInv, SendersGone
  <1>4. 0 = 0 => Len(received[p]) + Len(<<>>) = produced[p] - Len(<<>>)
    BY <1>1, <1>2, <1>3 DEF FlowInv, NothingLost
  <1>5. Len(received[p]) \in Nat /\ produced[p] \in Nat
    BY <1>1 DEF TypeOK
  <1> QED BY <1>4, <1>5, EmptyType

THEOREM Delivery == Spec => []DeliveredInOrder
  <1>1. PoolInv => DeliveredInOrder
    <2> SUFFICES ASSUME PoolInv, NEW p \in Producer
                 PROVE  /\ \A i \in 1..Len(received[p]) : received[p][i] = i
                        /\ stream[p] = "eof" => Len(received[p]) = produced[p]
      BY DEF DeliveredInOrder
    <2>1. FlowInv(p) BY DEF PoolInv
    <2>2. \A i \in 1..Len(received[p]) : received[p][i] = i
      BY <2>1 DEF FlowInv, InOrder
    <2> QED BY <2>2, EofMeansAllReceived
  <1> QED BY <1>1, PoolInvariant, PTL

-----------------------------------------------------------------------------
(* Every step of the stage is a step of BatchStreams or leaves its         *)
(* variables alone.                                                        *)
LEMMA StepRefines == PoolInv /\ [Next]_vars => [Streams!StreamsNext]_(Streams!streamVars)
  <1> SUFFICES ASSUME PoolInv, [Next]_vars
               PROVE  \/ \E p \in Producer :
                           \/ Streams!Emit(p) \/ Streams!Return(p) \/ Streams!Record(p)
                           \/ Streams!Deliver(p) \/ Streams!EndOfStream(p) \/ Streams!Drop(p)
                      \/ UNCHANGED <<produced, verdict, errors, received, stream>>
    BY DEF Streams!StreamsNext, Streams!streamVars, Streams!Producer, Producer
  <1> TypeOK BY DEF PoolInv
  <1>1. CASE Kick
    BY <1>1 DEF Kick, chanVars
  <1>2. ASSUME NEW p \in Producer, ActionOf(p)
        PROVE  \/ Streams!Emit(p) \/ Streams!Return(p) \/ Streams!Record(p)
               \/ Streams!Deliver(p) \/ Streams!EndOfStream(p) \/ Streams!Drop(p)
               \/ UNCHANGED <<produced, verdict, errors, received, stream>>
    <2>1. JobInv(p) /\ HopInv(p) /\ FlowInv(p) BY DEF PoolInv
    <2>2. CASE SendRaw(p)
      <3>1. verdict[p] = "pending" /\ produced[p] < MaxBatches
        BY <2>1, <2>2 DEF SendRaw, JobInv, ProduceIsOver
      <3> QED BY <2>2, <3>1 DEF SendRaw, Streams!Emit
    <2>3. CASE FailEarly(p) \/ SendFails(p) \/ ReturnFromProduce(p)
      <3>1. verdict[p] = "pending"
        BY <2>1, <2>3 DEF FailEarly, SendFails, ReturnFromProduce, JobInv, ProduceIsOver
      <3> QED BY <2>3, <3>1 DEF FailEarly, SendFails, ReturnFromProduce, chanVars, Streams!Return
    <2>4. CASE RecordProducerError(p)
      <3>1. stream[p] # "eof"
        BY <2>1, <2>4 DEF RecordProducerError, JobInv, SendersGone, TaskSenderDropped
      <3> QED BY <2>4, <3>1 DEF RecordProducerError, chanVars, Streams!Record
    <2>5. CASE Receive(p)
      <3>1. tagged[p] \in Seq(Nat) /\ tagged[p] # <<>> /\ received[p] \in Seq(Nat)
            /\ raw[p] \in Seq(Nat) /\ produced[p] \in Nat /\ held[p] \in Nat
            /\ stream[p] = "open"
        BY <2>5 DEF Receive, TypeOK
      <3>2. Head(tagged[p]) = Len(received[p]) + 1
        BY <2>1, <3>1, FlowReceive DEF FlowInv
      <3>3. Len(received[p]) < produced[p]
        <4>1. NothingLost(produced[p], raw[p], held[p], tagged[p], received[p])
          BY <2>1, <3>1 DEF FlowInv
        <4> QED BY <3>1, <4>1, TaggedWasProduced
      <3>4. received' = [received EXCEPT ![p] = Append(@, Len(@) + 1)]
        BY <2>5, <3>2 DEF Receive
      <3> QED BY <2>5, <3>1, <3>3, <3>4 DEF Receive, Streams!Deliver
    <2>6. CASE SeeEof(p)
      <3>1. stream[p] = "open" /\ tagged[p] = <<>> /\ SendersGone(p)
        BY <2>6 DEF SeeEof
      <3>2. Len(received[p]) = produced[p]
        BY <3>1, EofMeansAllReceived
      <3>3. verdict[p] # "pending" /\ (verdict[p] = "err" => p \in errors)
        BY <2>1, <3>1 DEF JobInv, SendersGone, TaskSenderDropped, ProduceIsOver
      <3> QED BY <2>6, <3>1, <3>2, <3>3 DEF SeeEof, Streams!EndOfStream
    <2>7. CASE DropReceiver(p)
      BY <2>7 DEF DropReceiver, Streams!Drop
    <2>8. CASE ~(SendRaw(p) \/ FailEarly(p) \/ SendFails(p) \/ ReturnFromProduce(p)
                 \/ RecordProducerError(p) \/ Receive(p) \/ SeeEof(p) \/ DropReceiver(p))
      BY <1>2, <2>8 DEF ActionOf, RunOnFreeThread, RunWhileWaiting, JobStep, SpawnForwarder,
        Join, BeginSend, DropSender, ContinueChain, Fork, HopStep, HopTake, HopSend,
        HopBreak, HopExit, DrainStep, chanVars
    <2> QED BY <2>2, <2>3, <2>4, <2>5, <2>6, <2>7, <2>8
  <1>3. CASE UNCHANGED vars
    BY <1>3 DEF vars
  <1> QED BY <1>1, <1>2, <1>3, NextCases

(* The produce stage implements the batch streams that main relies on.     *)
THEOREM Refinement == Spec => ImplementsStreams
  <1>1. Init => Streams!StreamsInit
    BY DEF Init, Streams!StreamsInit, Streams!Producer, Producer
  <1> QED BY <1>1, StepRefines, PoolInvariant, PTL
          DEF Spec, ImplementsStreams, Streams!StreamsSpec

(***************************************************************************)
(* The RML engine, for any mappings, files and placeholders, any order of  *)
(* triples maps, any batches and any capacity of the channel.              *)
(***************************************************************************)

(* ----- the file being worked on ----------------------------------------- *)
\* The triples maps that read the file.
Here == {m \in Doc : m.source = File}
\* What one of them means for record i.
Part(m, i) == Meant(Here, Records, m, Records[i])
Target == MeaningOfFiles(at)
IsWorking == at # 0 /\ status = "running"

Shape ==
    /\ input \in Inputs
    /\ at \in 0..Len(input.files)
    /\ current = [map |-> current.map, next |-> current.next, batch |-> current.batch]
    /\ current.next \in Nat
    /\ converter \in {"none", "running", "gone"}
    /\ at = 0 \/ status # "running" => Idle
    /\ at = 0 => todo = {}
    /\ Idle => current = NoMap
    /\ IsWorking => /\ Accepted(Conform(Prepared(input.graph, File)))
                    /\ todo \subseteq Doc
                    /\ converter # "none"
    /\ ~ Idle => current.map \in Here /\ current.map \notin todo

\* The cache of subjects is right, whoever filled it.
Known == \A m \in Doc : \A i \in Nat :
    <<m.id, i>> \in DOMAIN subjects => subjects[<<m.id, i>>] = Terms(m.subject, Records[i])

\* Nothing but what the mapping means is on its way.
Upper ==
    /\ delivered \subseteq Target
    /\ pending \subseteq Target
    /\ current.batch \subseteq Target
    /\ quads \in Seq(SUBSET Target)

All(s) == UNION {s[i] : i \in DOMAIN s}
Held == delivered \cup pending \cup All(quads) \cup current.batch

\* The records of a map that have been done.
Over(m, i) == m \notin todo /\ (Idle \/ m # current.map \/ i < current.next)

\* Nothing of it is lost while the triples are taken.
Lower == status = "running" /\ open =>
    /\ \A k \in 1..(at - 1) : MeaningOfFile(input.files[k]) \subseteq delivered
    /\ at # 0 => /\ \A m \in Doc : m \notin todo => m \in Here
                 /\ \A m \in Doc, i \in DOMAIN Records : Over(m, i) => Part(m, i) \subseteq Held

Ended ==
    /\ converter # "running" /\ open => pending = {} /\ quads = <<>>
    /\ status = "ok" => /\ at = Len(input.files)
                        /\ converter # "running"
                        /\ open => Target \subseteq delivered

EngineInv == Shape /\ Known /\ Upper /\ Lower /\ Ended

(* ----- sequences of batches --------------------------------------------- *)
LEMMA AllAppend ==
    ASSUME NEW S, NEW s \in Seq(S), NEW b
    PROVE  All(Append(s, b)) = All(s) \cup b
    <1>1. /\ Len(s) \in Nat /\ DOMAIN s = 1..Len(s)
          /\ DOMAIN Append(s, b) = 1..(Len(s) + 1)
          /\ \A i \in 1..Len(s) : Append(s, b)[i] = s[i]
          /\ Append(s, b)[Len(s) + 1] = b
        <2> DEFINE T == S \cup {b}
        <2>1. s \in Seq(T) /\ b \in T
            OBVIOUS
        <2> QED BY <2>1
    <1>2. ASSUME NEW x \in All(Append(s, b)) PROVE x \in All(s) \cup b
        <2>1. PICK i \in 1..(Len(s) + 1) : x \in Append(s, b)[i]
            BY <1>1, <1>2 DEF All
        <2>2. CASE i = Len(s) + 1 BY <2>1, <2>2, <1>1
        <2>3. CASE i # Len(s) + 1
            <3>1. i \in 1..Len(s) BY <2>3, <1>1
            <3> QED BY <3>1, <2>1, <1>1 DEF All
        <2> QED BY <2>2, <2>3
    <1>3. ASSUME NEW x \in All(s) PROVE x \in All(Append(s, b))
        <2>1. PICK i \in 1..Len(s) : x \in s[i] BY <1>1, <1>3 DEF All
        <2>2. i \in 1..(Len(s) + 1) BY <1>1
        <2> QED BY <2>1, <2>2, <1>1 DEF All
    <1>4. ASSUME NEW x \in b PROVE x \in All(Append(s, b))
        <2>1. Len(s) + 1 \in 1..(Len(s) + 1) BY <1>1
        <2> QED BY <2>1, <1>1, <1>4 DEF All
    <1> QED BY <1>2, <1>3, <1>4

LEMMA AllTail ==
    ASSUME NEW S, NEW s \in Seq(S), s # <<>>
    PROVE  All(s) = Head(s) \cup All(Tail(s))
    <1>1. /\ Len(s) \in Nat \ {0} /\ DOMAIN s = 1..Len(s)
          /\ Tail(s) \in Seq(S) /\ DOMAIN Tail(s) = 1..(Len(s) - 1)
          /\ \A i \in 1..(Len(s) - 1) : Tail(s)[i] = s[i + 1]
          /\ Head(s) = s[1]
        OBVIOUS
    <1>2. ASSUME NEW x \in All(s) PROVE x \in Head(s) \cup All(Tail(s))
        <2>1. PICK i \in 1..Len(s) : x \in s[i] BY <1>1, <1>2 DEF All
        <2>2. CASE i = 1 BY <2>1, <2>2, <1>1
        <2>3. CASE i # 1
            <3>1. i - 1 \in 1..(Len(s) - 1) /\ i = (i - 1) + 1 BY <2>3, <1>1
            <3>2. Tail(s)[i - 1] = s[i] BY <3>1, <1>1
            <3> QED BY <3>1, <3>2, <2>1, <1>1 DEF All
        <2> QED BY <2>2, <2>3
    <1>3. ASSUME NEW x \in Head(s) PROVE x \in All(s)
        <2>1. 1 \in 1..Len(s) BY <1>1
        <2> QED BY <2>1, <1>1, <1>3 DEF All
    <1>4. ASSUME NEW x \in All(Tail(s)) PROVE x \in All(s)
        <2>1. PICK i \in 1..(Len(s) - 1) : x \in Tail(s)[i] BY <1>1, <1>4 DEF All
        <2>2. i + 1 \in 1..Len(s) BY <1>1
        <2> QED BY <2>1, <2>2, <1>1 DEF All
    <1> QED BY <1>2, <1>3, <1>4

LEMMA AllEmpty == All(<<>>) = {}
    BY DEF All

(* ----- the mapping ------------------------------------------------------ *)
\* The records of the file are a sequence.
LEMMA RecordsAreListed ==
    ASSUME Shape, at # 0
    PROVE  Len(Records) \in Nat /\ DOMAIN Records = 1..Len(Records)
    <1>1. File \in DOMAIN input.data
        <2>1. input.files \in Seq(DOMAIN input.data) /\ at \in 1..Len(input.files)
            BY InputsAssumption DEF Shape
        <2> QED BY <2>1 DEF File
    <1>2. input.data[File] \in Seq(Range(input.data[File]))
        BY <1>1, InputsAssumption DEF Shape
    <1> QED BY <1>2 DEF Records

\* A triples map is known by its name.
LEMMA OneId ==
    ASSUME NEW g, NEW m \in Document(g), NEW n \in Document(g), m.id = n.id
    PROVE  m = n
    <1>1. PICK x \in TriplesMaps(g) : m = TriplesMap(g, x) BY DEF Document
    <1>2. PICK y \in TriplesMaps(g) : n = TriplesMap(g, y) BY DEF Document
    <1>3. m.id = x /\ n.id = y BY <1>1, <1>2 DEF TriplesMap
    <1> QED BY <1>1, <1>2, <1>3

LEMMA ParentIs ==
    ASSUME NEW join, NEW m \in Doc, m.id = join.parent
    PROVE  Parent(join) = m
    <1>1. Parent(join) \in Doc /\ Parent(join).id = join.parent
        BY DEF Parent
    <1> QED BY <1>1, OneId DEF Doc

LEMMA CachedIs ==
    ASSUME Known, NEW m \in Doc, NEW i \in Nat
    PROVE  Cached(m, i) = Terms(m.subject, Records[i])
    BY DEF Known, Cached

\* What a record gives is what the mapping means for it: objects that are
\* joined come from the cache or from the parent's records, all the same.
LEMMA RecordMeant ==
    ASSUME Shape, at # 0, Known, NEW m \in Here, NEW i \in DOMAIN Records,
           HasJoins(m) => ~ RecordFails(m, Records[i])
    PROVE  RecordQuads(m, Records[i]) = Part(m, i)
    <1> DEFINE r == Records[i]
               Pairs(j) == {q \in Here \X DOMAIN Records : q[1].id = j.parent /\ Matches(j, r, Records[q[2]])}
               Subjects(j) == UNION {Terms(q[1].subject, Records[q[2]]) : q \in Pairs(j)}
               Found(j) == UNION {Cached(Parent(j), k) : k \in Matching(j, r)}
    <1>1. ASSUME NEW pom \in m.poms, NEW j \in pom.joins PROVE Found(j) = Subjects(j)
        <2>1. ~ JoinFails(j, r)
            BY <1>1 DEF HasJoins, RecordFails
        <2>2. PICK p \in Doc : p.id = j.parent
            BY <2>1 DEF JoinFails
        <2>3. Parent(j) = p
            BY <2>2, ParentIs
        <2>4. p \in Here
            BY <2>1, <2>3 DEF JoinFails, Opens, Here
        <2>5. \A k \in Matching(j, r) : k \in Nat
            BY RecordsAreListed DEF Matching
        <2>6. \A k \in Matching(j, r) : Cached(Parent(j), k) = Terms(p.subject, Records[k])
            BY <2>3, <2>5, CachedIs
        <2>7. ASSUME NEW x \in Found(j) PROVE x \in Subjects(j)
            <3>1. PICK k \in Matching(j, r) : x \in Terms(p.subject, Records[k])
                BY <2>6, <2>7
            <3>2. <<p, k>> \in Pairs(j)
                BY <2>2, <2>4, <3>1 DEF Matching
            <3>3. <<p, k>>[1] = p /\ <<p, k>>[2] = k
                OBVIOUS
            <3> QED BY <3>1, <3>2, <3>3
        <2>8. ASSUME NEW x \in Subjects(j) PROVE x \in Found(j)
            <3>1. PICK q \in Pairs(j) : x \in Terms(q[1].subject, Records[q[2]])
                BY <2>8
            <3>2. q[1] = p
                <4>1. q[1] \in Doc /\ q[1].id = p.id BY <2>2 DEF Here
                <4> QED BY <4>1, OneId DEF Doc
            <3>3. q[2] \in Matching(j, r)
                BY DEF Matching
            <3> QED BY <3>1, <3>2, <3>3, <2>6
        <2> HIDE DEF Found, Subjects
        <2> QED BY <2>7, <2>8
    <1> DEFINE Objs(pom) == (UNION {Terms(gen, r) : gen \in pom.objects})
                              \cup UNION {Subjects(j) : j \in pom.joins}
    <1> HIDE DEF Pairs
    <1>2. ASSUME NEW pom \in m.poms PROVE Plain(pom, r) \cup Joined(pom, r) = Objs(pom)
        <2>1. Joined(pom, r) = UNION {Found(j) : j \in pom.joins}
            BY DEF Joined
        <2> HIDE DEF Found, Subjects
        <2>2. UNION {Found(j) : j \in pom.joins} = UNION {Subjects(j) : j \in pom.joins}
            BY <1>1, <1>2
        <2>3. Plain(pom, r) = UNION {Terms(gen, r) : gen \in pom.objects}
            BY DEF Plain
        <2>4. Joined(pom, r) = UNION {Subjects(j) : j \in pom.joins}
            BY <2>1, <2>2
        <2> HIDE DEF r
        <2> QED BY <2>3, <2>4
    <1> DEFINE subs == Terms(m.subject, r)
               Typed == {<<s, RdfType, Iri(c)>> : s \in subs, c \in m.classes}
               Said(pom) == {<<s, p, o>> : s \in subs, p \in Predicates(pom, r), o \in Plain(pom, r) \cup Joined(pom, r)}
               Meaned(pom) == {<<s, p, o>> : s \in subs, o \in Objs(pom),
                                             p \in UNION {Terms(gen, r) : gen \in pom.predicates}}
    <1>3. RecordQuads(m, r) = Typed \cup UNION {Said(pom) : pom \in m.poms}
        BY DEF RecordQuads
    <1>4. Part(m, i) = Typed \cup UNION {Meaned(pom) : pom \in m.poms}
        BY DEF Part, Meant, Pairs
    <1>5. ASSUME NEW pom \in m.poms PROVE Said(pom) = Meaned(pom)
        <2> HIDE DEF Objs, subs
        <2>1. Plain(pom, r) \cup Joined(pom, r) = Objs(pom)
            BY <1>2, <1>5
        <2>2. Predicates(pom, r) = UNION {Terms(gen, r) : gen \in pom.predicates}
            BY DEF Predicates
        <2> QED BY <2>1, <2>2
    <1> HIDE DEF Said, Meaned, Typed
    <1>6. UNION {Said(pom) : pom \in m.poms} = UNION {Meaned(pom) : pom \in m.poms}
        BY <1>5
    <1> QED BY <1>3, <1>4, <1>6 DEF r

LEMMA FileMeans ==
    ASSUME Shape, IsWorking
    PROVE  MeaningOfFile(File) = UNION {UNION {Part(m, i) : i \in DOMAIN Records} : m \in Here}
    BY DEF Shape, MeaningOfFile, Meaning, Part, Here, Doc, Records

LEMMA PartIsMeant ==
    ASSUME Shape, IsWorking, NEW m \in Here, NEW i \in DOMAIN Records
    PROVE  Part(m, i) \subseteq Target
    <1>1. Part(m, i) \subseteq MeaningOfFile(File)
        BY FileMeans
    <1>2. at \in 1..at
        BY DEF Shape, IsWorking
    <1> QED BY <1>1, <1>2 DEF Target, MeaningOfFiles, File

LEMMA SameFile ==
    ASSUME input' = input, at' = at
    PROVE  /\ File' = File /\ Doc' = Doc /\ Records' = Records /\ Here' = Here /\ Target' = Target
           /\ \A m, i : Part(m, i)' = Part(m, i)
    <1>1. File' = File BY DEF File
    <1>2. Doc' = Doc BY <1>1 DEF Doc
    <1>3. Records' = Records BY <1>1 DEF Records
    <1>4. Here' = Here BY <1>1, <1>2 DEF Here
    <1>5. Target' = Target BY DEF Target, MeaningOfFiles, MeaningOfFile
    <1>6. \A m, i : Part(m, i)' = Part(m, i) BY <1>3, <1>4 DEF Part
    <1> QED BY <1>1, <1>2, <1>3, <1>4, <1>5, <1>6

\* What other files mean does not change.
LEMMA SamePast ==
    ASSUME input' = input, at' = at
    PROVE  \A k \in 1..(at - 1) : MeaningOfFile(input.files[k])' = MeaningOfFile(input.files[k])
    BY DEF MeaningOfFile

\* A new table of subjects that is right where it is new is right.
LEMMA GrownIsKnown ==
    ASSUME Known, input' = input, at' = at, NEW more, subjects' = Grown(more),
           \A m \in Doc : \A i \in Nat :
               <<m.id, i>> \in DOMAIN more => more[<<m.id, i>>] = Terms(m.subject, Records[i])
    PROVE  Known'
    <1> SUFFICES ASSUME NEW m \in Doc, NEW i \in Nat, <<m.id, i>> \in DOMAIN subjects'
                 PROVE  subjects'[<<m.id, i>>] = Terms(m.subject, Records[i])
        BY SameFile DEF Known
    <1>1. DOMAIN subjects' = DOMAIN subjects \cup DOMAIN more
        BY DEF Grown
    <1>2. subjects'[<<m.id, i>>] = IF <<m.id, i>> \in DOMAIN more THEN more[<<m.id, i>>] ELSE subjects[<<m.id, i>>]
        BY <1>1 DEF Grown
    <1> QED BY <1>1, <1>2 DEF Known

LEMMA SameKnown ==
    ASSUME Known, input' = input, at' = at, subjects' = subjects
    PROVE  Known'
    BY SameFile DEF Known

(* ----- steps ------------------------------------------------------------ *)
LEMMA NoMapIs == NoMap = [map |-> NoMap.map, next |-> 0, batch |-> {}] /\ NoMap.next = 0 /\ NoMap.batch = {}
    BY DEF NoMap

\* An error ends the work; what is under way stays what it was.
LEMMA FailStep ==
    ASSUME Shape, Upper, Lower, Ended, status = "running", Fail, todo' \subseteq todo,
           UNCHANGED <<input, at, quads, pending, converter, delivered, open>>
    PROVE  Shape' /\ Upper' /\ Lower' /\ Ended'
    <1>1. status' = "failed" /\ current' = NoMap
        BY DEF Fail
    <1>2. Shape'
        BY <1>1, NoMapIs DEF Shape, Idle, IsWorking
    <1>3. Upper'
        BY <1>1, NoMapIs, SameFile DEF Upper
    <1>4. Lower'
        BY <1>1 DEF Lower
    <1>5. Ended'
        BY <1>1 DEF Ended
    <1> QED BY <1>2, <1>3, <1>4, <1>5

\* A record that is done, or a map: what is under way grows by its meaning.
LEMMA WorkStep ==
    ASSUME Shape, Upper, Lower, Ended, status = "running", ~ Idle, status' = status,
           UNCHANGED <<input, at, todo, pending, converter, delivered, open>>,
           NEW New \in SUBSET Target,
           \/ current' = NoMap /\ current.next > Len(Records)
           \/ /\ current' = [map |-> current.map, next |-> current.next + 1, batch |-> current'.batch]
              /\ Part(current.map, current.next) \subseteq New,
           quads' \in Seq(SUBSET Target),
           All(quads') \cup current'.batch = All(quads) \cup current.batch \cup New,
           converter = "running" \/ quads' = quads
    PROVE  Shape' /\ Upper' /\ Lower' /\ Ended'
    <1>1. at # 0 /\ IsWorking /\ IsWorking'
        BY DEF Shape, IsWorking
    <1>2. current.next \in Nat \ {0}
        BY DEF Shape, Idle
    <1>3. Shape'
        <2>1. CASE current' = NoMap
            BY <2>1, <1>1, NoMapIs, SameFile DEF Shape, Idle, IsWorking
        <2>2. CASE current' = [map |-> current.map, next |-> current.next + 1, batch |-> current'.batch]
            <3>1. current'.map = current.map /\ current'.next = current.next + 1
                BY <2>2
            <3>2. ~ Idle' /\ current'.next \in Nat
                BY <3>1, <1>2 DEF Idle
            <3> QED BY <2>2, <3>1, <3>2, <1>1, SameFile DEF Shape, IsWorking
        <2> QED BY <2>1, <2>2
    <1>4. All(quads) \subseteq Target
        <2>1. \A i \in DOMAIN quads : quads[i] \in SUBSET Target
            BY DEF Upper
        <2> QED BY <2>1 DEF All
    <1>5. Upper'
        <2>1. current'.batch \subseteq Target
            BY <1>4 DEF Upper
        <2> QED BY <2>1, SameFile DEF Upper
    <1>6. Lower'
        <2> SUFFICES ASSUME open PROVE Lower'
            BY DEF Lower
        <2>1. Held' = Held \cup New
            BY DEF Held
        <2>2. ASSUME NEW m \in Doc, NEW i \in DOMAIN Records, Over(m, i)' PROVE Part(m, i) \subseteq Held'
            <3>1. i \in Nat /\ i <= Len(Records)
                BY <1>1, RecordsAreListed
            <3>2. CASE Over(m, i)
                BY <3>2, <2>1, <1>1 DEF Lower
            <3>3. CASE ~ Over(m, i)
                <4>1. m = current.map /\ ~ (i < current.next)
                    BY <3>3, <2>2 DEF Over
                <4>2. current' # NoMap \/ ~ (current.next > Len(Records))
                    BY <4>1, <3>1, <1>2, RecordsAreListed, <1>1
                <4>3. current'.map = current.map /\ current'.next = current.next + 1
                    BY <4>2
                <4>4. i < current.next + 1
                    BY <4>1, <4>3, <1>2, <2>2 DEF Over, Idle
                <4>5. i = current.next
                    BY <4>1, <4>4, <3>1, <1>2
                <4> QED BY <4>1, <4>2, <4>5, <2>1
            <3> QED BY <3>2, <3>3
        <2>3. \A k \in 1..(at - 1) : MeaningOfFile(input.files[k])' \subseteq delivered'
            BY SamePast DEF Lower
        <2>4. \A m \in Doc : m \notin todo' => m \in Here
            BY <1>1 DEF Lower
        <2> QED BY <2>2, <2>3, <2>4, SameFile DEF Lower
    <1>7. Ended'
        BY SameFile DEF Ended, Shape, IsWorking
    <1> QED BY <1>3, <1>5, <1>6, <1>7

LEMMA StartMapStep ==
    ASSUME EngineInv, NEW m \in todo, StartMap(m)
    PROVE  EngineInv'
    <1>1. status = "running" /\ Idle /\ at # 0 /\ IsWorking /\ current = NoMap
        BY DEF EngineInv, Shape, StartMap, IsWorking
    <1>2. Known'
        BY SameKnown DEF EngineInv, StartMap
    <1>3. CASE Fail
        BY <1>1, <1>2, <1>3, FailStep DEF EngineInv, StartMap
    <1>4. CASE ~ Fail
        <2>1. /\ Opens(m) /\ status' = status /\ todo' = todo \ {m}
              /\ current' = [map |-> m, next |-> 1, batch |-> {}]
              /\ UNCHANGED <<input, at, quads, pending, converter, delivered, open>>
            BY <1>4 DEF StartMap
        <2>2. /\ m \in Here /\ current'.map = m /\ current'.next = 1 /\ current'.batch = {}
            BY <2>1, <1>1 DEF EngineInv, Shape, Opens, Here
        <2>3. ~ Idle' /\ IsWorking'
            BY <2>1, <2>2, <1>1 DEF Idle, IsWorking
        <2>4. Shape'
            BY <2>1, <2>2, <2>3, <1>1, SameFile DEF EngineInv, Shape
        <2>5. Upper'
            BY <2>1, <2>2, SameFile DEF EngineInv, Upper
        <2>6. Lower'
            <3> SUFFICES ASSUME open PROVE Lower'
                BY <2>1 DEF Lower
            <3>1. Held' = Held
                BY <2>1, <2>2, <1>1, NoMapIs DEF Held
            <3>2. \A n \in Doc : n \notin todo' => n \in Here
                BY <2>1, <2>2, <1>1 DEF EngineInv, Lower
            <3>3. ASSUME NEW n \in Doc, NEW i \in DOMAIN Records, Over(n, i)' PROVE Part(n, i) \subseteq Held
                <4>1. i \in Nat \ {0}
                    BY <1>1, RecordsAreListed DEF EngineInv
                <4>2. n \notin todo
                    BY <4>1, <3>3, <2>1, <2>2, <2>3 DEF Over
                <4> QED BY <4>2, <1>1 DEF EngineInv, Lower, Over
            <3>4. \A k \in 1..(at - 1) : MeaningOfFile(input.files[k])' \subseteq delivered'
                BY <2>1, <1>1, SamePast DEF EngineInv, Lower
            <3> QED BY <3>1, <3>2, <3>3, <3>4, <2>1, SameFile DEF Lower
        <2>7. Ended'
            BY <2>1, <1>1 DEF EngineInv, Ended
        <2> QED BY <1>2, <2>4, <2>5, <2>6, <2>7 DEF EngineInv
    <1> QED BY <1>3, <1>4

\* The parents of a record are triples maps of the document.
LEMMA ProcessRecordStep ==
    ASSUME EngineInv, ProcessRecord
    PROVE  EngineInv'
    <1> DEFINE m == current.map
               r == Records[current.next]
               batch == current.batch \cup RecordQuads(m, r)
               next == [current EXCEPT !.next = @ + 1]
               parents == UNION {UNION {{<<Parent(j), i>> : i \in Matching(j, r)} : j \in pom.joins} : pom \in m.poms}
               known == {<<m, current.next>>} \cup parents
               more == [k \in {<<q[1].id, q[2]>> : q \in known} |->
                            LET q == CHOOSE p \in known : k = <<p[1].id, p[2]>> IN Cached(q[1], q[2])]
    <1>1. status = "running" /\ ~ Idle /\ at # 0 /\ IsWorking /\ current.next \in 1..Len(Records)
        <2>1. status = "running" /\ ~ Idle /\ current.next <= Len(Records)
            BY DEF ProcessRecord, More
        <2>2. at # 0 /\ current.next \in Nat \ {0}
            BY <2>1 DEF EngineInv, Shape, Idle
        <2>3. Len(Records) \in Nat
            BY <2>2, RecordsAreListed DEF EngineInv
        <2> QED BY <2>1, <2>2, <2>3 DEF IsWorking
    <1>2. current.next \in DOMAIN Records /\ m \in Here /\ m \in Doc
        BY <1>1, RecordsAreListed DEF EngineInv, Shape, Here
    <1>3. UNCHANGED <<input, at, todo, pending, converter, delivered, open>>
        BY DEF ProcessRecord
    <1>4. CASE HasJoins(m) /\ RecordFails(m, r)
        <2>1. Fail /\ UNCHANGED <<quads, subjects>>
            BY <1>4 DEF ProcessRecord
        <2> QED BY <2>1, <1>1, <1>3, FailStep, SameKnown DEF EngineInv
    <1>5. CASE ~ (HasJoins(m) /\ RecordFails(m, r))
        <2>1. /\ subjects' = IF ~ HasJoins(m) THEN subjects ELSE Grown(more)
              /\ IF Cardinality(batch) >= QuadBatch
                 THEN Send(batch) /\ (status' = "failed" \/ current' = [next EXCEPT !.batch = {}])
                 ELSE current' = [next EXCEPT !.batch = batch] /\ UNCHANGED <<status, quads>>
            BY <1>5 DEF ProcessRecord
        <2>2. RecordQuads(m, r) = Part(m, current.next)
            BY <1>1, <1>2, <1>5, RecordMeant DEF EngineInv
        <2>3. Part(m, current.next) \subseteq Target
            BY <1>1, <1>2, PartIsMeant DEF EngineInv
        <2>4. Known'
            <3>1. CASE ~ HasJoins(m)
                BY <3>1, <2>1, <1>3, SameKnown DEF EngineInv
            <3>2. CASE HasJoins(m)
                <4>1. \A q \in known : q[1] \in Doc /\ q[2] \in Nat
                    <5>1. ASSUME NEW q \in parents PROVE q[1] \in Doc /\ q[2] \in Nat
                        <6>1. PICK pom \in m.poms : \E j \in pom.joins : \E i \in Matching(j, r) : q = <<Parent(j), i>>
                            BY <5>1
                        <6>. PICK j \in pom.joins : \E i \in Matching(j, r) : q = <<Parent(j), i>>
                            BY <6>1
                        <6>. PICK i \in Matching(j, r) : q = <<Parent(j), i>>
                            OBVIOUS
                        <6>2. ~ JoinFails(j, r)
                            BY <1>5, <3>2 DEF RecordFails
                        <6>3. PICK p \in Doc : p.id = j.parent
                            BY <6>2 DEF JoinFails
                        <6>4. Parent(j) \in Doc
                            BY <6>3, ParentIs
                        <6>5. i \in Nat
                            BY <1>1, RecordsAreListed DEF EngineInv, Matching
                        <6> QED BY <6>4, <6>5
                    <5>2. <<m, current.next>>[1] \in Doc /\ <<m, current.next>>[2] \in Nat
                        BY <1>1, <1>2
                    <5> HIDE DEF parents, m
                    <5> QED BY <5>1, <5>2
                <4> HIDE DEF known, m, r
                <4>2. ASSUME NEW n \in Doc, NEW i \in Nat, <<n.id, i>> \in DOMAIN more
                      PROVE  more[<<n.id, i>>] = Terms(n.subject, Records[i])
                    <5>1. DEFINE q == CHOOSE p \in known : <<n.id, i>> = <<p[1].id, p[2]>>
                    <5>2. more[<<n.id, i>>] = Cached(q[1], q[2])
                        BY <4>2
                    <5>3. \E p \in known : <<n.id, i>> = <<p[1].id, p[2]>>
                        BY <4>2
                    <5>4. q \in known /\ <<n.id, i>> = <<q[1].id, q[2]>>
                        BY <5>3
                    <5> HIDE DEF q
                    <5>5. q[1] = n /\ q[2] = i
                        BY <5>4, <4>1, OneId DEF Doc
                    <5> QED BY <5>2, <5>5, CachedIs DEF EngineInv
                <4> HIDE DEF more
                <4>3. subjects' = Grown(more)
                    BY <3>2, <2>1 DEF m
                <4> QED BY <4>2, <4>3, <1>3, GrownIsKnown DEF EngineInv
            <3> QED BY <3>1, <3>2
        <2> HIDE DEF more
        <2>5. /\ next = [map |-> m, next |-> current.next + 1, batch |-> current.batch]
              /\ [next EXCEPT !.batch = {}] = [map |-> m, next |-> current.next + 1, batch |-> {}]
              /\ [next EXCEPT !.batch = batch] = [map |-> m, next |-> current.next + 1, batch |-> batch]
            <3>1. current = [map |-> m, next |-> current.next, batch |-> current.batch]
                BY DEF EngineInv, Shape
            <3>2. next = [map |-> m, next |-> current.next + 1, batch |-> current.batch]
                BY <3>1
            <3> HIDE DEF next, m, batch
            <3> QED BY <3>2
        <2> HIDE DEF next
        <2>6. CASE Fail
            <3>1. UNCHANGED quads
                BY <2>6, <2>1, <1>1 DEF Fail, Send
            <3> QED BY <3>1, <2>4, <2>6, <1>1, <1>3, FailStep DEF EngineInv
        <2>7. CASE ~ Fail
            <3> DEFINE New == Part(m, current.next)
            <3>1. /\ status' = status
                  /\ \/ current' = [next EXCEPT !.batch = batch] /\ quads' = quads
                     \/ current' = [next EXCEPT !.batch = {}] /\ quads' = Append(quads, batch) /\ converter # "gone"
                BY <2>1, <2>7, <1>1 DEF Send
            <3>2. batch = current.batch \cup New /\ batch \subseteq Target
                BY <2>2, <2>3 DEF EngineInv, Upper
            <3>3. converter = "running" \/ quads' = quads
                BY <3>1, <1>1 DEF EngineInv, Shape
            <3>4. quads \in Seq(SUBSET Target)
                BY DEF EngineInv, Upper
            <3> HIDE DEF batch, New
            <3>5. quads' \in Seq(SUBSET Target)
                BY <3>1, <3>2, <3>4
            <3>6. current' = [map |-> m, next |-> current.next + 1, batch |-> current'.batch]
                BY <3>1, <2>5
            <3>7. All(quads') \cup current'.batch = All(quads) \cup current.batch \cup New
                <4>1. CASE current' = [next EXCEPT !.batch = batch] /\ quads' = quads
                    <5>1. current'.batch = batch BY <4>1, <2>5
                    <5> QED BY <4>1, <5>1, <3>2
                <4>2. CASE current' = [next EXCEPT !.batch = {}] /\ quads' = Append(quads, batch)
                    <5>1. current'.batch = {} BY <4>2, <2>5
                    <5>2. All(quads') = All(quads) \cup batch BY <4>2, <3>4, AllAppend
                    <5> QED BY <5>1, <5>2, <3>2
                <4> QED BY <3>1, <4>1, <4>2
            <3>8. New \in SUBSET Target /\ Part(m, current.next) \subseteq New
                BY <2>3 DEF New
            <3>9. Shape' /\ Upper' /\ Lower' /\ Ended'
                BY <3>1, <3>3, <3>5, <3>6, <3>7, <3>8, <1>1, <1>3, WorkStep DEF EngineInv
            <3> QED BY <3>9, <2>4 DEF EngineInv
        <2> QED BY <2>6, <2>7
    <1> QED BY <1>4, <1>5

LEMMA FinishMapStep ==
    ASSUME EngineInv, FinishMap
    PROVE  EngineInv'
    <1> DEFINE m == current.map
               more == [k \in {<<m.id, i>> : i \in DOMAIN Records} |-> Terms(m.subject, Records[k[2]])]
    <1>1. /\ status = "running" /\ ~ Idle /\ at # 0 /\ current.next > Len(Records) /\ m \in Doc
          /\ UNCHANGED <<input, at, todo, pending, converter, delivered, open>>
          /\ current' = NoMap
        BY DEF FinishMap, EngineInv, Shape, Here
    <1>2. Known'
        <2>1. CASE HasJoins(m)
            BY <2>1, <1>1, SameKnown DEF EngineInv, FinishMap
        <2>2. CASE ~ HasJoins(m)
            <3>1. subjects' = Grown(more)
                BY <2>2 DEF FinishMap
            <3>2. ASSUME NEW n \in Doc, NEW i \in Nat, <<n.id, i>> \in DOMAIN more
                  PROVE  more[<<n.id, i>>] = Terms(n.subject, Records[i])
                <4>1. PICK j \in DOMAIN Records : <<n.id, i>> = <<m.id, j>>
                    BY <3>2
                <4>2. n = m /\ i = j
                    BY <4>1, <1>1, OneId DEF Doc
                <4>3. more[<<m.id, i>>] = Terms(m.subject, Records[<<m.id, i>>[2]])
                    BY <4>2
                <4> QED BY <4>2, <4>3
            <3> HIDE DEF more
            <3> QED BY <3>1, <3>2, <1>1, GrownIsKnown DEF EngineInv
        <2> QED BY <2>1, <2>2
    <1>3. IF current.batch = {} THEN UNCHANGED <<status, quads>> ELSE Send(current.batch)
        BY DEF FinishMap
    <1>4. CASE status' = "failed"
        <2>1. UNCHANGED quads /\ Fail
            BY <1>4, <1>3, <1>1 DEF Fail, Send
        <2> QED BY <2>1, <1>1, <1>2, FailStep DEF EngineInv
    <1>5. CASE status' # "failed"
        <2>1. /\ status' = status
              /\ \/ quads' = quads /\ current.batch = {}
                 \/ quads' = Append(quads, current.batch) /\ converter = "running"
            BY <1>5, <1>3, <1>1 DEF Send, Fail, EngineInv, Shape, IsWorking
        <2>2. quads \in Seq(SUBSET Target) /\ current.batch \in SUBSET Target
            BY DEF EngineInv, Upper
        <2>3. quads' \in Seq(SUBSET Target)
            BY <2>1, <2>2
        <2>4. current'.batch = {}
            BY <1>1, NoMapIs
        <2>5. All(quads') \cup current'.batch = All(quads) \cup current.batch \cup {}
            <3>1. CASE quads' = quads /\ current.batch = {}
                BY <3>1, <2>4
            <3>2. CASE quads' = Append(quads, current.batch)
                <4>1. All(quads') = All(quads) \cup current.batch
                    BY <3>2, <2>2, AllAppend
                <4> QED BY <4>1, <2>4
            <3> QED BY <2>1, <3>1, <3>2
        <2>6. {} \in SUBSET Target
            OBVIOUS
        <2>7. Shape' /\ Upper' /\ Lower' /\ Ended'
            BY <2>1, <2>3, <2>5, <2>6, <1>1, WorkStep DEF EngineInv
        <2> QED BY <2>7, <1>2 DEF EngineInv
    <1> QED BY <1>4, <1>5

LEMMA NextFileStep ==
    ASSUME EngineInv, NextFile
    PROVE  EngineInv'
    <1> DEFINE g == Conform(Prepared(input.graph, input.files[at + 1]))
    <1>1. /\ status = "running" /\ Idle /\ todo = {} /\ converter # "running" /\ at < Len(input.files)
          /\ at' = at + 1 /\ subjects' = NoSubjects /\ quads' = <<>> /\ pending' = {}
          /\ UNCHANGED <<input, delivered, open>>
          /\ current = NoMap
        BY DEF NextFile, EngineInv, Shape
    <1>2. IF Accepted(g) THEN /\ todo' = Document(g) /\ converter' = "running"
                              /\ UNCHANGED <<status, current>>
                         ELSE Fail /\ UNCHANGED <<todo, converter>>
        BY DEF NextFile
    <1>3. File' = input.files[at + 1] /\ Doc' = Document(g) /\ Conform(Prepared(input.graph, File))' = g
        <2>1. File' = input.files[at + 1]
            BY <1>1 DEF File
        <2> QED BY <2>1, <1>1 DEF Doc
    <1>4. current' = NoMap /\ at \in Nat /\ Len(input.files) \in Nat
        <2>1. input.files \in Seq(DOMAIN input.data)
            BY InputsAssumption DEF EngineInv, Shape
        <2> QED BY <1>1, <1>2, <2>1 DEF Fail, EngineInv, Shape
    <1>5. status' = "running" => Accepted(g) /\ todo' = Document(g) /\ converter' = "running"
        BY <1>1, <1>2 DEF Fail
    <1>6. status' \in {"running", "failed"}
        BY <1>1, <1>2 DEF Fail
    <1> HIDE DEF g
    <1>7. Shape'
        <2>1. at' \in 0..Len(input'.files) /\ at' # 0
            BY <1>1, <1>4
        <2>2. converter' \in {"none", "running", "gone"}
            BY <1>2 DEF EngineInv, Shape
        <2>3. Idle'
            BY <1>4, NoMapIs DEF Idle
        <2>4. status' = "running" => /\ Accepted(Conform(Prepared(input.graph, File)))'
                                     /\ todo' \subseteq Doc' /\ converter' # "none"
            BY <1>3, <1>5
        <2> QED BY <2>1, <2>2, <2>3, <2>4, <1>1, <1>4, NoMapIs DEF EngineInv, Shape, IsWorking
    <1>8. Known'
        BY <1>1 DEF Known, NoSubjects
    <1>9. Target \subseteq Target'
        <2>1. 1..at \subseteq 1..(at + 1)
            BY <1>4
        <2> QED BY ZenonT(30), <2>1, <1>1 DEF Target, MeaningOfFiles, MeaningOfFile
    <1>10. Upper'
        <2>1. delivered' \subseteq Target' /\ pending' \subseteq Target' /\ current'.batch \subseteq Target'
            BY <1>1, <1>4, <1>9, NoMapIs DEF EngineInv, Upper
        <2> QED BY <2>1, <1>1 DEF Upper
    <1>11. Lower'
        <2> SUFFICES ASSUME status' = "running", open PROVE Lower'
            BY <1>1 DEF Lower
        <2>1. pending = {} /\ quads = <<>>
            BY <1>1 DEF EngineInv, Ended
        <2>2. Held = delivered
            BY <2>1, <1>1, NoMapIs, AllEmpty DEF Held
        <2>3. ASSUME NEW k \in 1..at PROVE MeaningOfFile(input.files[k]) \subseteq delivered
            <3>1. CASE k # at
                <4>1. k \in 1..(at - 1) BY <3>1, <1>4
                <4> QED BY <4>1, <1>1 DEF EngineInv, Lower
            <3>2. CASE k = at
                <4>1. IsWorking /\ at # 0
                    BY <3>2, <1>1, <1>4 DEF IsWorking
                <4>2. MeaningOfFile(File) = UNION {UNION {Part(m, i) : i \in DOMAIN Records} : m \in Here}
                    BY <4>1, FileMeans DEF EngineInv
                <4>3. \A m \in Here, i \in DOMAIN Records : Part(m, i) \subseteq Held
                    BY <4>1, <1>1 DEF EngineInv, Lower, Over, Here
                <4> QED BY <4>2, <4>3, <2>2, <3>2 DEF File
            <3> QED BY <3>1, <3>2
        <2>4. \A k \in 1..(at' - 1) : MeaningOfFile(input.files[k])' \subseteq delivered'
            <3>1. at' - 1 = at BY <1>1, <1>4
            <3> QED BY <3>1, <2>3, <1>1 DEF MeaningOfFile
        <2>5. \A m \in Doc' : m \in todo'
            BY <1>3, <1>5
        <2> QED BY <2>4, <2>5 DEF Lower, Over
    <1>12. Ended'
        BY <1>1, <1>6 DEF Ended
    <1> QED BY <1>7, <1>8, <1>10, <1>11, <1>12 DEF EngineInv

LEMMA ReturnStep ==
    ASSUME EngineInv, Return
    PROVE  EngineInv'
    <1>1. /\ status = "running" /\ Idle /\ todo = {} /\ at = Len(input.files) /\ converter # "running"
          /\ status' = "ok"
          /\ UNCHANGED <<input, at, todo, current, subjects, quads, pending, converter, delivered, open>>
        BY DEF Return, Done
    <1>2. Shape' /\ Known' /\ Upper'
        BY <1>1, SameFile DEF EngineInv, Shape, Known, Upper, Idle, IsWorking
    <1>3. Lower'
        BY <1>1 DEF Lower
    <1>4. open => Target \subseteq delivered
        <2> SUFFICES ASSUME open PROVE Target \subseteq delivered
            OBVIOUS
        <2>1. Held = delivered
            BY <1>1, NoMapIs, AllEmpty DEF EngineInv, Shape, Ended, Held
        <2>2. ASSUME NEW k \in 1..at PROVE MeaningOfFile(input.files[k]) \subseteq delivered
            <3>0. at \in Nat
                BY DEF EngineInv, Shape
            <3>1. CASE k # at
                <4>1. k \in 1..(at - 1) BY <3>1, <3>0
                <4> QED BY <4>1, <1>1 DEF EngineInv, Lower
            <3>2. CASE k = at
                <4>1. IsWorking /\ at # 0
                    BY <3>2, <3>0, <1>1 DEF IsWorking
                <4>2. MeaningOfFile(File) = UNION {UNION {Part(m, i) : i \in DOMAIN Records} : m \in Here}
                    BY <4>1, FileMeans DEF EngineInv
                <4>3. \A m \in Here, i \in DOMAIN Records : Part(m, i) \subseteq Held
                    BY <4>1, <1>1 DEF EngineInv, Lower, Over, Here
                <4> QED BY <4>2, <4>3, <2>1, <3>2 DEF File
            <3> QED BY <3>1, <3>2
        <2> QED BY <2>2 DEF Target, MeaningOfFiles
    <1>5. Ended'
        BY <1>1, <1>4, SameFile DEF EngineInv, Ended
    <1> QED BY <1>2, <1>3, <1>5 DEF EngineInv

\* The converter passes on what it holds, or drops it when nobody takes it.
LEMMA ConverterStep ==
    ASSUME EngineInv, Convert \/ ConverterEnds
    PROVE  EngineInv'
    <1>1. converter = "running" /\ UNCHANGED <<input, at, todo, current, subjects, status, open>>
        BY DEF Convert, ConverterEnds, executor
    <1>2. converter' \in {"running", "gone"} /\ delivered \subseteq delivered'
        BY <1>1 DEF Convert, ConverterEnds
    <1>3. Shape' /\ Known'
        BY <1>1, <1>2, SameFile DEF EngineInv, Shape, Known, Idle, IsWorking
    <1>4. quads \in Seq(SUBSET Target) /\ pending \subseteq Target /\ delivered \subseteq Target
        BY DEF EngineInv, Upper
    <1>5. /\ quads' \in Seq(SUBSET Target) /\ pending' \subseteq Target /\ delivered' \subseteq Target
          /\ open => delivered' \cup pending' \cup All(quads') = delivered \cup pending \cup All(quads)
        <2>1. CASE Convert
            <3>1. quads # <<>> /\ quads' = Tail(quads)
                BY <2>1 DEF Convert
            <3>2. Head(quads) \in SUBSET Target /\ Tail(quads) \in Seq(SUBSET Target)
                BY <3>1, <1>4
            <3>3. All(quads) = Head(quads) \cup All(Tail(quads))
                BY <3>1, <1>4, AllTail
            <3>4. \/ pending' = pending \cup Head(quads) /\ delivered' = delivered
                  \/ /\ pending' = {}
                     /\ delivered' = IF open THEN delivered \cup (pending \cup Head(quads)) ELSE delivered
                BY <2>1 DEF Convert
            <3> QED BY <3>1, <3>2, <3>3, <3>4, <1>4
        <2>2. CASE ConverterEnds
            BY <2>2, <1>4 DEF ConverterEnds
        <2> QED BY <2>1, <2>2
    <1>6. Upper'
        BY <1>1, <1>5, SameFile DEF EngineInv, Upper
    <1>7. Lower'
        <2> SUFFICES ASSUME status = "running", open PROVE Lower'
            BY <1>1 DEF Lower
        <2>1. Held' = Held
            BY <1>1, <1>5 DEF Held
        <2>2. \A k \in 1..(at - 1) : MeaningOfFile(input.files[k])' = MeaningOfFile(input.files[k])
            BY <1>1, SamePast
        <2>3. \A m, i : Over(m, i)' = Over(m, i)
            BY <1>1 DEF Over, Idle
        <2> QED BY <2>1, <2>2, <2>3, <1>1, <1>2, SameFile DEF EngineInv, Lower
    <1>8. Ended'
        <2>1. converter' # "running" /\ open => pending' = {} /\ quads' = <<>>
            BY <1>1 DEF Convert, ConverterEnds
        <2>2. status # "ok"
            BY <1>1 DEF EngineInv, Ended
        <2> QED BY <2>1, <2>2, <1>1 DEF Ended
    <1> QED BY <1>3, <1>6, <1>7, <1>8 DEF EngineInv

LEMMA CloseStep ==
    ASSUME EngineInv, Close \/ UNCHANGED engine
    PROVE  EngineInv'
    <1>1. /\ UNCHANGED <<input, at, todo, current, subjects, status, quads, pending, converter, delivered>>
          /\ open' => open
        BY DEF Close, engine, executor
    <1>2. Shape' /\ Known' /\ Upper'
        BY <1>1, SameFile DEF EngineInv, Shape, Known, Upper, Idle, IsWorking
    <1>3. Lower'
        <2> SUFFICES ASSUME status = "running", open PROVE Lower'
            BY <1>1 DEF Lower
        <2>1. Held' = Held
            BY <1>1 DEF Held
        <2>2. \A k \in 1..(at - 1) : MeaningOfFile(input.files[k])' = MeaningOfFile(input.files[k])
            BY <1>1, SamePast
        <2>3. \A m, i : Over(m, i)' = Over(m, i)
            BY <1>1 DEF Over, Idle
        <2> QED BY <2>1, <2>2, <2>3, <1>1, SameFile DEF EngineInv, Lower
    <1>4. Ended'
        BY <1>1, SameFile DEF EngineInv, Ended
    <1> QED BY <1>2, <1>3, <1>4 DEF EngineInv

LEMMA EngineStarts ==
    ASSUME RunInit
    PROVE  EngineInv
    <1>1. Len(input.files) \in Nat
        BY InputsAssumption DEF RunInit
    <1>2. Shape
        BY <1>1, NoMapIs DEF RunInit, Shape, Idle, IsWorking
    <1>3. Known
        BY DEF RunInit, Known, NoSubjects
    <1>4. Upper
        BY NoMapIs DEF RunInit, Upper
    <1>5. Lower
        BY DEF RunInit, Lower
    <1>6. Ended
        BY DEF RunInit, Ended
    <1> QED BY <1>2, <1>3, <1>4, <1>5, <1>6 DEF EngineInv

(* The inductive invariant of the engine: where it is, the cache of         *)
(* subjects, and the triples on their way, which are none but those meant   *)
(* and, while they are taken, all those meant by what has been done.        *)
THEOREM EngineInvariant == RunSpec => []EngineInv
    <1>1. RunInit => EngineInv
        BY EngineStarts
    <1>2. EngineInv /\ [RunNext]_engine => EngineInv'
        BY NextFileStep, StartMapStep, ProcessRecordStep, FinishMapStep, ReturnStep, ConverterStep, CloseStep
        DEF RunNext
    <1> QED BY <1>1, <1>2, PTL DEF RunSpec

(* For any mapping, files and records, any order of the triples maps, any   *)
(* sharing of subjects and any cut into batches: a run that succeeds while  *)
(* its triples are taken delivers exactly what the mapping means, and no    *)
(* run delivers anything else (execute_rml_streaming, Executor).            *)
THEOREM MappingsAreApplied == RunSpec => []MappingIsApplied
    <1>1. EngineInv => MappingIsApplied
        BY DEF EngineInv, Upper, Ended, Target, MappingIsApplied
    <1> QED BY <1>1, EngineInvariant, PTL

\* Each name the old vocabularies share with the new one is renamed back.
LEMMA RenamedBack ==
    ASSUME NEW p \in {"new"} \X SharedNames
    PROVE  Renamed(OldRml(p)) = p /\ Renamed(R2rml(p)) = p /\ Renamed(p) = p
    <1>1. PICK n \in SharedNames : p = <<"new", n>>
        OBVIOUS
    <1>2. p[1] = "new" /\ p[2] = n
        BY <1>1
    <1>3. CASE n \in {"logicalSource", "source", "referenceFormulation", "iterator", "reference"}
        <2>1. OldRml(p) = <<"rml", n>>
            BY <1>2, <1>3 DEF OldRml
        <2>2. Renamed(<<"rml", n>>) = <<"new", n>>
            BY <1>3 DEF Renamed, OldNames
        <2>3. R2rml(p) \in {<<"rml", n>>, <<"rr", "column">>} /\ (R2rml(p) = <<"rr", "column">> => n = "reference")
            BY <1>1, <2>1 DEF R2rml
        <2>4. Renamed(<<"rr", "column">>) = <<"new", "reference">> /\ Renamed(p) = p
            BY <1>1 DEF Renamed
        <2> QED BY <2>1, <2>2, <2>3, <2>4, <1>1
    <1>4. CASE n \notin {"logicalSource", "source", "referenceFormulation", "iterator", "reference"}
        <2>1. n \in R2rmlNames \ {"column"} /\ n # "baseIRI" /\ n # "reference"
            BY <1>4 DEF SharedNames, R2rmlNames
        <2>2. OldRml(p) = <<"rr", n>>
            BY <1>2, <1>4, <2>1 DEF OldRml
        <2>3. R2rml(p) = <<"rr", n>>
            BY <1>1, <2>1, <2>2 DEF R2rml
        <2>4. Renamed(<<"rr", n>>) = <<"new", n>>
            BY <2>1 DEF Renamed
        <2>5. Renamed(p) = p
            BY <1>1 DEF Renamed
        <2> QED BY <2>2, <2>3, <2>4, <2>5, <1>1
    <1> QED BY <1>3, <1>4

\* A mapping of shared names has no table, and conforming renames it back.
LEMMA ConformRespelled ==
    ASSUME NEW g, NEW h,
           \A u \in h : /\ u[2] # <<"rr", "logicalTable">>
                        /\ \E t \in g : u[1] = t[1] /\ Renamed(u[2]) = t[2] /\ u[3] = t[3],
           \A t \in g : \E u \in h : u[1] = t[1] /\ Renamed(u[2]) = t[2] /\ u[3] = t[3]
    PROVE  Conform(h) = {<<t[1], t[2], t[3]>> : t \in g}
    <1>1. Tables(h) = {}
        BY DEF Tables
    <1>2. FromTables(h) = {}
        BY <1>1 DEF FromTables
    <1>3. Conform(h) = {<<u[1], Renamed(u[2]), u[3]>> : u \in h}
        BY <1>1, <1>2 DEF Conform
    <1>4. ASSUME NEW x \in {<<u[1], Renamed(u[2]), u[3]>> : u \in h} PROVE x \in {<<t[1], t[2], t[3]>> : t \in g}
        <2>1. PICK u \in h : x = <<u[1], Renamed(u[2]), u[3]>>
            BY <1>4
        <2>2. PICK t \in g : u[1] = t[1] /\ Renamed(u[2]) = t[2] /\ u[3] = t[3]
            OBVIOUS
        <2> QED BY <2>1, <2>2
    <1>5. ASSUME NEW x \in {<<t[1], t[2], t[3]>> : t \in g} PROVE x \in {<<u[1], Renamed(u[2]), u[3]>> : u \in h}
        <2>1. PICK t \in g : x = <<t[1], t[2], t[3]>>
            BY <1>5
        <2>2. PICK u \in h : u[1] = t[1] /\ Renamed(u[2]) = t[2] /\ u[3] = t[3]
            OBVIOUS
        <2> QED BY <2>1, <2>2
    <1> QED BY <1>3, <1>4, <1>5

(* Whatever a mapping says: written in the old RML vocabulary or in R2RML   *)
(* it is accepted when it is in the new one, and gives the same triples     *)
(* maps (MappingConformer: convert_old_rml_to_new).                         *)
THEOREM SpellingIsFree == RunSpec => []SpellingDoesNotMatter
    <1>1. EngineInv => SpellingDoesNotMatter
        <2> SUFFICES ASSUME input \in Inputs PROVE SpellingDoesNotMatter
            BY DEF EngineInv, Shape
        <2> DEFINE modern == input.graph
                   old == {<<t[1], OldRml(t[2]), t[3]>> : t \in modern}
                   r2rml == {<<t[1], R2rml(t[2]), t[3]>> : t \in modern}
        <2>1. \A t \in modern : t[2] \in {"new"} \X SharedNames
            BY InputsAssumption
        <2>2. \A t \in modern : /\ Renamed(OldRml(t[2])) = t[2] /\ Renamed(R2rml(t[2])) = t[2] /\ Renamed(t[2]) = t[2]
                                /\ t[2] # <<"rr", "logicalTable">>
            BY <2>1, RenamedBack
        <2>3. Renamed(<<"rr", "logicalTable">>) = <<"rr", "logicalTable">>
            BY DEF Renamed, R2rmlNames
        <2>4. \A t \in modern : OldRml(t[2]) # <<"rr", "logicalTable">> /\ R2rml(t[2]) # <<"rr", "logicalTable">>
            BY <2>2, <2>3
        <2>5. Conform(modern) = {<<t[1], t[2], t[3]>> : t \in modern}
            BY <2>2, ConformRespelled
        <2>6. Conform(old) = {<<t[1], t[2], t[3]>> : t \in modern}
            <3>1. ASSUME NEW u \in old
                  PROVE  /\ u[2] # <<"rr", "logicalTable">>
                         /\ \E t \in modern : u[1] = t[1] /\ Renamed(u[2]) = t[2] /\ u[3] = t[3]
                <4>1. PICK t \in modern : u = <<t[1], OldRml(t[2]), t[3]>>
                    BY <3>1
                <4> QED BY <4>1, <2>2, <2>4
            <3>2. ASSUME NEW t \in modern
                  PROVE  \E u \in old : u[1] = t[1] /\ Renamed(u[2]) = t[2] /\ u[3] = t[3]
                <4>1. <<t[1], OldRml(t[2]), t[3]>> \in old
                    BY <3>2
                <4> QED BY <4>1, <2>2
            <3> HIDE DEF old, modern
            <3> QED BY <3>1, <3>2, ConformRespelled
        <2>7. Conform(r2rml) = {<<t[1], t[2], t[3]>> : t \in modern}
            <3>1. ASSUME NEW u \in r2rml
                  PROVE  /\ u[2] # <<"rr", "logicalTable">>
                         /\ \E t \in modern : u[1] = t[1] /\ Renamed(u[2]) = t[2] /\ u[3] = t[3]
                <4>1. PICK t \in modern : u = <<t[1], R2rml(t[2]), t[3]>>
                    BY <3>1
                <4> QED BY <4>1, <2>2, <2>4
            <3>2. ASSUME NEW t \in modern
                  PROVE  \E u \in r2rml : u[1] = t[1] /\ Renamed(u[2]) = t[2] /\ u[3] = t[3]
                <4>1. <<t[1], R2rml(t[2]), t[3]>> \in r2rml
                    BY <3>2
                <4> QED BY <4>1, <2>2
            <3> HIDE DEF r2rml, modern
            <3> QED BY <3>1, <3>2, ConformRespelled
        <2>8. \A x \in {old, r2rml} : Conform(x) = Conform(modern)
            BY <2>5, <2>6, <2>7
        <2> QED BY <2>8 DEF SpellingDoesNotMatter
    <1> QED BY <1>1, EngineInvariant, PTL
=============================================================================
