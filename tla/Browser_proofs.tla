---------------------------- MODULE Browser_proofs ----------------------------
(* Theorems about the browser build: the produce stage on its thread pool    *)
(* (BrowserPool), for any number of producers, threads and batches, and what *)
(* one worker keeps between requests (BrowserRun).                           *)
EXTENDS BrowserPool, BrowserRun, SequenceTheorems, TLAPS

(* ----- queues of jobs ----------------------------------------------------- *)
Threads == [deque : Seq(Job), stack : Seq(Job)]

(* No producer is in a queue twice.                                          *)
OneProduce(s) ==
    \A p \in Producer : \A i, j \in DOMAIN s : s[i] = Produce(p) /\ s[j] = Produce(p) => i = j

LEMMA Added ==
    ASSUME NEW s \in Seq(Job), NEW x \in Job
    PROVE  /\ Append(s, x) \in Seq(Job) /\ ToSet(Append(s, x)) = ToSet(s) \cup {x}
           /\ OneProduce(s) /\ x \notin ToSet(s) => OneProduce(Append(s, x))
           /\ OneProduce(s) /\ (\A p \in Producer : x # Produce(p)) => OneProduce(Append(s, x))
    <1> DEFINE a == Append(s, x)
    <1>1. /\ Len(s) \in Nat /\ DOMAIN s = 1 .. Len(s) /\ DOMAIN a = 1 .. (Len(s) + 1)
          /\ a \in Seq(Job) /\ a[Len(s) + 1] = x /\ \A i \in 1 .. Len(s) : a[i] = s[i]
        OBVIOUS
    <1> HIDE DEF a
    <1>2. 1 .. (Len(s) + 1) = 1 .. Len(s) \cup {Len(s) + 1}
        BY <1>1
    <1>3. ToSet(a) = ToSet(s) \cup {x}
        BY <1>1, <1>2 DEF ToSet
    <1>4. ASSUME OneProduce(s), x \notin ToSet(s) \/ \A p \in Producer : x # Produce(p)
          PROVE  OneProduce(a)
        <2> SUFFICES ASSUME NEW p \in Producer, NEW i \in DOMAIN a, NEW j \in DOMAIN a,
                            a[i] = Produce(p), a[j] = Produce(p)
                     PROVE  i = j
            BY DEF OneProduce
        <2>1. CASE i \in 1 .. Len(s) /\ j \in 1 .. Len(s)
            BY <1>1, <1>4, <2>1 DEF OneProduce
        <2>2. CASE i = Len(s) + 1 /\ j \in 1 .. Len(s)
            BY <1>1, <1>4, <2>2 DEF ToSet
        <2>3. CASE i \in 1 .. Len(s) /\ j = Len(s) + 1
            BY <1>1, <1>4, <2>3 DEF ToSet
        <2>4. CASE i = Len(s) + 1 /\ j = Len(s) + 1
            BY <2>4
        <2> QED BY <1>1, <1>2, <2>1, <2>2, <2>3, <2>4
    <1> QED BY <1>1, <1>3, <1>4 DEF a

LEMMA FirstTaken ==
    ASSUME NEW s \in Seq(Job), s # <<>>
    PROVE  /\ Head(s) \in Job /\ Tail(s) \in Seq(Job)
           /\ ToSet(s) = ToSet(Tail(s)) \cup {Head(s)}
           /\ OneProduce(s) =>
                 /\ OneProduce(Tail(s))
                 /\ \A p \in Producer : Head(s) = Produce(p) => Head(s) \notin ToSet(Tail(s))
    <1> DEFINE r == Tail(s)
    <1>1. /\ Len(s) \in Nat \ {0} /\ DOMAIN s = 1 .. Len(s) /\ \A i \in DOMAIN s : s[i] \in Job
          /\ r \in Seq(Job) /\ DOMAIN r = 1 .. (Len(s) - 1)
          /\ \A i \in 1 .. (Len(s) - 1) : r[i] = s[i + 1]
          /\ Head(s) = s[1]
        OBVIOUS
    <1> HIDE DEF r
    <1>2. ToSet(s) = ToSet(r) \cup {s[1]}
        <2>1. ASSUME NEW i \in 1 .. Len(s) PROVE s[i] \in ToSet(r) \cup {s[1]}
            <3>1. CASE i = 1
                BY <3>1
            <3>2. CASE i # 1
                <4>1. i - 1 \in DOMAIN r /\ r[i - 1] = s[i]
                    BY <1>1, <3>2
                <4> QED BY <4>1 DEF ToSet
            <3> QED BY <3>1, <3>2
        <2>2. ASSUME NEW i \in DOMAIN r PROVE r[i] \in ToSet(s)
            <3>1. i + 1 \in DOMAIN s /\ r[i] = s[i + 1]
                BY <1>1
            <3> QED BY <3>1 DEF ToSet
        <2>3. s[1] \in ToSet(s)
            BY <1>1 DEF ToSet
        <2> QED BY <1>1, <2>1, <2>2, <2>3 DEF ToSet
    <1>3. ASSUME OneProduce(s) PROVE OneProduce(r)
        <2> SUFFICES ASSUME NEW p \in Producer, NEW i \in DOMAIN r, NEW j \in DOMAIN r,
                            r[i] = Produce(p), r[j] = Produce(p)
                     PROVE  i = j
            BY DEF OneProduce
        <2>1. i + 1 \in DOMAIN s /\ j + 1 \in DOMAIN s /\ r[i] = s[i + 1] /\ r[j] = s[j + 1]
            BY <1>1
        <2>2. i + 1 = j + 1
            BY <1>3, <2>1 DEF OneProduce
        <2> QED BY <1>1, <2>2
    <1>4. ASSUME OneProduce(s), NEW p \in Producer, s[1] = Produce(p) PROVE s[1] \notin ToSet(r)
        <2> SUFFICES ASSUME NEW i \in DOMAIN r, r[i] = s[1] PROVE FALSE
            BY DEF ToSet
        <2>1. i + 1 \in DOMAIN s /\ s[i + 1] = Produce(p) /\ 1 \in DOMAIN s /\ i \in Nat \ {0}
            BY <1>1, <1>4
        <2>2. i + 1 = 1
            BY <1>4, <2>1 DEF OneProduce
        <2> QED BY <2>1, <2>2
    <1> QED BY <1>1, <1>2, <1>3, <1>4 DEF r

LEMMA LastTaken ==
    ASSUME NEW s \in Seq(Job), s # <<>>
    PROVE  /\ Last(s) \in Job /\ Front(s) \in Seq(Job)
           /\ ToSet(s) = ToSet(Front(s)) \cup {Last(s)}
           /\ OneProduce(s) =>
                 /\ OneProduce(Front(s))
                 /\ \A p \in Producer : Last(s) = Produce(p) => Last(s) \notin ToSet(Front(s))
    <1> DEFINE r == Front(s)
    <1>1. Len(s) \in Nat \ {0} /\ DOMAIN s = 1 .. Len(s) /\ \A i \in DOMAIN s : s[i] \in Job
        OBVIOUS
    <1>2. /\ r \in Seq(Job) /\ DOMAIN r = 1 .. (Len(s) - 1)
          /\ \A i \in 1 .. (Len(s) - 1) : r[i] = s[i]
        BY <1>1 DEF Front
    <1>3. Last(s) = s[Len(s)]
        BY DEF Last
    <1> HIDE DEF r
    <1>4. 1 .. Len(s) = 1 .. (Len(s) - 1) \cup {Len(s)}
        BY <1>1
    <1>5. ToSet(s) = ToSet(r) \cup {s[Len(s)]}
        BY <1>1, <1>2, <1>4 DEF ToSet
    <1>6. OneProduce(s) => OneProduce(r)
        BY <1>1, <1>2, <1>4 DEF OneProduce
    <1>7. ASSUME OneProduce(s), NEW p \in Producer, s[Len(s)] = Produce(p) PROVE s[Len(s)] \notin ToSet(r)
        <2> SUFFICES ASSUME NEW i \in DOMAIN r, r[i] = s[Len(s)] PROVE FALSE
            BY DEF ToSet
        <2>1. i \in DOMAIN s /\ s[i] = Produce(p) /\ Len(s) \in DOMAIN s /\ i # Len(s)
            BY <1>1, <1>2, <1>7
        <2> QED BY <1>7, <2>1 DEF OneProduce
    <1> QED BY <1>1, <1>2, <1>3, <1>5, <1>6, <1>7 DEF r

LEMMA NothingQueued == ToSet(<<>>) = {} /\ OneProduce(<<>>) /\ NoJob \in Threads /\ NoJob.deque = <<>> /\ NoJob.stack = <<>>
    BY DEF ToSet, OneProduce, NoJob, Threads

LEMMA Spawned ==
    ASSUME NEW s \in Seq(Job), NEW x \in Job
    PROVE  s \o <<x>> = Append(s, x) /\ s \o <<>> = s
    OBVIOUS

(* ----- the pool ----------------------------------------------------------- *)
PoolTypes == injected \in Seq(Job) /\ busy \subseteq Threads
Places == {"idle", "entered", "producing", "waiting", "sending",
           "returned", "recorded", "closed", "done"}
Alive(j) == Queued(j) \/ Running(j)

(* A producer's job is in one queue at most.                                 *)
Apart ==
    /\ OneProduce(injected)
    /\ \A t \in busy : OneProduce(t.deque)
    /\ \A p \in Producer, t \in busy : Produce(p) \in ToSet(t.deque) =>
          /\ Produce(p) \notin ToSet(injected)
          /\ \A u \in busy : Produce(p) \in ToSet(u.deque) => u = t

(* A producer that is queued, or whose turn has not come, has not begun.     *)
Waits ==
    \A p \in Producer :
        /\ Queued(Produce(p)) => pc[p] = "idle"
        /\ p >= front => pc[p] = "idle" /\ ~ Queued(Produce(p))

LEMMA ThreadTyped ==
    ASSUME PoolTypes, NEW t \in Thread
    PROVE  t \in Threads /\ (t \in busy \/ t = NoJob)
    BY NothingQueued DEF PoolTypes, Thread

(* A thread has other jobs than before.                                      *)
LEMMA BecomeFacts ==
    ASSUME PoolTypes, NEW t \in Thread, NEW t2 \in Threads, Become({t}, {t2})
    PROVE  /\ busy' \subseteq Threads
           /\ \A u \in busy' : u = t2 \/ (u \in busy /\ u # t)
           /\ \A u \in busy : u = t \/ u \in busy' \/ u = NoJob
           /\ t2 \in busy' \/ t2 = NoJob
           /\ \A j : (\E u \in busy' : j \in ToSet(u.deque))
                <=> j \in ToSet(t2.deque) \/ \E u \in busy \ {t} : j \in ToSet(u.deque)
           /\ \A j : (\E u \in busy' : j \in ToSet(u.stack))
                <=> j \in ToSet(t2.stack) \/ \E u \in busy \ {t} : j \in ToSet(u.stack)
    <1>1. busy' = ((busy \ {t}) \cup {t2}) \ {NoJob}
        BY DEF Become
    <1>2. busy' \subseteq Threads
        BY <1>1 DEF PoolTypes
    <1>3. ToSet(NoJob.deque) = {} /\ ToSet(NoJob.stack) = {}
        BY NothingQueued
    <1> QED BY <1>1, <1>2, <1>3

LEMMA BecomeApart ==
    ASSUME PoolTypes, Apart, NEW t \in Thread, NEW t2 \in Threads, Become({t}, {t2}),
           OneProduce(t2.deque), OneProduce(injected'),
           \A p \in Producer : Produce(p) \in ToSet(t2.deque) =>
                /\ Produce(p) \notin ToSet(injected')
                /\ Produce(p) \in ToSet(t.deque) \/ ~ Queued(Produce(p)),
           ToSet(injected') \subseteq ToSet(injected)
    PROVE  Apart'
    <1>1. \A u \in busy' : u = t2 \/ (u \in busy /\ u # t)
        BY BecomeFacts
    <1>2. \A u \in busy' : OneProduce(u.deque)
        BY <1>1 DEF Apart
    <1>3. t \in busy \/ ToSet(t.deque) = {}
        BY ThreadTyped, NothingQueued
    <1>4. ASSUME NEW p \in Producer, NEW u \in busy', Produce(p) \in ToSet(u.deque)
          PROVE  /\ Produce(p) \notin ToSet(injected')
                 /\ \A v \in busy' : Produce(p) \in ToSet(v.deque) => v = u
        <2>1. ASSUME NEW v \in busy, v # t, Produce(p) \in ToSet(v.deque) PROVE Produce(p) \notin ToSet(t2.deque)
            <3>1. Queued(Produce(p))
                BY <2>1 DEF Queued
            <3>2. Produce(p) \notin ToSet(t.deque)
                BY <1>3, <2>1 DEF Apart
            <3> QED BY <3>1, <3>2
        <2>2. CASE u = t2
            BY <1>1, <1>4, <2>1, <2>2
        <2>3. CASE u # t2
            <3>1. u \in busy /\ u # t
                BY <1>1, <2>3
            <3>2. Produce(p) \notin ToSet(injected')
                BY <1>4, <3>1 DEF Apart
            <3>3. \A v \in busy' : Produce(p) \in ToSet(v.deque) => v = u
                BY <1>1, <1>4, <2>1, <3>1 DEF Apart
            <3> QED BY <3>2, <3>3
        <2> QED BY <2>2, <2>3
    <1>5. OneProduce(injected)'
        BY DEF OneProduce
    <1>6. \A u \in busy' : OneProduce(u.deque)'
        BY <1>2 DEF OneProduce
    <1> QED BY <1>4, <1>5, <1>6 DEF Apart, ToSet

(* A thread takes a job: it was queued, and if it is a producer's it is      *)
(* queued no more; nothing else appears or is lost.                          *)
Taken(j) ==
    /\ Queued(j) /\ j \in Job
    /\ \A k : Alive(k) => Alive(k)'
    /\ \A k : Queued(k)' => Queued(k)
    /\ \A p \in Producer : j = Produce(p) => ~ Queued(j)'
    /\ PoolTypes' /\ Apart'

LEMMA RunFacts ==
    ASSUME NEW t \in Threads, NEW j \in Job
    PROVE  Run(t, j) = [deque |-> t.deque, stack |-> Append(t.stack, j)]
    <1>1. t = [deque |-> t.deque, stack |-> t.stack] /\ DOMAIN t = {"deque", "stack"}
        BY DEF Threads
    <1>2. \A s : [t EXCEPT !.stack = s] = [deque |-> t.deque, stack |-> s]
        BY <1>1
    <1> QED BY <1>2 DEF Run

LEMMA QueueFacts ==
    ASSUME NEW t \in Threads
    PROVE  /\ [t EXCEPT !.deque = Tail(@)] = [deque |-> Tail(t.deque), stack |-> t.stack]
           /\ \A j : [t EXCEPT !.deque = Append(@, j)] = [deque |-> Append(t.deque, j), stack |-> t.stack]
    <1>1. t = [deque |-> t.deque, stack |-> t.stack] /\ DOMAIN t = {"deque", "stack"}
        BY DEF Threads
    <1>2. \A d : [t EXCEPT !.deque = d] = [deque |-> d, stack |-> t.stack]
        BY <1>1
    <1> QED BY <1>2

LEMMA TakeOwnTakes ==
    ASSUME PoolTypes, Apart, NEW t \in Thread, TakeOwn(t)
    PROVE  Taken(Last(t.deque))
    <1> DEFINE j == Last(t.deque)
               t2 == [deque |-> Front(t.deque), stack |-> Append(t.stack, j)]
    <1>1. t \in Threads /\ t.deque # <<>> /\ t \in busy /\ UNCHANGED injected
        BY ThreadTyped, NothingQueued DEF TakeOwn
    <1>2. t.deque \in Seq(Job) /\ t.stack \in Seq(Job)
        BY <1>1 DEF Threads
    <1>3. /\ j \in Job /\ Front(t.deque) \in Seq(Job)
          /\ ToSet(t.deque) = ToSet(Front(t.deque)) \cup {j}
          /\ OneProduce(t.deque) =>
                /\ OneProduce(Front(t.deque))
                /\ \A p \in Producer : j = Produce(p) => j \notin ToSet(Front(t.deque))
        BY <1>1, <1>2, LastTaken
    <1>4. t2 = [Run(t, j) EXCEPT !.deque = Front(@)]
        <2>1. [[deque |-> t.deque, stack |-> Append(t.stack, j)] EXCEPT !.deque = Front(@)] = t2
            OBVIOUS
        <2> QED BY <1>1, <1>3, <2>1, RunFacts
    <1>5. Become({t}, {t2})
        BY <1>4 DEF TakeOwn
    <1>6. t2 \in Threads /\ t2.deque = Front(t.deque) /\ t2.stack = Append(t.stack, j)
          /\ ToSet(t2.stack) = ToSet(t.stack) \cup {j}
        BY <1>2, <1>3, Added DEF Threads
    <1> HIDE DEF j, t2
    <1>7. /\ busy' \subseteq Threads
          /\ \A k : (\E u \in busy' : k \in ToSet(u.deque))
                <=> k \in ToSet(t2.deque) \/ \E u \in busy \ {t} : k \in ToSet(u.deque)
          /\ \A k : (\E u \in busy' : k \in ToSet(u.stack))
                <=> k \in ToSet(t2.stack) \/ \E u \in busy \ {t} : k \in ToSet(u.stack)
        BY <1>1, <1>5, <1>6, BecomeFacts
    <1>8. OneProduce(t.deque) /\ OneProduce(injected)
        BY <1>1 DEF Apart
    <1>9. Queued(j)
        BY <1>1, <1>3 DEF Queued
    <1>10. \A k : Alive(k) => Alive(k)'
        BY <1>1, <1>3, <1>6, <1>7 DEF Alive, Queued, Running
    <1>11. \A k : Queued(k)' => Queued(k)
        BY <1>1, <1>3, <1>6, <1>7 DEF Queued
    <1>12. ASSUME NEW p \in Producer, j = Produce(p) PROVE ~ Queued(j)'
        <2>1. j \in ToSet(t.deque) /\ j \notin ToSet(t2.deque)
            BY <1>3, <1>6, <1>8, <1>12
        <2>2. j \notin ToSet(injected) /\ \A u \in busy \ {t} : j \notin ToSet(u.deque)
            BY <1>1, <1>12, <2>1 DEF Apart
        <2> QED BY <1>1, <1>7, <2>1, <2>2 DEF Queued
    <1>13. PoolTypes'
        BY <1>1, <1>7 DEF PoolTypes
    <1>14. Apart'
        <2>1. \A p \in Producer : Produce(p) \in ToSet(t2.deque) =>
                 Produce(p) \notin ToSet(injected') /\ Produce(p) \in ToSet(t.deque)
            BY <1>1, <1>3, <1>6 DEF Apart
        <2> QED BY <1>1, <1>3, <1>5, <1>6, <1>8, <2>1, BecomeApart
    <1> QED BY <1>3, <1>9, <1>10, <1>11, <1>12, <1>13, <1>14 DEF Taken, j

LEMMA TakeInjectedTakes ==
    ASSUME PoolTypes, Apart, NEW t \in Thread, TakeInjected(t), NEW j, j = Head(injected)
    PROVE  Taken(j)
    <1> DEFINE t2 == [deque |-> <<>>, stack |-> Append(t.stack, j)]
    <1>1. t \in Threads /\ t.deque = <<>> /\ (t \in busy \/ t = NoJob)
          /\ injected # <<>> /\ injected' = Tail(injected) /\ injected \in Seq(Job)
        BY ThreadTyped DEF TakeInjected, PoolTypes
    <1>2. t.stack \in Seq(Job)
        BY <1>1 DEF Threads
    <1>3. /\ j \in Job /\ injected' \in Seq(Job)
          /\ ToSet(injected) = ToSet(injected') \cup {j}
          /\ OneProduce(injected) =>
                /\ OneProduce(injected')
                /\ \A p \in Producer : j = Produce(p) => j \notin ToSet(injected')
        BY <1>1, FirstTaken
    <1>4. t2 = Run(t, j)
        BY <1>1, <1>3, RunFacts
    <1>5. Become({t}, {t2})
        BY <1>4 DEF TakeInjected
    <1>6. t2 \in Threads /\ t2.deque = <<>> /\ ToSet(t2.stack) = ToSet(t.stack) \cup {j}
        BY <1>2, <1>3, Added DEF Threads
    <1> HIDE DEF t2
    <1>7. /\ busy' \subseteq Threads
          /\ \A k : (\E u \in busy' : k \in ToSet(u.deque))
                <=> k \in ToSet(t2.deque) \/ \E u \in busy \ {t} : k \in ToSet(u.deque)
          /\ \A k : (\E u \in busy' : k \in ToSet(u.stack))
                <=> k \in ToSet(t2.stack) \/ \E u \in busy \ {t} : k \in ToSet(u.stack)
        BY <1>1, <1>5, <1>6, BecomeFacts
    <1>8. OneProduce(injected) /\ ToSet(t.deque) = {} /\ ToSet(t2.deque) = {} /\ OneProduce(t2.deque)
        BY <1>1, <1>6, NothingQueued DEF Apart
    <1>9. Queued(j)
        BY <1>3 DEF Queued
    <1>10. \A k : Alive(k) => Alive(k)'
        BY <1>3, <1>6, <1>7, <1>8 DEF Alive, Queued, Running
    <1>11. \A k : Queued(k)' => Queued(k)
        BY <1>3, <1>6, <1>7, <1>8 DEF Queued
    <1>12. ASSUME NEW p \in Producer, j = Produce(p) PROVE ~ Queued(j)'
        <2>1. j \in ToSet(injected) /\ j \notin ToSet(injected')
            BY <1>3, <1>8, <1>12
        <2>2. \A u \in busy : j \notin ToSet(u.deque)
            BY <1>12, <2>1 DEF Apart
        <2> QED BY <1>7, <1>8, <2>1, <2>2 DEF Queued
    <1>13. PoolTypes'
        BY <1>3, <1>7 DEF PoolTypes
    <1>14. Apart'
        BY <1>3, <1>5, <1>6, <1>8, BecomeApart
    <1> QED BY <1>3, <1>9, <1>10, <1>11, <1>12, <1>13, <1>14 DEF Taken

LEMMA StealTakes ==
    ASSUME PoolTypes, Apart, NEW t \in Thread, NEW u \in Thread \ {t}, Steal(t, u)
    PROVE  Taken(Head(u.deque))
    <1> DEFINE j == Head(u.deque)
               t2 == [deque |-> <<>>, stack |-> Append(t.stack, j)]
               u2 == [deque |-> Tail(u.deque), stack |-> u.stack]
    <1>1. /\ t \in Threads /\ u \in Threads /\ t.deque = <<>> /\ u.deque # <<>>
          /\ (t \in busy \/ t = NoJob) /\ u \in busy /\ UNCHANGED injected
        BY ThreadTyped, NothingQueued DEF Steal
    <1>2. t.stack \in Seq(Job) /\ u.deque \in Seq(Job) /\ u.stack \in Seq(Job)
        BY <1>1 DEF Threads
    <1>3. /\ j \in Job /\ Tail(u.deque) \in Seq(Job)
          /\ ToSet(u.deque) = ToSet(Tail(u.deque)) \cup {j}
          /\ OneProduce(u.deque) =>
                /\ OneProduce(Tail(u.deque))
                /\ \A p \in Producer : j = Produce(p) => j \notin ToSet(Tail(u.deque))
        BY <1>1, <1>2, FirstTaken
    <1>4. Become({t, u}, {t2, u2})
        <2>1. t2 = Run(t, j)
            BY <1>1, <1>3, RunFacts
        <2>2. u2 = [u EXCEPT !.deque = Tail(@)]
            BY <1>1, QueueFacts
        <2> QED BY <2>1, <2>2 DEF Steal
    <1>5. /\ t2 \in Threads /\ t2.deque = <<>> /\ ToSet(t2.stack) = ToSet(t.stack) \cup {j}
          /\ u2 \in Threads /\ u2.deque = Tail(u.deque) /\ u2.stack = u.stack
        BY <1>2, <1>3, Added DEF Threads
    <1> HIDE DEF j, t2, u2
    <1>6. busy' = ((busy \ {t, u}) \cup {t2, u2}) \ {NoJob}
        BY <1>4 DEF Become
    <1>7. /\ OneProduce(u.deque) /\ ToSet(t.deque) = {} /\ ToSet(t2.deque) = {} /\ OneProduce(t2.deque)
          /\ ToSet(NoJob.deque) = {} /\ ToSet(NoJob.stack) = {}
        BY <1>1, <1>5, NothingQueued DEF Apart
    <1>8. /\ \A k : (\E v \in busy' : k \in ToSet(v.deque))
                <=> k \in ToSet(u2.deque) \/ \E v \in busy \ {t, u} : k \in ToSet(v.deque)
          /\ \A k : (\E v \in busy' : k \in ToSet(v.stack))
                <=> k \in ToSet(t2.stack) \/ k \in ToSet(u2.stack)
                    \/ \E v \in busy \ {t, u} : k \in ToSet(v.stack)
        BY <1>6, <1>7
    <1>9. Queued(j)
        BY <1>1, <1>3 DEF Queued
    <1>10. \A k : Alive(k) => Alive(k)'
        BY <1>1, <1>3, <1>5, <1>7, <1>8 DEF Alive, Queued, Running
    <1>11. \A k : Queued(k)' => Queued(k)
        BY <1>1, <1>3, <1>5, <1>7, <1>8 DEF Queued
    <1>12. ASSUME NEW p \in Producer, j = Produce(p) PROVE ~ Queued(j)'
        <2>1. j \in ToSet(u.deque) /\ j \notin ToSet(u2.deque)
            BY <1>3, <1>5, <1>7, <1>12
        <2>2. j \notin ToSet(injected) /\ \A v \in busy \ {t, u} : j \notin ToSet(v.deque)
            BY <1>1, <1>12, <2>1 DEF Apart
        <2> QED BY <1>1, <1>8, <2>1, <2>2 DEF Queued
    <1>13. PoolTypes'
        BY <1>1, <1>5, <1>6 DEF PoolTypes
    <1>14. Apart'
        <2>1. \A v \in busy' : v = t2 \/ v = u2 \/ (v \in busy /\ v # u)
            BY <1>6
        <2>2. \A v \in busy' : OneProduce(v.deque)
            BY <1>3, <1>5, <1>7, <2>1 DEF Apart
        <2>3. ASSUME NEW p \in Producer, NEW v \in busy', Produce(p) \in ToSet(v.deque)
              PROVE  /\ Produce(p) \notin ToSet(injected)
                     /\ \A w \in busy' : Produce(p) \in ToSet(w.deque) => w = v
            <3>1. v # t2 /\ \A w \in busy' : Produce(p) \in ToSet(w.deque) => w # t2
                BY <1>7, <2>3
            <3>2. CASE v = u2
                <4>1. Produce(p) \in ToSet(u.deque)
                    BY <1>3, <1>5, <2>3, <3>2
                <4>2. /\ Produce(p) \notin ToSet(injected)
                      /\ \A w \in busy : Produce(p) \in ToSet(w.deque) => w = u
                    BY <1>1, <4>1 DEF Apart
                <4> QED BY <2>1, <3>1, <3>2, <4>2
            <3>3. CASE v # u2
                <4>1. v \in busy /\ v # u
                    BY <2>1, <3>1, <3>3
                <4>2. /\ Produce(p) \notin ToSet(injected)
                      /\ \A w \in busy : Produce(p) \in ToSet(w.deque) => w = v
                    BY <2>3, <4>1 DEF Apart
                <4>3. Produce(p) \notin ToSet(u2.deque)
                    BY <1>1, <1>3, <1>5, <4>1, <4>2
                <4> QED BY <2>1, <3>1, <4>2, <4>3
            <3> QED BY <3>2, <3>3
        <2> QED BY <1>1, <2>2, <2>3 DEF Apart, OneProduce, ToSet
    <1> QED BY <1>3, <1>9, <1>10, <1>11, <1>12, <1>13, <1>14 DEF Taken, j

(* Any way to take a job, with what starting it does to the producers.       *)
LEMMA JobIsTaken ==
    ASSUME PoolTypes, Apart, Waits, pc \in [Producer -> Places], NEW t \in Thread,
           TakeOwn(t) \/ TakeInjected(t) \/ \E u \in Thread \ {t} : Steal(t, u)
    PROVE  /\ \A k : Alive(k) => Alive(k)'
           /\ \A p \in Producer : pc'[p] = pc[p] \/ (pc[p] = "idle" /\ pc'[p] = "entered")
           /\ pc' \in [Producer -> Places]
           /\ PoolTypes' /\ Apart' /\ Waits'
           /\ UNCHANGED <<main, at, front, kicks, over, forked, verdict, errors, dataVars>>
    <1>1. \E j : Taken(j) /\ Start(j)
        <2>1. CASE TakeOwn(t)
            BY <2>1, TakeOwnTakes DEF TakeOwn
        <2>2. CASE TakeInjected(t)
            <3>1. PICK j : j = Head(injected)
                OBVIOUS
            <3>2. Taken(j)
                BY <2>2, <3>1, TakeInjectedTakes
            <3>3. Start(j)
                BY <2>2, <3>1 DEF TakeInjected
            <3> QED BY <3>2, <3>3
        <2>3. CASE \E u \in Thread \ {t} : Steal(t, u)
            BY <2>3, StealTakes DEF Steal
        <2> QED BY <2>1, <2>2, <2>3
    <1>2. PICK j : Taken(j) /\ Start(j)
        BY <1>1
    <1>3. /\ pc' = [p \in Producer |-> IF j = Produce(p) THEN "entered" ELSE pc[p]]
          /\ UNCHANGED <<main, at, front, kicks, over, forked, verdict, errors, dataVars>>
        BY <1>2 DEF Start
    <1>4. /\ Queued(j)
          /\ \A k : Alive(k) => Alive(k)'
          /\ \A k : Queued(k)' => Queued(k)
          /\ \A p \in Producer : j = Produce(p) => ~ Queued(Produce(p))'
          /\ PoolTypes' /\ Apart'
        BY <1>2 DEF Taken
    <1>5. \A p \in Producer : j = Produce(p) => pc[p] = "idle"
        BY <1>4 DEF Waits
    <1>6. pc' \in [Producer -> Places]
        BY <1>3 DEF Places
    <1>7. Waits'
        <2> SUFFICES ASSUME NEW p \in Producer
                     PROVE  /\ Queued(Produce(p))' => pc'[p] = "idle"
                            /\ p >= front => pc'[p] = "idle" /\ ~ Queued(Produce(p))'
            BY <1>3 DEF Waits, Produce
        <2>1. CASE j = Produce(p)
            <3>1. ~ (p >= front)
                BY <1>4, <2>1 DEF Waits
            <3> QED BY <1>4, <2>1, <3>1
        <2>2. CASE j # Produce(p)
            BY <1>3, <1>4, <2>2 DEF Waits
        <2> QED BY <2>1, <2>2
    <1> QED BY <1>3, <1>4, <1>5, <1>6, <1>7

(* A thread with a job spawns the jobs X and ends the jobs Y.                *)
LEMMA ThreadChanges ==
    ASSUME PoolTypes, Apart, NEW t \in busy, NEW t2 \in Threads, Become({t}, {t2}), UNCHANGED injected,
           NEW X, NEW Y, ToSet(t2.deque) = ToSet(t.deque) \cup X, OneProduce(t2.deque),
           ToSet(t.stack) \subseteq ToSet(t2.stack) \cup Y,
           \A p \in Producer : Produce(p) \in X => ~ Queued(Produce(p))
    PROVE  /\ PoolTypes' /\ Apart'
           /\ \A k : Alive(k) => Alive(k)' \/ k \in Y
           /\ \A k : Queued(k)' => Queued(k) \/ k \in X
           /\ \A k \in X : Alive(k)'
    <1>1. t \in Thread
        BY DEF Thread
    <1>2. /\ busy' \subseteq Threads
          /\ \A k : (\E u \in busy' : k \in ToSet(u.deque))
                <=> k \in ToSet(t2.deque) \/ \E u \in busy \ {t} : k \in ToSet(u.deque)
          /\ \A k : (\E u \in busy' : k \in ToSet(u.stack))
                <=> k \in ToSet(t2.stack) \/ \E u \in busy \ {t} : k \in ToSet(u.stack)
        BY <1>1, BecomeFacts
    <1>3. PoolTypes'
        BY <1>2 DEF PoolTypes
    <1>4. \A k : Alive(k) => Alive(k)' \/ k \in Y
        BY <1>2 DEF Alive, Queued, Running
    <1>5. \A k : Queued(k)' => Queued(k) \/ k \in X
        BY <1>2 DEF Queued
    <1>6. \A k \in X : Alive(k)'
        BY <1>2 DEF Alive, Queued
    <1>7. Apart'
        <2>1. OneProduce(injected')
            BY DEF Apart
        <2>2. ASSUME NEW p \in Producer, Produce(p) \in ToSet(t2.deque)
              PROVE  /\ Produce(p) \notin ToSet(injected')
                     /\ Produce(p) \in ToSet(t.deque) \/ ~ Queued(Produce(p))
            <3>1. CASE Produce(p) \in ToSet(t.deque)
                BY <3>1 DEF Apart
            <3>2. CASE Produce(p) \in X
                BY <3>2 DEF Queued
            <3> QED BY <2>2, <3>1, <3>2
        <2> QED BY <1>1, <2>1, <2>2, BecomeApart
    <1> QED BY <1>3, <1>4, <1>5, <1>6, <1>7

LEMMA JobEnds ==
    ASSUME PoolTypes, Apart, NEW t \in busy, NEW j \in Job, End(t, j, <<>>), UNCHANGED injected
    PROVE  /\ PoolTypes' /\ Apart' /\ over' = over \cup {j}
           /\ \A k : Alive(k) => Alive(k)' \/ k = j
           /\ \A k : Queued(k)' => Queued(k)
    <1> DEFINE t2 == [deque |-> t.deque \o <<>>, stack |-> Front(t.stack)]
    <1>1. t \in Threads /\ t.deque \in Seq(Job) /\ t.stack \in Seq(Job)
        BY DEF PoolTypes, Threads
    <1>2. Become({t}, {t2}) /\ t.stack # <<>> /\ Last(t.stack) = j /\ over' = over \cup {j}
        BY DEF End, On
    <1>3. Front(t.stack) \in Seq(Job) /\ ToSet(t.stack) = ToSet(Front(t.stack)) \cup {j}
        BY <1>1, <1>2, LastTaken
    <1>4. t2 \in Threads /\ t2.deque = t.deque /\ t2.stack = Front(t.stack)
        BY <1>1, <1>3 DEF Threads
    <1>5. OneProduce(t.deque)
        BY DEF Apart
    <1> HIDE DEF t2
    <1> DEFINE none == {}
    <1>6. ToSet(t2.deque) = ToSet(t.deque) \cup none /\ OneProduce(t2.deque)
          /\ ToSet(t.stack) \subseteq ToSet(t2.stack) \cup {j}
          /\ \A p \in Producer : Produce(p) \in none => ~ Queued(Produce(p))
        BY <1>3, <1>4, <1>5
    <1> HIDE DEF none
    <1>7. /\ PoolTypes' /\ Apart'
          /\ \A k : Alive(k) => Alive(k)' \/ k \in {j}
          /\ \A k : Queued(k)' => Queued(k) \/ k \in none
        BY <1>2, <1>4, <1>6, ThreadChanges
    <1> QED BY <1>2, <1>7 DEF none

(* The job of a producer spawns the next one with its last statement.        *)
LEMMA JobContinues ==
    ASSUME PoolTypes, Apart, NEW t \in busy, NEW j \in Job, NEW q \in Producer, ~ Queued(Produce(q)),
           End(t, j, <<Produce(q)>>), UNCHANGED injected
    PROVE  /\ PoolTypes' /\ Apart' /\ over' = over \cup {j}
           /\ \A k : Alive(k) => Alive(k)' \/ k = j
           /\ \A k : Queued(k)' => Queued(k) \/ k = Produce(q)
    <1> DEFINE x == Produce(q)
               t2 == [deque |-> t.deque \o <<x>>, stack |-> Front(t.stack)]
    <1>1. t \in Threads /\ t.deque \in Seq(Job) /\ t.stack \in Seq(Job) /\ x \in Job
        BY DEF PoolTypes, Threads, Produce, Job
    <1>2. Become({t}, {t2}) /\ t.stack # <<>> /\ Last(t.stack) = j /\ over' = over \cup {j}
        BY DEF End, On
    <1>3. Front(t.stack) \in Seq(Job) /\ ToSet(t.stack) = ToSet(Front(t.stack)) \cup {j}
        BY <1>1, <1>2, LastTaken
    <1>4. t2 \in Threads /\ t2.deque = Append(t.deque, x) /\ t2.stack = Front(t.stack)
        <2>1. t.deque \o <<x>> = Append(t.deque, x) /\ Append(t.deque, x) \in Seq(Job)
            BY <1>1, Spawned, Added
        <2> HIDE DEF x
        <2> QED BY <1>3, <2>1 DEF Threads
    <1>5. OneProduce(t.deque) /\ x \notin ToSet(t.deque)
        BY DEF Apart, Queued
    <1> HIDE DEF t2, x
    <1>6. ToSet(t2.deque) = ToSet(t.deque) \cup {x} /\ OneProduce(t2.deque)
          /\ ToSet(t.stack) \subseteq ToSet(t2.stack) \cup {j}
        BY <1>1, <1>3, <1>4, <1>5, Added
    <1>7. \A r \in Producer : Produce(r) \in {x} => ~ Queued(Produce(r))
        BY DEF x
    <1>8. /\ PoolTypes' /\ Apart'
          /\ \A k : Alive(k) => Alive(k)' \/ k \in {j}
          /\ \A k : Queued(k)' => Queued(k) \/ k \in {x}
        BY <1>2, <1>4, <1>6, <1>7, ThreadChanges
    <1> QED BY <1>2, <1>8 DEF x

LEMMA ForwarderSpawns ==
    ASSUME PoolTypes, Apart, NEW p \in Producer, SpawnForwarder(p)
    PROVE  /\ PoolTypes' /\ Apart'
           /\ \A k : Alive(k) => Alive(k)'
           /\ \A k : Queued(k)' => Queued(k) \/ k = Forward(p)
           /\ Alive(Forward(p))'
    <1> DEFINE x == Forward(p)
    <1>1. PICK t \in busy : Become({t}, {[t EXCEPT !.deque = Append(@, x)]})
        BY DEF SpawnForwarder
    <1> DEFINE t2 == [deque |-> Append(t.deque, x), stack |-> t.stack]
    <1>2. t \in Threads /\ t.deque \in Seq(Job) /\ t.stack \in Seq(Job) /\ x \in Job /\ UNCHANGED injected
        BY DEF PoolTypes, Threads, Forward, Job, SpawnForwarder
    <1>3. \A q \in Producer : x # Produce(q)
        BY DEF Produce, Forward
    <1> HIDE DEF x
    <1>4. Become({t}, {t2})
        BY <1>1, <1>2, QueueFacts
    <1>5. /\ Append(t.deque, x) \in Seq(Job) /\ ToSet(Append(t.deque, x)) = ToSet(t.deque) \cup {x}
          /\ OneProduce(Append(t.deque, x))
        BY <1>2, <1>3, Added DEF Apart
    <1>6. t2 \in Threads /\ t2.deque = Append(t.deque, x) /\ t2.stack = t.stack
        BY <1>2, <1>5 DEF Threads
    <1> HIDE DEF t2
    <1>7. /\ ToSet(t2.deque) = ToSet(t.deque) \cup {x} /\ OneProduce(t2.deque)
          /\ ToSet(t.stack) \subseteq ToSet(t2.stack) \cup {}
          /\ \A q \in Producer : Produce(q) \in {x} => ~ Queued(Produce(q))
        BY <1>3, <1>5, <1>6
    <1>8. /\ PoolTypes' /\ Apart'
          /\ \A k : Alive(k) => Alive(k)' \/ k \in {}
          /\ \A k : Queued(k)' => Queued(k) \/ k \in {x}
          /\ \A k \in {x} : Alive(k)'
        BY <1>2, <1>4, <1>6, <1>7, ThreadChanges
    <1> QED BY <1>8 DEF x

(* ----- the pool's part of the invariant ------------------------------------ *)
Control ==
    /\ main \in {"kick", "relays", "drain", "done", "failed"}
    /\ at \in 1 .. (N + 1) /\ front \in 1 .. (N + 1)
    /\ pc \in [Producer -> Places]
    /\ verdict \in [Producer -> {"pending", "ok", "err"}]
PoolPart == Control /\ PoolTypes /\ Apart /\ Waits

LEMMA JobNames ==
    ASSUME NEW p \in Producer, NEW q \in Producer
    PROVE  /\ Produce(p) \in Job /\ Forward(p) \in Job /\ Relay(p) \in Job
           /\ Forward(p) # Relay(q) /\ Produce(p) # Relay(q) /\ Produce(p) # Forward(q)
           /\ Forward(p) = Forward(q) <=> p = q
           /\ Relay(p) = Relay(q) <=> p = q
           /\ Produce(p) = Produce(q) <=> p = q
    BY DEF Produce, Forward, Relay, Job

(* What a step may do to the pool, as far as the batches are concerned.      *)
PoolKept ==
    /\ PoolPart'
    /\ \A p \in Producer : Alive(Forward(p)) => Alive(Forward(p))' \/ ForwardEnds(p)
    /\ over \subseteq over'
    /\ \A p \in Producer : Relay(p) \in over' => Relay(p) \in over \/ RelayEnds(p)
    /\ \A p \in Producer : TaskSenderDropped(p) => TaskSenderDropped(p)'

LEMMA SamePool ==
    ASSUME PoolPart, Control', UNCHANGED <<injected, busy, front, over>>,
           \A p \in Producer : /\ pc[p] = "idle" => pc'[p] = "idle"
                               /\ TaskSenderDropped(p) => TaskSenderDropped(p)'
    PROVE  PoolKept
    <1>1. \A k : (Queued(k)' <=> Queued(k)) /\ (Alive(k)' <=> Alive(k))
        BY DEF Queued, Alive, Running
    <1>2. PoolTypes'
        BY DEF PoolPart, PoolTypes
    <1>3. Apart'
        BY DEF PoolPart, Apart
    <1>4. Waits'
        BY <1>1 DEF PoolPart, Waits, Produce
    <1> QED BY <1>1, <1>2, <1>3, <1>4 DEF PoolPart, PoolKept

LEMMA ProduceKeepsPool ==
    ASSUME PoolPart, NEW p \in Producer,
           FailEarly(p) \/ Join(p) \/ BeginSend(p) \/ SendRaw(p) \/ SendFails(p) \/ Fork(p)
             \/ ReturnFromProduce(p) \/ RecordProducerError(p) \/ DropSender(p)
    PROVE  PoolKept
    <1>1. /\ UNCHANGED <<main, at, injected, busy, front, over>>
          /\ \E s \in Places \ {"idle", "entered", "done"} : pc' = [pc EXCEPT ![p] = s]
          /\ pc[p] \notin {"idle", "closed", "done"}
          /\ verdict' \in [Producer -> {"pending", "ok", "err"}]
        BY DEF PoolPart, Control, Places, FailEarly, Join, BeginSend, SendRaw, SendFails, Fork,
               ReturnFromProduce, RecordProducerError, DropSender, poolVars
    <1>2. Control'
        BY <1>1 DEF PoolPart, Control, Places
    <1>3. \A q \in Producer : /\ pc[q] = "idle" => pc'[q] = "idle"
                              /\ TaskSenderDropped(q) => TaskSenderDropped(q)'
        BY <1>1 DEF PoolPart, Control, TaskSenderDropped
    <1> QED BY <1>1, <1>2, <1>3, SamePool

LEMMA DataKeepsPool ==
    ASSUME PoolPart, NEW p \in Producer,
           ForwardTake(p) \/ ForwardSend(p) \/ RelayTake(p) \/ RelaySend(p) \/ DrainBatch(p) \/ DrainEof(p)
    PROVE  PoolKept
    <1>1. UNCHANGED <<injected, busy, front, over, pc, verdict>>
        BY DEF ForwardTake, ForwardSend, RelayTake, RelaySend, DrainBatch, DrainEof, poolVars
    <1>2. /\ main' \in {"kick", "relays", "drain", "done", "failed"} /\ at' \in 1 .. (N + 1)
        <2>1. CASE DrainEof(p)
            <3>1. at' = at + 1 /\ at <= N /\ main' \in {"done", "drain"}
                BY <2>1 DEF DrainEof, Draining
            <3>2. at + 1 \in 1 .. (N + 1)
                BY <3>1, BrowserAssumption DEF PoolPart, Control
            <3> QED BY <3>1, <3>2
        <2>2. CASE ~ DrainEof(p)
            <3>1. at' = at /\ main' = main
                BY <2>2 DEF ForwardTake, ForwardSend, RelayTake, RelaySend, DrainBatch
            <3> QED BY <3>1 DEF PoolPart, Control
        <2> QED BY <2>1, <2>2
    <1>3. Control'
        BY <1>1, <1>2 DEF PoolPart, Control
    <1> QED BY <1>1, <1>3, SamePool DEF TaskSenderDropped

LEMMA EndsKeepPool ==
    ASSUME PoolPart, NEW p \in Producer, ForwardEnds(p) \/ RelayEnds(p)
    PROVE  PoolKept
    <1>1. UNCHANGED <<main, at, front, injected, pc, verdict>>
        BY DEF ForwardEnds, RelayEnds
    <1>2. PICK j \in {Forward(p), Relay(p)}, t \in busy :
             /\ End(t, j, <<>>)
             /\ j = Forward(p) => ForwardEnds(p)
             /\ j = Relay(p) => RelayEnds(p)
        <2>1. Forward(p) # Relay(p)
            BY JobNames
        <2>2. CASE ForwardEnds(p)
            BY <2>1, <2>2 DEF ForwardEnds
        <2>3. CASE RelayEnds(p)
            BY <2>1, <2>3 DEF RelayEnds
        <2> QED BY <2>2, <2>3
    <1>3. j \in Job
        BY JobNames
    <1>4. /\ PoolTypes' /\ Apart' /\ over' = over \cup {j}
          /\ \A k : Alive(k) => Alive(k)' \/ k = j
          /\ \A k : Queued(k)' => Queued(k)
        BY <1>1, <1>2, <1>3, JobEnds DEF PoolPart
    <1>5. Waits'
        BY <1>1, <1>4 DEF PoolPart, Waits, Produce
    <1>6. Control'
        BY <1>1 DEF PoolPart, Control
    <1>7. \A q \in Producer : Alive(Forward(q)) => Alive(Forward(q))' \/ ForwardEnds(q)
        BY ZenonT(30), <1>2, <1>4, JobNames DEF Forward
    <1>8. \A q \in Producer : Relay(q) \in over' => Relay(q) \in over \/ RelayEnds(q)
        BY <1>2, <1>4, JobNames
    <1>9. \A q \in Producer : TaskSenderDropped(q) => TaskSenderDropped(q)'
        BY <1>1 DEF TaskSenderDropped
    <1> QED BY <1>4, <1>5, <1>6, <1>7, <1>8, <1>9 DEF PoolPart, PoolKept

LEMMA SpawnKeepsPool ==
    ASSUME PoolPart, NEW p \in Producer, SpawnForwarder(p)
    PROVE  PoolKept /\ Alive(Forward(p))'
    <1>1. /\ UNCHANGED <<main, at, front, injected, over, verdict>>
          /\ pc' = [pc EXCEPT ![p] = "producing"] /\ pc[p] = "entered"
        BY DEF SpawnForwarder
    <1>2. /\ PoolTypes' /\ Apart'
          /\ \A k : Alive(k) => Alive(k)'
          /\ \A k : Queued(k)' => Queued(k) \/ k = Forward(p)
          /\ Alive(Forward(p))'
        BY ForwarderSpawns DEF PoolPart
    <1>3. Control'
        BY <1>1 DEF PoolPart, Control, Places
    <1>4. \A q \in Producer : /\ pc[q] = "idle" => pc'[q] = "idle"
                              /\ TaskSenderDropped(q) => TaskSenderDropped(q)'
        BY <1>1 DEF PoolPart, Control, TaskSenderDropped
    <1>5. \A q \in Producer : Queued(Produce(q))' => Queued(Produce(q))
        BY <1>2, JobNames DEF Produce
    <1>6. Waits'
        BY <1>1, <1>4, <1>5 DEF PoolPart, Waits
    <1>7. \A q \in Producer : Alive(Forward(q)) => Alive(Forward(q))'
        BY <1>2 DEF Forward
    <1> QED BY <1>1, <1>2, <1>3, <1>4, <1>6, <1>7 DEF PoolPart, PoolKept

LEMMA ChainKeepsPool ==
    ASSUME PoolPart, NEW p \in Producer, ContinueChain(p)
    PROVE  PoolKept
    <1>1. /\ UNCHANGED <<main, at, injected, verdict>>
          /\ pc' = [pc EXCEPT ![p] = "done"] /\ pc[p] = "closed"
          /\ front' = IF front <= N THEN front + 1 ELSE front
          /\ front \in 1 .. (N + 1) /\ N \in Nat
        BY BrowserAssumption DEF ContinueChain, PoolPart, Control
    <1>2. Control'
        BY <1>1 DEF PoolPart, Control, Places
    <1>3. \A q \in Producer : /\ pc[q] = "idle" => pc'[q] = "idle"
                              /\ TaskSenderDropped(q) => TaskSenderDropped(q)'
        BY <1>1 DEF PoolPart, Control, TaskSenderDropped
    <1>4. /\ PoolTypes' /\ Apart' /\ over' = over \cup {Produce(p)}
          /\ \A k : Alive(k) => Alive(k)' \/ k = Produce(p)
          /\ \A k : Queued(k)' => Queued(k) \/ (front <= N /\ k = Produce(front))
        <2>1. Produce(p) \in Job
            BY JobNames
        <2>2. CASE front <= N
            <3>1. PICK t \in busy : End(t, Produce(p), <<Produce(front)>>)
                BY <2>2 DEF ContinueChain
            <3>2. front \in Producer /\ front >= front
                BY <1>1, <2>2 DEF Producer
            <3>3. ~ Queued(Produce(front))
                BY <3>2 DEF PoolPart, Waits
            <3> QED BY <1>1, <2>1, <2>2, <3>1, <3>2, <3>3, JobContinues DEF PoolPart
        <2>3. CASE ~ (front <= N)
            <3>1. PICK t \in busy : End(t, Produce(p), <<>>)
                BY <2>3 DEF ContinueChain
            <3> QED BY <1>1, <2>1, <3>1, JobEnds DEF PoolPart
        <2> QED BY <2>2, <2>3
    <1>5. ASSUME NEW q \in Producer
          PROVE  /\ Queued(Produce(q))' => pc'[q] = "idle"
                 /\ q >= front' => pc'[q] = "idle" /\ ~ Queued(Produce(q))'
        <2>1. Queued(Produce(q))' => Queued(Produce(q)) \/ (front <= N /\ q = front)
            <3>1. \A r \in Producer : Produce(q) = Produce(r) => q = r
                BY JobNames
            <3>2. front <= N => front \in Producer
                BY <1>1 DEF Producer
            <3> QED BY <1>4, <3>1, <3>2 DEF Produce
        <2>2. q \in Nat /\ (q >= front' => q >= front) /\ (front <= N /\ q = front => ~ (q >= front') /\ q >= front)
              /\ q <= N
            BY <1>1 DEF Producer
        <2> QED BY <1>3, <2>1, <2>2 DEF PoolPart, Waits
    <1>6. Waits'
        BY <1>5 DEF Waits
    <1>7. \A q \in Producer : Alive(Forward(q)) => Alive(Forward(q))'
        BY <1>4, JobNames DEF Forward
    <1>8. \A q \in Producer : Relay(q) \in over' => Relay(q) \in over
        BY <1>4, JobNames
    <1> QED BY <1>2, <1>3, <1>4, <1>6, <1>7, <1>8 DEF PoolPart, PoolKept

(* The calling worker adds a job to the pool's queue.                        *)
LEMMA JobIsInjected ==
    ASSUME PoolTypes, Apart, NEW x \in Job, injected' = Append(injected, x), UNCHANGED busy,
           ~ Queued(x) \/ \A p \in Producer : x # Produce(p)
    PROVE  PoolTypes' /\ Apart' /\ \A k : Queued(k)' => Queued(k) \/ k = x
    <1>1. /\ injected' \in Seq(Job) /\ ToSet(injected') = ToSet(injected) \cup {x}
          /\ OneProduce(injected')
        BY Added DEF PoolTypes, Apart, Queued
    <1>2. PoolTypes'
        BY <1>1 DEF PoolTypes
    <1>3. \A p \in Producer, t \in busy : Produce(p) \in ToSet(t.deque) => Produce(p) # x
        BY DEF Queued
    <1>4. Apart'
        BY <1>1, <1>3 DEF Apart, OneProduce
    <1>5. \A k : Queued(k)' => Queued(k) \/ k = x
        BY <1>1 DEF Queued
    <1> QED BY <1>2, <1>4, <1>5

LEMMA InjectKeepsPool ==
    ASSUME PoolPart, Kick \/ SpawnRelay
    PROVE  PoolKept
    <1>1. /\ UNCHANGED <<busy, over, pc, verdict>> /\ N \in Nat
          /\ main \in {"kick", "relays"} /\ main' \in {"kick", "relays", "done", "drain"}
          /\ front \in 1 .. (N + 1) /\ at \in 1 .. (N + 1) /\ injected \in Seq(Job)
        BY BrowserAssumption DEF Kick, SpawnRelay, PoolPart, Control, PoolTypes
    <1>2. \/ injected' = injected /\ front' = front /\ at' \in {at, 1}
          \/ front <= N /\ injected' = Append(injected, Produce(front)) /\ front' = front + 1 /\ at' = at
          \/ at <= N /\ injected' = Append(injected, Relay(at)) /\ front' = front /\ at' = at + 1
        BY DEF Kick, SpawnRelay
    <1>3. Control'
        BY <1>1, <1>2 DEF PoolPart, Control
    <1>4. \A p \in Producer : TaskSenderDropped(p)' <=> TaskSenderDropped(p)
        BY <1>1 DEF TaskSenderDropped
    <1>5. CASE injected' = injected /\ front' = front
        BY <1>1, <1>3, <1>4, <1>5, SamePool
    <1>6. ASSUME NEW x \in Job, injected' = Append(injected, x) PROVE \A k : Alive(k) => Alive(k)'
        <2>1. ToSet(injected') = ToSet(injected) \cup {x}
            BY <1>1, <1>6, Added
        <2> QED BY <1>1, <2>1 DEF Alive, Queued, Running
    <1>7. CASE front <= N /\ injected' = Append(injected, Produce(front)) /\ front' = front + 1
        <2>1. front \in Producer /\ Produce(front) \in Job /\ ~ Queued(Produce(front)) /\ pc[front] = "idle"
            <3>1. front \in Producer /\ front >= front
                BY <1>1, <1>7 DEF Producer
            <3> QED BY <3>1, JobNames DEF PoolPart, Waits
        <2>2. PoolTypes' /\ Apart' /\ \A k : Queued(k)' => Queued(k) \/ k = Produce(front)
            BY <1>1, <1>7, <2>1, JobIsInjected DEF PoolPart
        <2>3. \A k : Alive(k) => Alive(k)'
            BY <1>6, <1>7, <2>1
        <2>4. ASSUME NEW q \in Producer
              PROVE  /\ Queued(Produce(q))' => pc'[q] = "idle"
                     /\ q >= front' => pc'[q] = "idle" /\ ~ Queued(Produce(q))'
            <3>1. Queued(Produce(q))' => Queued(Produce(q)) \/ q = front
                BY <2>1, <2>2, JobNames DEF Produce
            <3>2. (q >= front' => q >= front) /\ (q = front => ~ (q >= front'))
                BY <1>1, <1>7 DEF Producer
            <3> QED BY <1>1, <2>1, <3>1, <3>2 DEF PoolPart, Waits
        <2> QED BY <1>1, <1>3, <1>4, <2>2, <2>3, <2>4 DEF PoolPart, PoolKept, Waits, Forward
    <1>8. CASE at <= N /\ injected' = Append(injected, Relay(at)) /\ front' = front
        <2>1. Relay(at) \in Job /\ \A p \in Producer : Relay(at) # Produce(p)
            <3>1. at \in Producer
                BY <1>1, <1>8 DEF Producer
            <3> QED BY <3>1, JobNames
        <2>2. PoolTypes' /\ Apart' /\ \A k : Queued(k)' => Queued(k) \/ k = Relay(at)
            BY <1>1, <1>8, <2>1, JobIsInjected DEF PoolPart
        <2>3. \A k : Alive(k) => Alive(k)'
            BY <1>6, <1>8, <2>1
        <2>4. \A q \in Producer : Queued(Produce(q))' => Queued(Produce(q))
            BY <2>1, <2>2 DEF Produce
        <2>5. Waits'
            BY <1>1, <1>8, <2>4 DEF PoolPart, Waits
        <2> QED BY <1>1, <1>3, <1>4, <2>2, <2>3, <2>5 DEF PoolPart, PoolKept, Forward
    <1> QED BY <1>2, <1>5, <1>7, <1>8

LEMMA TakingKeepsPool ==
    ASSUME PoolPart, NEW t \in Thread,
           TakeOwn(t) \/ TakeInjected(t) \/ \E u \in Thread \ {t} : Steal(t, u)
    PROVE  /\ PoolKept
           /\ \A p \in Producer : pc'[p] = pc[p] \/ (pc[p] = "idle" /\ pc'[p] = "entered")
           /\ UNCHANGED <<main, at, front, kicks, over, forked, verdict, errors, dataVars>>
    <1>1. /\ \A k : Alive(k) => Alive(k)'
          /\ \A p \in Producer : pc'[p] = pc[p] \/ (pc[p] = "idle" /\ pc'[p] = "entered")
          /\ pc' \in [Producer -> Places]
          /\ PoolTypes' /\ Apart' /\ Waits'
          /\ UNCHANGED <<main, at, front, kicks, over, forked, verdict, errors, dataVars>>
        BY JobIsTaken DEF PoolPart, Control
    <1>2. Control'
        BY <1>1 DEF PoolPart, Control
    <1>3. \A p \in Producer : TaskSenderDropped(p) => TaskSenderDropped(p)'
        BY <1>1 DEF TaskSenderDropped
    <1> QED BY <1>1, <1>2, <1>3 DEF PoolPart, PoolKept, Forward

LEMMA StepKeepsPool ==
    ASSUME PoolPart, Next
    PROVE  PoolKept
    <1>1. CASE Kick \/ SpawnRelay
        BY <1>1, InjectKeepsPool
    <1>2. CASE SinkFails \/ Terminated
        <2>1. UNCHANGED <<injected, busy, front, over, pc, verdict, at>> /\ main' \in {main, "failed"}
            BY <1>2 DEF SinkFails, Terminated, poolVars, vars
        <2>2. Control'
            BY <2>1 DEF PoolPart, Control
        <2> QED BY <2>1, <2>2, SamePool DEF TaskSenderDropped
    <1>3. ASSUME NEW p \in Producer, DrainBatch(p) \/ DrainEof(p) PROVE PoolKept
        BY <1>3, DataKeepsPool
    <1>4. ASSUME NEW p \in Producer, ProduceStep(p) \/ Fork(p) PROVE PoolKept
        BY <1>4, SpawnKeepsPool, ProduceKeepsPool, ChainKeepsPool DEF ProduceStep
    <1>5. ASSUME NEW p \in Producer, ForwardStep(p) \/ RelayStep(p) PROVE PoolKept
        BY <1>5, DataKeepsPool, EndsKeepPool DEF ForwardStep, RelayStep
    <1>6. ASSUME NEW t \in Thread, TakeOwn(t) \/ TakeInjected(t) \/ \E u \in Thread \ {t} : Steal(t, u)
          PROVE  PoolKept
        BY <1>6, TakingKeepsPool
    <1> QED BY <1>1, <1>2, <1>3, <1>4, <1>5, <1>6 DEF Next

(* ----- verdicts and batches -------------------------------------------------- *)
(* The error of a producer is recorded before its sender goes.               *)
Verdicts ==
    \A p \in Producer :
        /\ verdict[p] = "pending" <=> pc[p] \in {"idle", "entered", "producing", "waiting", "sending"}
        /\ p \in errors => pc[p] \in {"recorded", "closed", "done"}
        /\ pc[p] = "recorded" => p \in errors /\ verdict[p] = "err"
        /\ pc[p] \in {"closed", "done"} => (verdict[p] = "err" <=> p \in errors)

DataTypes ==
    /\ produced \in [Producer -> Nat] /\ raw \in [Producer -> Nat] /\ tagged \in [Producer -> Nat]
    /\ out \in [Producer -> Nat] /\ got \in [Producer -> Nat] /\ held \in [Job -> {0, 1}]

(* Batches in front of a forwarder, or in its hands, have a forwarder.       *)
Carried ==
    \A p \in Producer :
        /\ raw[p] # 0 \/ held[Forward(p)] # 0 => Alive(Forward(p))
        /\ pc[p] \in {"producing", "waiting", "sending"} => Alive(Forward(p)) \/ Forward(p) \in over

Quiet(p) ==
    /\ TaskSenderDropped(p)
    /\ raw[p] = 0 /\ tagged[p] = 0 /\ held[Forward(p)] = 0 /\ held[Relay(p)] = 0

(* As long as nobody has dropped a receiver, every batch is somewhere; when  *)
(* a relay is over there is none left for it.                                *)
Balanced(p) ==
    produced[p] = got[p] + out[p] + held[Relay(p)] + tagged[p] + held[Forward(p)] + raw[p]
Flow ==
    main # "failed" => \A p \in Producer : Balanced(p) /\ (Relay(p) \in over => Quiet(p))

Finished == \A p \in Producer : Drained(p) => got[p] = produced[p] /\ TaskSenderDropped(p)

(* The order of the drains is one of Orders, and stays.                      *)
Ordered == order \in Orders

PoolInv == Ordered /\ PoolPart /\ Verdicts /\ DataTypes /\ Carried /\ Flow /\ Finished

LEMMA ProduceVerdicts ==
    ASSUME PoolPart, Verdicts, NEW p \in Producer, ProduceStep(p) \/ Fork(p)
    PROVE  Verdicts'
    <1>1. /\ pc \in [Producer -> Places] /\ verdict \in [Producer -> {"pending", "ok", "err"}]
        BY DEF PoolPart, Control
    <1>2. CASE SpawnForwarder(p)
        BY <1>1, <1>2 DEF SpawnForwarder, Verdicts
    <1>3. CASE FailEarly(p)
        BY <1>1, <1>3 DEF FailEarly, Verdicts
    <1>4. CASE Join(p) \/ BeginSend(p) \/ SendRaw(p) \/ Fork(p)
        <2>1. /\ UNCHANGED <<verdict, errors>> /\ pc[p] \in {"producing", "waiting", "sending"}
              /\ \E s \in {"producing", "waiting", "sending"} : pc' = [pc EXCEPT ![p] = s]
            BY <1>4 DEF Join, BeginSend, SendRaw, Fork
        <2> QED BY <1>1, <2>1 DEF Verdicts
    <1>5. CASE SendFails(p) \/ ReturnFromProduce(p)
        <2>1. /\ UNCHANGED errors /\ pc[p] \in {"producing", "waiting", "sending"}
              /\ pc' = [pc EXCEPT ![p] = "returned"]
              /\ \E v \in {"ok", "err"} : verdict' = [verdict EXCEPT ![p] = v]
            BY <1>5 DEF SendFails, ReturnFromProduce
        <2> QED BY <1>1, <2>1 DEF Verdicts
    <1>6. CASE RecordProducerError(p)
        BY <1>1, <1>6 DEF RecordProducerError, Verdicts
    <1>7. CASE DropSender(p)
        BY <1>1, <1>7 DEF DropSender, Verdicts
    <1>8. CASE ContinueChain(p)
        BY <1>1, <1>8 DEF ContinueChain, Verdicts
    <1> QED BY <1>2, <1>3, <1>4, <1>5, <1>6, <1>7, <1>8 DEF ProduceStep

LEMMA StepVerdicts ==
    ASSUME PoolPart, Verdicts, Next
    PROVE  Verdicts'
    <1>1. CASE UNCHANGED <<pc, verdict, errors>>
        BY <1>1 DEF Verdicts
    <1>2. ASSUME NEW p \in Producer, ProduceStep(p) \/ Fork(p) PROVE Verdicts'
        BY <1>2, ProduceVerdicts
    <1>3. ASSUME NEW t \in Thread, TakeOwn(t) \/ TakeInjected(t) \/ \E u \in Thread \ {t} : Steal(t, u)
          PROVE  Verdicts'
        <2>1. /\ \A p \in Producer : pc'[p] = pc[p] \/ (pc[p] = "idle" /\ pc'[p] = "entered")
              /\ UNCHANGED <<verdict, errors>>
            BY <1>3, TakingKeepsPool
        <2> QED BY <2>1 DEF Verdicts
    <1>4. Kick \/ SpawnRelay \/ SinkFails \/ Terminated => UNCHANGED <<pc, verdict, errors>>
        BY DEF Kick, SpawnRelay, SinkFails, Terminated, vars
    <1>5. \A p \in Producer : DrainBatch(p) \/ DrainEof(p) => UNCHANGED <<pc, verdict, errors>>
        BY DEF DrainBatch, DrainEof
    <1>6. \A p \in Producer : ForwardStep(p) \/ RelayStep(p) => UNCHANGED <<pc, verdict, errors>>
        BY DEF ForwardStep, RelayStep, ForwardTake, ForwardSend, ForwardEnds, RelayTake, RelaySend, RelayEnds
    <1> QED BY <1>1, <1>2, <1>3, <1>4, <1>5, <1>6 DEF Next

(* ----- the steps that move batches -------------------------------------------- *)
Moves(p) == \/ SendRaw(p) \/ ForwardTake(p) \/ ForwardSend(p) \/ ForwardEnds(p)
            \/ RelayTake(p) \/ RelaySend(p) \/ RelayEnds(p) \/ DrainBatch(p)

LEMMA StepKinds ==
    ASSUME PoolPart, Next
    PROVE  /\ main = "failed" => main' = "failed"
           /\ \/ \E p \in Producer : Moves(p) /\ UNCHANGED main
              \/ SinkFails
              \/ UNCHANGED dataVars
           /\ \A p \in Producer : pc'[p] \in {"producing", "waiting", "sending"} =>
                 pc[p] \in {"producing", "waiting", "sending"} \/ SpawnForwarder(p)
    <1>1. CASE Kick \/ SpawnRelay \/ SinkFails \/ Terminated
        BY <1>1 DEF Kick, SpawnRelay, SinkFails, Terminated, vars
    <1>2. ASSUME NEW p \in Producer, DrainBatch(p) \/ DrainEof(p)
          PROVE  /\ main # "failed" /\ UNCHANGED pc
                 /\ (Moves(p) /\ UNCHANGED main) \/ UNCHANGED dataVars
        BY <1>2 DEF DrainBatch, DrainEof, Draining, Moves
    <1>3. ASSUME NEW p \in Producer, ForwardStep(p) \/ RelayStep(p) PROVE Moves(p) /\ UNCHANGED <<main, pc>>
        BY <1>3 DEF ForwardStep, RelayStep, Moves, ForwardTake, ForwardSend, ForwardEnds,
                    RelayTake, RelaySend, RelayEnds
    <1>4. ASSUME NEW p \in Producer, ProduceStep(p) \/ Fork(p)
          PROVE  /\ UNCHANGED main
                 /\ Moves(p) \/ UNCHANGED dataVars
                 /\ \A q \in Producer : pc'[q] \in {"producing", "waiting", "sending"} =>
                       pc[q] \in {"producing", "waiting", "sending"} \/ SpawnForwarder(q)
        <2>1. pc \in [Producer -> Places]
            BY DEF PoolPart, Control
        <2>2. UNCHANGED main /\ (Moves(p) \/ UNCHANGED dataVars)
            BY <1>4 DEF ProduceStep, Moves, SpawnForwarder, FailEarly, Join, BeginSend, SendRaw, SendFails,
                        ReturnFromProduce, RecordProducerError, DropSender, ContinueChain, Fork
        <2>3. CASE SpawnForwarder(p)
            BY <2>1, <2>3 DEF SpawnForwarder
        <2>4. CASE ~ SpawnForwarder(p)
            <3>1. \/ /\ \E s \in Places : pc' = [pc EXCEPT ![p] = s]
                     /\ pc[p] \in {"producing", "waiting", "sending"}
                  \/ \E s \in {"returned", "recorded", "closed", "done"} : pc' = [pc EXCEPT ![p] = s]
                BY <1>4, <2>4 DEF ProduceStep, FailEarly, Join, BeginSend, SendRaw, SendFails, Places,
                        ReturnFromProduce, RecordProducerError, DropSender, ContinueChain, Fork
            <3>2. \A s : pc' = [pc EXCEPT ![p] = s] => pc'[p] = s /\ \A q \in Producer \ {p} : pc'[q] = pc[q]
                BY <2>1
            <3>3. pc'[p] \in {"producing", "waiting", "sending"} => pc[p] \in {"producing", "waiting", "sending"}
                BY <3>1, <3>2
            <3>4. \A q \in Producer \ {p} : pc'[q] = pc[q]
                BY <3>1, <3>2
            <3>5. ASSUME NEW q \in Producer, pc'[q] \in {"producing", "waiting", "sending"}
                  PROVE  pc[q] \in {"producing", "waiting", "sending"}
                <4>1. CASE q = p
                    BY <3>3, <3>5, <4>1
                <4>2. CASE q # p
                    BY <3>4, <3>5, <4>2
                <4> QED BY <4>1, <4>2
            <3> QED BY <2>2, <3>5
        <2> QED BY <2>2, <2>3, <2>4
    <1>5. ASSUME NEW t \in Thread, TakeOwn(t) \/ TakeInjected(t) \/ \E u \in Thread \ {t} : Steal(t, u)
          PROVE  /\ UNCHANGED <<main, dataVars>>
                 /\ \A p \in Producer : pc'[p] = pc[p] \/ (pc[p] = "idle" /\ pc'[p] = "entered")
        BY <1>5, TakingKeepsPool
    <1> QED BY <1>1, <1>2, <1>3, <1>4, <1>5 DEF Next

(* A step that moves batches of p leaves those of the others.                *)
LEMMA MovesOwn ==
    ASSUME PoolPart, DataTypes, NEW p \in Producer, Moves(p)
    PROVE  /\ DataTypes'
           /\ \A q \in Producer \ {p} :
                 /\ produced'[q] = produced[q] /\ raw'[q] = raw[q] /\ tagged'[q] = tagged[q]
                 /\ out'[q] = out[q] /\ got'[q] = got[q]
                 /\ held'[Forward(q)] = held[Forward(q)] /\ held'[Relay(q)] = held[Relay(q)]
    <1>1. /\ Forward(p) \in Job /\ Relay(p) \in Job /\ Forward(p) # Relay(p)
          /\ \A q \in Producer \ {p} : /\ Forward(q) \notin {Forward(p), Relay(p)}
                                       /\ Relay(q) \notin {Forward(p), Relay(p)}
                                       /\ Forward(q) \in Job /\ Relay(q) \in Job
        BY JobNames
    <1>2. CASE SendRaw(p)
        BY <1>1, <1>2 DEF SendRaw, DataTypes
    <1>3. CASE ForwardTake(p)
        BY <1>1, <1>3 DEF ForwardTake, DataTypes
    <1>4. CASE ForwardSend(p)
        BY <1>1, <1>4 DEF ForwardSend, DataTypes
    <1>5. CASE ForwardEnds(p)
        BY <1>1, <1>5 DEF ForwardEnds, DataTypes
    <1>6. CASE RelayTake(p)
        BY <1>1, <1>6 DEF RelayTake, DataTypes
    <1>7. CASE RelaySend(p)
        BY <1>1, <1>7 DEF RelaySend, DataTypes
    <1>8. CASE RelayEnds(p)
        BY <1>1, <1>8 DEF RelayEnds, DataTypes
    <1>9. CASE DrainBatch(p)
        BY <1>1, <1>9 DEF DrainBatch, DataTypes
    <1> QED BY <1>2, <1>3, <1>4, <1>5, <1>6, <1>7, <1>8, <1>9 DEF Moves

LEMMA StepData ==
    ASSUME PoolPart, DataTypes, Next
    PROVE  DataTypes'
    <1>1. CASE SinkFails
        BY <1>1 DEF SinkFails, DataTypes
    <1>2. CASE UNCHANGED dataVars
        BY <1>2 DEF dataVars, DataTypes
    <1> QED BY <1>1, <1>2, StepKinds, MovesOwn

LEMMA StepCarried ==
    ASSUME PoolPart, DataTypes, Carried, Next
    PROVE  Carried'
    <1>1. PoolKept
        BY StepKeepsPool
    <1> SUFFICES ASSUME NEW q \in Producer
                 PROVE  /\ raw'[q] # 0 \/ held'[Forward(q)] # 0 => Alive(Forward(q))'
                        /\ pc'[q] \in {"producing", "waiting", "sending"} =>
                              Alive(Forward(q))' \/ Forward(q) \in over'
        BY DEF Carried, Forward
    <1>2. Alive(Forward(q)) => Alive(Forward(q))' \/ ForwardEnds(q)
        BY <1>1 DEF PoolKept
    <1>3. ForwardEnds(q) => raw'[q] = 0 /\ held'[Forward(q)] = 0 /\ Forward(q) \in over'
        BY JobNames DEF ForwardEnds, End, DataTypes
    <1>4. raw'[q] # 0 \/ held'[Forward(q)] # 0 => Alive(Forward(q))
        <2>1. ASSUME NEW p \in Producer, Moves(p), raw'[q] # 0 \/ held'[Forward(q)] # 0
              PROVE  Alive(Forward(q))
            <3>1. CASE p # q
                BY <2>1, <3>1, MovesOwn DEF Carried
            <3>2. CASE p = q
                <4>1. CASE SendRaw(q)
                    BY <4>1 DEF SendRaw, Carried
                <4>2. CASE ForwardTake(q)
                    BY <4>2 DEF ForwardTake, Alive
                <4>3. CASE ForwardSend(q)
                    BY <4>3 DEF ForwardSend, Carried
                <4>4. CASE RelayTake(q) \/ RelaySend(q) \/ RelayEnds(q) \/ DrainBatch(q)
                    <5>1. raw' = raw /\ held'[Forward(q)] = held[Forward(q)]
                        BY <4>4, JobNames DEF RelayTake, RelaySend, RelayEnds, DrainBatch, DataTypes
                    <5> QED BY <2>1, <5>1 DEF Carried
                <4> QED BY <1>3, <2>1, <3>2, <4>1, <4>2, <4>3, <4>4 DEF Moves
            <3> QED BY <3>1, <3>2
        <2>2. SinkFails \/ UNCHANGED dataVars => raw' = raw /\ held' = held
            BY DEF SinkFails, dataVars
        <2> QED BY <2>1, <2>2, StepKinds DEF Carried
    <1>5. CASE pc'[q] \in {"producing", "waiting", "sending"}
        <2>1. pc[q] \in {"producing", "waiting", "sending"} \/ SpawnForwarder(q)
            BY <1>5, StepKinds
        <2>2. CASE SpawnForwarder(q)
            BY <1>2, <1>3, <1>4, <2>2, SpawnKeepsPool
        <2>3. CASE pc[q] \in {"producing", "waiting", "sending"}
            <3>1. Alive(Forward(q)) \/ Forward(q) \in over
                BY <2>3 DEF Carried
            <3>2. over \subseteq over'
                BY <1>1 DEF PoolKept
            <3> QED BY <1>2, <1>3, <1>4, <3>1, <3>2
        <2> QED BY <2>1, <2>2, <2>3
    <1> QED BY <1>2, <1>3, <1>4, <1>5

(* When the last sender of its channel goes, nothing is left of what the     *)
(* forwarder was to carry.                                                   *)
LEMMA NothingIsLeft ==
    ASSUME Carried, NEW p \in Producer, SendersGone(p)
    PROVE  raw[p] = 0 /\ held[Forward(p)] = 0
    BY DEF Carried, SendersGone, Alive

(* A move of p's batches keeps their number, and touches none that a relay   *)
(* which is over has left.                                                   *)
LEMMA MovesBalanced ==
    ASSUME PoolPart, DataTypes, Carried, NEW p \in Producer, Balanced(p), Moves(p), main # "failed",
           Relay(p) \in over => Quiet(p)
    PROVE  Balanced(p)'
    <1>1. /\ produced[p] \in Nat /\ raw[p] \in Nat /\ tagged[p] \in Nat /\ out[p] \in Nat /\ got[p] \in Nat
          /\ held[Forward(p)] \in {0, 1} /\ held[Relay(p)] \in {0, 1}
          /\ Forward(p) \in Job /\ Relay(p) \in Job /\ Forward(p) # Relay(p)
        BY JobNames DEF DataTypes
    <1>2. CASE SendRaw(p)
        BY <1>1, <1>2 DEF SendRaw, DataTypes, Balanced
    <1>3. CASE ForwardTake(p)
        <2>1. held'[Relay(p)] = held[Relay(p)]
            BY <1>1, <1>3 DEF ForwardTake, DataTypes
        <2> QED BY <1>1, <1>3, <2>1 DEF ForwardTake, DataTypes, Balanced
    <1>4. CASE ForwardSend(p)
        <2>1. held'[Relay(p)] = held[Relay(p)]
            BY <1>1, <1>4 DEF ForwardSend, DataTypes
        <2> QED BY <1>1, <1>4, <2>1 DEF ForwardSend, DataTypes, Balanced
    <1>5. CASE ForwardEnds(p)
        <2>1. raw[p] = 0 /\ held[Forward(p)] = 0
            BY <1>1, <1>5 DEF ForwardEnds, Quiet
        <2>2. held'[Relay(p)] = held[Relay(p)] /\ held'[Forward(p)] = 0 /\ raw'[p] = 0
            BY <1>1, <1>5 DEF ForwardEnds, DataTypes
        <2>3. UNCHANGED <<produced, tagged, out, got>>
            BY <1>5 DEF ForwardEnds
        <2> QED BY <2>1, <2>2, <2>3 DEF Balanced
    <1>6. CASE RelayTake(p)
        <2>1. held'[Forward(p)] = held[Forward(p)]
            BY <1>1, <1>6 DEF RelayTake, DataTypes
        <2> QED BY <1>1, <1>6, <2>1 DEF RelayTake, DataTypes, Balanced
    <1>7. CASE RelaySend(p)
        <2>1. held'[Forward(p)] = held[Forward(p)]
            BY <1>1, <1>7 DEF RelaySend, DataTypes
        <2> QED BY <1>1, <1>7, <2>1 DEF RelaySend, DataTypes, Balanced
    <1>8. CASE RelayEnds(p)
        <2>1. tagged[p] = 0 /\ held[Relay(p)] = 0
            BY <1>8 DEF RelayEnds
        <2>2. held'[Forward(p)] = held[Forward(p)] /\ held'[Relay(p)] = 0 /\ tagged'[p] = 0
            BY <1>1, <1>8 DEF RelayEnds, DataTypes
        <2>3. UNCHANGED <<produced, raw, out, got>>
            BY <1>8 DEF RelayEnds
        <2> QED BY <2>1, <2>2, <2>3 DEF Balanced
    <1>9. CASE DrainBatch(p)
        BY <1>1, <1>9 DEF DrainBatch, DataTypes, Balanced
    <1> QED BY <1>2, <1>3, <1>4, <1>5, <1>6, <1>7, <1>8, <1>9 DEF Moves

LEMMA MovesQuiet ==
    ASSUME PoolPart, DataTypes, Carried, NEW p \in Producer, Moves(p), main # "failed",
           Relay(p) \in over => Quiet(p), PoolKept, Relay(p) \in over'
    PROVE  Quiet(p)'
    <1>1. /\ raw[p] \in Nat /\ tagged[p] \in Nat
          /\ held[Forward(p)] \in {0, 1} /\ held[Relay(p)] \in {0, 1}
          /\ Forward(p) \in Job /\ Relay(p) \in Job /\ Forward(p) # Relay(p)
        BY JobNames DEF DataTypes
    <1>2. CASE RelayEnds(p)
        <2>1. SendersGone(p)
            BY <1>2 DEF RelayEnds
        <2>2. raw[p] = 0 /\ held[Forward(p)] = 0 /\ TaskSenderDropped(p)
            BY <2>1, NothingIsLeft DEF SendersGone
        <2>3. held'[Forward(p)] = held[Forward(p)] /\ held'[Relay(p)] = 0 /\ tagged'[p] = 0 /\ raw' = raw
            BY <1>1, <1>2 DEF RelayEnds, DataTypes
        <2>4. TaskSenderDropped(p)'
            BY <2>2 DEF PoolKept
        <2> QED BY <2>2, <2>3, <2>4 DEF Quiet
    <1>3. CASE ~ RelayEnds(p)
        <2>1. Quiet(p)
            BY <1>3 DEF PoolKept
        <2>2. ~ SendRaw(p)
            BY <2>1 DEF SendRaw, Quiet, TaskSenderDropped
        <2>3. ~ ForwardTake(p) /\ ~ ForwardSend(p) /\ ~ RelayTake(p) /\ ~ RelaySend(p)
            BY <1>1, <2>1 DEF ForwardTake, ForwardSend, RelayTake, RelaySend, Quiet
        <2>4. raw'[p] = 0 /\ tagged'[p] = 0 /\ held'[Forward(p)] = 0 /\ held'[Relay(p)] = 0
            <3>1. CASE ForwardEnds(p)
                BY <1>1, <2>1, <3>1 DEF ForwardEnds, DataTypes, Quiet
            <3>2. CASE DrainBatch(p)
                BY <2>1, <3>2 DEF DrainBatch, Quiet
            <3> QED BY <1>3, <2>2, <2>3, <3>1, <3>2 DEF Moves
        <2>5. TaskSenderDropped(p)'
            BY <2>1 DEF PoolKept, Quiet
        <2> QED BY <2>4, <2>5 DEF Quiet
    <1> QED BY <1>2, <1>3

LEMMA StepFlow ==
    ASSUME PoolPart, DataTypes, Carried, Flow, Next
    PROVE  Flow'
    <1>1. PoolKept
        BY StepKeepsPool
    <1> SUFFICES ASSUME main' # "failed", NEW q \in Producer
                 PROVE  Balanced(q)' /\ (Relay(q) \in over' => Quiet(q)')
        BY DEF Flow, Relay
    <1>2. main # "failed" /\ Balanced(q) /\ (Relay(q) \in over => Quiet(q))
        BY StepKinds DEF Flow
    <1>3. ~ SinkFails
        BY DEF SinkFails
    <1>4. (Relay(q) \in over' => Relay(q) \in over \/ RelayEnds(q)) /\ (TaskSenderDropped(q) => TaskSenderDropped(q)')
        BY <1>1 DEF PoolKept
    <1>5. ASSUME /\ produced'[q] = produced[q] /\ raw'[q] = raw[q] /\ tagged'[q] = tagged[q]
                 /\ out'[q] = out[q] /\ got'[q] = got[q]
                 /\ held'[Forward(q)] = held[Forward(q)] /\ held'[Relay(q)] = held[Relay(q)],
                 ~ Moves(q)
          PROVE  Balanced(q)' /\ (Relay(q) \in over' => Quiet(q)')
        <2>1. Relay(q) \in over' => Quiet(q)
            BY <1>2, <1>4, <1>5 DEF Moves
        <2>2. Quiet(q) => Quiet(q)'
            BY <1>4, <1>5 DEF Quiet
        <2>3. Balanced(q)'
            BY <1>2, <1>5 DEF Balanced
        <2> QED BY <2>1, <2>2, <2>3
    <1>6. CASE Moves(q)
        BY <1>1, <1>2, <1>6, MovesBalanced, MovesQuiet
    <1>7. CASE ~ Moves(q)
        <2>1. CASE \E p \in Producer : Moves(p)
            BY <1>5, <1>7, <2>1, MovesOwn
        <2>2. CASE UNCHANGED dataVars
            BY <1>5, <1>7, <2>2 DEF dataVars
        <2> QED BY <1>3, <2>1, <2>2, StepKinds
    <1> QED BY <1>6, <1>7

LEMMA DrainedBefore ==
    ASSUME PoolPart, Next, NEW p \in Producer, Drained(p)'
    PROVE  Drained(p) \/ DrainEof(p)
    <1>1. at \in Nat /\ order' = order
        BY BrowserAssumption DEF PoolPart, Control, Next
    <1>2. CASE UNCHANGED <<main, at>>
        BY <1>1, <1>2 DEF Drained
    <1>3. CASE Kick
        BY <1>1, <1>3 DEF Kick, Drained
    <1>4. CASE SpawnRelay
        BY <1>1, <1>4 DEF SpawnRelay, Drained
    <1>5. CASE SinkFails
        BY <1>1, <1>5 DEF SinkFails, Drained
    <1>6. ASSUME NEW q \in Producer, DrainEof(q) PROVE Drained(p) \/ DrainEof(p)
        <2>1. main = "drain" /\ order[at] = q /\ at' = at + 1
            BY <1>6 DEF DrainEof, Draining
        <2>2. CASE p = q
            BY <1>6, <2>2
        <2>3. CASE p # q
            <3>1. PICK i \in 1 .. (at' - 1) : order[i] = p
                BY <1>1 DEF Drained
            <3>2. i \in 1 .. (at - 1)
                BY <1>1, <2>1, <2>3, <3>1
            <3> QED BY <2>1, <3>1, <3>2 DEF Drained
        <2> QED BY <2>2, <2>3
    <1>7. Terminated => UNCHANGED <<main, at>>
        BY DEF Terminated, vars
    <1>8. \A q \in Producer : /\ DrainBatch(q) \/ ForwardStep(q) \/ RelayStep(q) => UNCHANGED <<main, at>>
                              /\ ProduceStep(q) \/ Fork(q) => UNCHANGED <<main, at>>
        BY DEF DrainBatch, ForwardStep, ForwardTake, ForwardSend, ForwardEnds, RelayStep, RelayTake, RelaySend,
               RelayEnds, ProduceStep, SpawnForwarder, FailEarly, Join, BeginSend, SendRaw, SendFails,
               ReturnFromProduce, RecordProducerError, DropSender, ContinueChain, Fork
    <1>9. ASSUME NEW t \in Thread, TakeOwn(t) \/ TakeInjected(t) \/ \E u \in Thread \ {t} : Steal(t, u)
          PROVE  UNCHANGED <<main, at>>
        BY <1>9, TakingKeepsPool
    <1> QED BY <1>2, <1>3, <1>4, <1>5, <1>6, <1>7, <1>8, <1>9 DEF Next

LEMMA StepFinished ==
    ASSUME Ordered, PoolPart, DataTypes, Flow, Finished, Next
    PROVE  Finished'
    <1>1. PoolKept
        BY StepKeepsPool
    <1> SUFFICES ASSUME NEW p \in Producer, Drained(p)'
                 PROVE  got'[p] = produced'[p] /\ TaskSenderDropped(p)'
        BY DEF Finished
    <1>2. got[p] = produced[p] /\ TaskSenderDropped(p)
        <2>1. CASE Drained(p)
            BY <2>1 DEF Finished
        <2>2. CASE DrainEof(p)
            <3>1. Balanced(p) /\ Quiet(p) /\ out[p] = 0
                BY <2>2 DEF DrainEof, Draining, Flow
            <3>2. produced[p] \in Nat /\ got[p] \in Nat
                BY DEF DataTypes
            <3> QED BY <3>1, <3>2 DEF Balanced, Quiet
        <2> QED BY <2>1, <2>2, DrainedBefore
    <1>3. TaskSenderDropped(p)'
        BY <1>1, <1>2 DEF PoolKept
    <1>4. ~ SendRaw(p)
        BY <1>2 DEF SendRaw, TaskSenderDropped
    <1>5. ~ DrainBatch(p)
        <2>1. ASSUME DrainBatch(p) PROVE FALSE
            <3>1. at \in 1 .. N /\ order[at] = p /\ UNCHANGED <<main, at, order>>
                BY <2>1, BrowserAssumption DEF DrainBatch, Draining, PoolPart, Control, Next
            <3>2. PICK i \in 1 .. (at - 1) : order[i] = p
                BY <3>1 DEF Drained
            <3>3. i \in 1 .. N /\ i # at
                BY <3>1, <3>2, BrowserAssumption
            <3> QED BY <3>1, <3>2, <3>3, BrowserAssumption DEF Ordered
        <2> QED BY <2>1
    <1>6. got'[p] = got[p] /\ produced'[p] = produced[p]
        <2>1. ASSUME NEW q \in Producer, Moves(q) PROVE got'[p] = got[p] /\ produced'[p] = produced[p]
            <3>1. CASE q # p
                BY <2>1, <3>1, MovesOwn
            <3>2. CASE q = p
                BY <1>4, <1>5, <2>1, <3>2 DEF Moves, ForwardTake, ForwardSend, ForwardEnds, RelayTake, RelaySend, RelayEnds
            <3> QED BY <3>1, <3>2
        <2>2. SinkFails \/ UNCHANGED dataVars => got' = got /\ produced' = produced
            BY DEF SinkFails, dataVars
        <2> QED BY <2>1, <2>2, StepKinds
    <1> QED BY <1>2, <1>3, <1>6

LEMMA InitPoolInv ==
    ASSUME Init
    PROVE  PoolInv
    <1>1. /\ main = "kick" /\ at = 1 /\ front = 1 /\ injected = <<>> /\ busy = {} /\ over = {} /\ errors = {}
          /\ \A p \in Producer : /\ pc[p] = "idle" /\ produced[p] = 0 /\ verdict[p] = "pending"
                                 /\ raw[p] = 0 /\ tagged[p] = 0 /\ out[p] = 0 /\ got[p] = 0
          /\ \A j \in Job : held[j] = 0
        BY DEF Init
    <1>2. Control
        <2>1. 1 \in 1 .. (N + 1)
            BY BrowserAssumption
        <2>2. pc \in [Producer -> Places] /\ verdict \in [Producer -> {"pending", "ok", "err"}]
            BY DEF Init, Places
        <2> QED BY <1>1, <2>1, <2>2 DEF Control
    <1>3. \A j : ~ Queued(j)
        BY <1>1, NothingQueued DEF Queued
    <1>4. PoolTypes
        BY <1>1 DEF PoolTypes
    <1>5. Apart
        BY <1>1 DEF Apart, OneProduce
    <1>6. Waits
        BY <1>1, <1>3 DEF Waits
    <1>7. Verdicts /\ Carried
        <2>1. Verdicts
            BY <1>1 DEF Verdicts
        <2>2. Carried
            BY <1>1, JobNames DEF Carried
        <2> QED BY <2>1, <2>2
    <1>8. DataTypes
        BY DEF Init, DataTypes
    <1>9. Flow
        <2>1. ASSUME NEW p \in Producer PROVE Balanced(p) /\ Relay(p) \notin over
            BY <1>1, JobNames DEF Balanced
        <2> QED BY <2>1 DEF Flow
    <1>10. Finished
        BY <1>1 DEF Finished, Drained
    <1>11. Ordered
        BY DEF Init, Ordered
    <1> QED BY <1>2, <1>4, <1>5, <1>6, <1>7, <1>8, <1>9, <1>10, <1>11 DEF PoolInv, PoolPart

LEMMA NextPoolInv ==
    ASSUME PoolInv, [Next]_vars
    PROVE  PoolInv'
    <1>1. CASE Next
        <2>1. PoolPart'
            BY <1>1, StepKeepsPool DEF PoolInv, PoolKept
        <2>2. Verdicts'
            BY <1>1, StepVerdicts DEF PoolInv
        <2>3. DataTypes'
            BY <1>1, StepData DEF PoolInv
        <2>4. Carried'
            BY <1>1, StepCarried DEF PoolInv
        <2>5. Flow'
            BY <1>1, StepFlow DEF PoolInv
        <2>6. Finished'
            BY <1>1, StepFinished DEF PoolInv
        <2>7. Ordered'
            BY <1>1 DEF PoolInv, Ordered, Next
        <2> QED BY <2>1, <2>2, <2>3, <2>4, <2>5, <2>6, <2>7 DEF PoolInv
    <1>2. CASE UNCHANGED vars
        <2>1. UNCHANGED <<main, order, at, front, injected, busy, over, pc, verdict, errors, produced, raw,
                          tagged, out, held, got>>
            BY <1>2 DEF vars, poolVars, dataVars
        <2>2. \A k : (Queued(k)' <=> Queued(k)) /\ (Alive(k)' <=> Alive(k))
            BY <2>1 DEF Queued, Alive, Running
        <2>3. Control'
            BY <2>1 DEF PoolInv, PoolPart, Control
        <2>4. PoolPart'
            BY <2>1, <2>3, SamePool DEF PoolInv, PoolPart, PoolKept, TaskSenderDropped
        <2>5. Verdicts' /\ DataTypes'
            BY <2>1 DEF PoolInv, Verdicts, DataTypes
        <2>6. Carried'
            BY <2>1, <2>2 DEF PoolInv, Carried, Forward
        <2>7. Flow'
            BY <2>1 DEF PoolInv, Flow, Balanced, Quiet, TaskSenderDropped, Relay, Forward
        <2>8. Finished'
            BY <2>1 DEF PoolInv, Finished, Drained, TaskSenderDropped
        <2>9. Ordered'
            BY <2>1 DEF PoolInv, Ordered
        <2> QED BY <2>4, <2>5, <2>6, <2>7, <2>8, <2>9 DEF PoolInv
    <1> QED BY <1>1, <1>2

(* However many producers share however few threads, a receiver that the     *)
(* calling worker has gone past (the sequential drains of `run_to_sink`) has *)
(* given it every batch its producer has emitted, and the producer's error,  *)
(* if it returned one, has been recorded.                                    *)
THEOREM NothingIsMissing == Spec => []NothingMissing
    <1>1. PoolInv => NothingMissing
        <2> SUFFICES ASSUME PoolInv, NEW p \in Producer, Drained(p)
                     PROVE  got[p] = produced[p] /\ verdict[p] # "pending" /\ (verdict[p] = "err" <=> p \in errors)
            BY DEF NothingMissing
        <2>1. got[p] = produced[p] /\ pc[p] \in {"closed", "done"}
            BY DEF PoolInv, Finished, TaskSenderDropped
        <2> QED BY <2>1 DEF PoolInv, Verdicts
    <1> QED BY InitPoolInv, NextPoolInv, <1>1, PTL DEF Spec

(* ----- one worker, request after request -------------------------------------- *)
Working == phase \in {"parse", "tessellate", "preprocess", "drain", "finish"}
OwnInv ==
    /\ store \in [data : Nat, rml : Nat, mesh : Nat] /\ n \in Nat
    /\ Working =>
          /\ req.files => store.data = n
          /\ req.mapping => store.rml = n
          /\ store.mesh \in {0, n} /\ (store.mesh # 0 => Geometry)
    /\ phase = "tessellate" => Geometry
    /\ OwnDataFirst

LEMMA NextOwnInv ==
    ASSUME OwnInv, [BrowserNext]_worker
    PROVE  OwnInv'
    <1>1. CASE Begin
        <2>1. CASE UNCHANGED store
            BY <1>1, <2>1 DEF Begin, OwnInv, Working, OwnDataFirst, SetStructuredData
        <2>2. CASE store' = SetStructuredData(store, req', n')
            BY <1>1, <2>2 DEF Begin, OwnInv, Working, OwnDataFirst, SetStructuredData
        <2> QED BY <1>1, <2>1, <2>2 DEF Begin
    <1>2. CASE Inline \/ ParseFails \/ ReparsePanics \/ PreprocessFails \/ PostprocessFails \/ Finish \/ SinkThrows
        <2>1. phase' = "idle" /\ UNCHANGED <<store, n>>
            BY <1>2 DEF Inline, ParseFails, ReparsePanics, PreprocessFails, PostprocessFails, Finish, SinkThrows, Return
        <2> QED BY <2>1 DEF OwnInv, Working, OwnDataFirst
    <1>3. CASE ParseSucceeds
        BY <1>3 DEF ParseSucceeds, OwnInv, Working, OwnDataFirst, Geometry
    <1>4. CASE Tessellate
        <2>1. UNCHANGED <<n, req>> /\ phase = "tessellate" /\ phase' = "preprocess"
              /\ store' \in {store, [store EXCEPT !.mesh = n]}
            BY <1>4 DEF Tessellate
        <2> QED BY <2>1 DEF OwnInv, Working, OwnDataFirst, Geometry
    <1>5. CASE Preprocess
        BY <1>5 DEF Preprocess, OwnInv, Working, OwnDataFirst, Geometry
    <1>6. CASE Drain
        BY <1>6 DEF Drain, OwnInv, Working, OwnDataFirst, Geometry
    <1>7. CASE Serialize \/ PostprocessAndSerialize
        BY <1>7 DEF Serialize, PostprocessAndSerialize, DrainsOver, OwnInv, Working, OwnDataFirst, Geometry
    <1>8. CASE UNCHANGED worker
        BY <1>8 DEF worker, OwnInv, Working, OwnDataFirst, Geometry
    <1> QED BY <1>1, <1>2, <1>3, <1>4, <1>5, <1>6, <1>7, <1>8 DEF BrowserNext

(* Whatever requests a worker serves, and however they end, the producers of *)
(* a request get the structured data and the mapping it brought, and no mesh *)
(* but one tessellated for it: set_structured_data_from_request replaces     *)
(* before anything reads.                                                    *)
THEOREM OwnDataIsUsed == BrowserSpec => []OwnDataFirst
    <1>1. BrowserInit => OwnInv
        BY DEF BrowserInit, OwnInv, Working, OwnDataFirst
    <1>2. OwnInv => OwnDataFirst
        BY DEF OwnInv
    <1> QED BY <1>1, <1>2, NextOwnInv, PTL DEF BrowserSpec

(* What the page shows of a request under way: of the preprocessors, of the  *)
(* producers that are drained, and of the mapper; and what a run that ended  *)
(* well left.                                                                *)
Statuses == {"none", "running", "success", "failed"}
Shown ==
    /\ req.active \subseteq Plugins /\ n \in Nat
    /\ statuses \in [Stages -> Statuses]
    /\ drained \subseteq Runners \cap req.active /\ failures \subseteq drained
    /\ phase \in {"idle", "inline", "parse", "tessellate", "preprocess", "drain", "finish"}
    /\ Working => req.api = "sink" /\ n > 0
    /\ phase = "inline" => req.api # "sink"
    /\ phase # "idle" => outcome = "none"

MeshShown(mesh) == statuses["geometry-pre"] = IF mesh = n THEN "success" ELSE "failed"
TrueSoFar ==
    /\ phase \in {"parse", "tessellate", "preprocess"} => drained = {}
    /\ phase \in {"parse", "tessellate"} => store.mesh = 0
    /\ phase = "preprocess" /\ Has("geometry-pre") => MeshShown(store.mesh)
    /\ phase \in {"drain", "finish"} =>
          /\ Has("geometry-pre") => MeshShown(used.mesh)
          /\ Has("cleanup") => statuses["cleanup"] = "success"
    /\ phase = "drain" => \A p \in drained : statuses[p] = "success"
    /\ phase = "finish" =>
          /\ Has("ontology") => statuses["ontology"] = "success"
          /\ \A p \in Runners : Has(p) =>
                statuses[p] = IF p \in failures THEN "failed" ELSE "success"
ShownInv == Shown /\ TrueSoFar /\ EventsTellTheTruth

LEMMA TellFacts ==
    ASSUME NEW shown \in [Stages -> Statuses], NEW ids, NEW status \in Statuses
    PROVE  /\ Told(shown, ids, status) \in [Stages -> Statuses]
           /\ \A p \in Stages : Told(shown, ids, status)[p] = IF p \in ids THEN status ELSE shown[p]
    BY DEF Told

LEMMA Names ==
    /\ Runners \subseteq Plugins /\ Exporters \subseteq Plugins /\ Plugins \subseteq Stages
    /\ "parse" \in Stages /\ "serializer" \in Stages /\ "geometry-pre" \in Stages
    /\ "cleanup" \in Stages /\ "ontology" \in Stages
    /\ \A p \in Runners : p \notin Exporters
          /\ p \notin {"parse", "serializer", "geometry-pre", "geometry", "cleanup", "ontology"}
    /\ \A p \in Exporters : p \notin {"parse", "serializer", "geometry-pre", "geometry", "cleanup", "ontology"}
    /\ \A p \in Plugins : p \in Runners \/ p \in Exporters
                          \/ p \in {"geometry-pre", "geometry", "cleanup", "ontology"}
    /\ \A p \in Plugins : p \notin {"parse", "serializer"}
    BY DEF Runners, Exporters, Plugins, Stages

(* A request that begins.                                                    *)
LEMMA BeginShows ==
    ASSUME ShownInv, OwnInv, Begin
    PROVE  ShownInv'
    <1>1. /\ req' \in Requests /\ n' = n + 1 /\ n \in Nat
          /\ drained' = {} /\ failures' = {} /\ statuses' = NothingTold
          /\ \/ phase' = "idle" /\ outcome' = "error" /\ UNCHANGED store
             \/ /\ store' = IF req'.api = "benchmark" THEN store ELSE SetStructuredData(store, req', n')
                /\ phase' = IF req'.api = "sink" THEN "parse" ELSE "inline"
                /\ outcome' = "none"
        BY DEF Begin, OwnInv
    <1>2. req'.active \subseteq Plugins
        BY <1>1, RequestsAssumption
    <1>3. NothingTold \in [Stages -> Statuses]
        BY DEF NothingTold, Statuses
    <1>4. Shown'
        BY <1>1, <1>2, <1>3 DEF Shown, Working
    <1>5. TrueSoFar'
        BY <1>1 DEF TrueSoFar, SetStructuredData
    <1>6. EventsTellTheTruth'
        BY <1>1 DEF EventsTellTheTruth
    <1> QED BY <1>4, <1>5, <1>6 DEF ShownInv

(* A run that does not end well, or was no run through the page's sink.      *)
LEMMA FailuresShow ==
    ASSUME ShownInv,
           Inline \/ ParseFails \/ ReparsePanics \/ PreprocessFails \/ PostprocessFails \/ SinkThrows
    PROVE  ShownInv'
    <1>1. phase' = "idle" /\ UNCHANGED <<n, req, drained, failures>>
        BY DEF Inline, ParseFails, ReparsePanics, PreprocessFails, PostprocessFails, SinkThrows, Return
    <1>2. statuses' \in [Stages -> Statuses]
        <2>1. statuses \in [Stages -> Statuses] /\ "running" \in Statuses
            BY DEF ShownInv, Shown, Statuses
        <2>2. \/ statuses' = statuses \/ statuses' = Told(statuses, {"parse"}, "running")
              \/ statuses' = Told(statuses, {"cleanup"}, "running")
            BY DEF Inline, ParseFails, ReparsePanics, PreprocessFails, PostprocessFails, SinkThrows
        <2> QED BY <2>1, <2>2, TellFacts
    <1>3. outcome' # "ok" \/ req'.api # "sink"
        BY <1>1 DEF ShownInv, Shown, Inline, ParseFails, ReparsePanics, PreprocessFails, PostprocessFails,
                    SinkThrows, Return
    <1>4. Shown'
        BY <1>1, <1>2 DEF ShownInv, Shown, Working
    <1>5. TrueSoFar'
        BY <1>1 DEF TrueSoFar
    <1>6. EventsTellTheTruth'
        BY <1>3 DEF EventsTellTheTruth
    <1> QED BY <1>4, <1>5, <1>6 DEF ShownInv

LEMMA ParsingShows ==
    ASSUME ShownInv, ParseSucceeds
    PROVE  ShownInv'
    <1>1. /\ phase = "parse" /\ UNCHANGED <<store, n, req, drained, failures, used, outcome>>
          /\ phase' = IF Geometry THEN "tessellate" ELSE "preprocess"
          /\ statuses' = Told(Told(statuses, {"parse"}, "success"), ActiveOf(Announced), "running")
        BY DEF ParseSucceeds
    <1>2. statuses' \in [Stages -> Statuses]
        <2>1. statuses \in [Stages -> Statuses] /\ {"running", "success"} \subseteq Statuses
            BY DEF ShownInv, Shown, Statuses
        <2>2. Told(statuses, {"parse"}, "success") \in [Stages -> Statuses]
            BY <2>1, TellFacts
        <2> QED BY <1>1, <2>1, <2>2, TellFacts
    <1>3. Shown'
        BY <1>1, <1>2 DEF ShownInv, Shown, Working
    <1>4. TrueSoFar'
        BY <1>1 DEF ShownInv, TrueSoFar, Geometry, Has
    <1>5. EventsTellTheTruth'
        BY <1>1 DEF ShownInv, Shown, EventsTellTheTruth
    <1> QED BY <1>3, <1>4, <1>5 DEF ShownInv

LEMMA TessellationShows ==
    ASSUME ShownInv, OwnInv, Tessellate
    PROVE  ShownInv'
    <1>1. /\ phase = "tessellate" /\ phase' = "preprocess"
          /\ UNCHANGED <<n, req, drained, failures, used, outcome>>
          /\ \/ /\ statuses' = Told(statuses, {"geometry-pre"}, "failed")
                /\ UNCHANGED store
             \/ /\ statuses' = Told(Told(statuses, {"geometry-pre"}, "success"),
                                    ActiveOf({"geometry"}), "success")
                /\ store' = [store EXCEPT !.mesh = n]
        BY DEF Tessellate
    <1>2. statuses \in [Stages -> Statuses] /\ {"failed", "success"} \subseteq Statuses
          /\ store.mesh = 0 /\ n > 0 /\ n \in Nat /\ store \in [data : Nat, rml : Nat, mesh : Nat]
        BY <1>1 DEF ShownInv, Shown, TrueSoFar, Working, Statuses, OwnInv
    <1>3. statuses' \in [Stages -> Statuses] /\ MeshShown(store.mesh)'
        <2>1. CASE statuses' = Told(statuses, {"geometry-pre"}, "failed") /\ UNCHANGED store
            <3>1. statuses' \in [Stages -> Statuses] /\ statuses'["geometry-pre"] = "failed"
                BY <1>2, <2>1, TellFacts, Names
            <3> QED BY <1>1, <1>2, <2>1, <3>1 DEF MeshShown
        <2>2. CASE /\ statuses' = Told(Told(statuses, {"geometry-pre"}, "success"),
                                       ActiveOf({"geometry"}), "success")
                   /\ store' = [store EXCEPT !.mesh = n]
            <3> DEFINE s == Told(statuses, {"geometry-pre"}, "success")
            <3>1. s \in [Stages -> Statuses] /\ s["geometry-pre"] = "success"
                BY <1>2, TellFacts, Names
            <3>2. statuses' = Told(s, ActiveOf({"geometry"}), "success")
                BY <2>2
            <3> HIDE DEF s
            <3>3. statuses' \in [Stages -> Statuses] /\ statuses'["geometry-pre"] = "success"
                BY <1>2, <3>1, <3>2, TellFacts, Names
            <3>4. store'.mesh = n
                BY <1>2, <2>2
            <3> QED BY <1>1, <3>3, <3>4 DEF MeshShown
        <2> QED BY <1>1, <2>1, <2>2
    <1>4. Shown'
        BY <1>1, <1>3 DEF ShownInv, Shown, Working
    <1>5. TrueSoFar'
        BY <1>1, <1>3 DEF ShownInv, TrueSoFar, Has, MeshShown
    <1>6. EventsTellTheTruth'
        BY <1>1 DEF ShownInv, Shown, EventsTellTheTruth
    <1> QED BY <1>4, <1>5, <1>6 DEF ShownInv

LEMMA PreprocessingShows ==
    ASSUME ShownInv, Preprocess
    PROVE  ShownInv'
    <1> DEFINE s == Told(statuses, ActiveOf({"cleanup"}), "success")
               ids == IF Has("ontology") THEN {} ELSE {"serializer"}
    <1>1. /\ phase = "preprocess" /\ phase' = "drain" /\ used' = store
          /\ UNCHANGED <<store, n, req, drained, failures, outcome>>
          /\ statuses' = Told(s, ids, "running")
        BY DEF Preprocess
    <1>2. statuses \in [Stages -> Statuses] /\ {"running", "success"} \subseteq Statuses /\ drained = {}
        BY <1>1 DEF ShownInv, Shown, TrueSoFar, Statuses
    <1>3. /\ s \in [Stages -> Statuses]
          /\ Has("cleanup") => s["cleanup"] = "success"
          /\ s["geometry-pre"] = statuses["geometry-pre"]
        BY <1>2, TellFacts, Names DEF ActiveOf, Has
    <1>4. "cleanup" \notin ids /\ "geometry-pre" \notin ids
        OBVIOUS
    <1> HIDE DEF s, ids
    <1>5. /\ statuses' \in [Stages -> Statuses]
          /\ Has("cleanup") => statuses'["cleanup"] = "success"
          /\ statuses'["geometry-pre"] = statuses["geometry-pre"]
        BY <1>1, <1>2, <1>3, <1>4, TellFacts, Names
    <1>6. Shown'
        BY <1>1, <1>5 DEF ShownInv, Shown, Working
    <1>7. TrueSoFar'
        BY <1>1, <1>2, <1>5 DEF ShownInv, TrueSoFar, Has, MeshShown
    <1>8. EventsTellTheTruth'
        BY <1>1 DEF ShownInv, Shown, EventsTellTheTruth
    <1> QED BY <1>6, <1>7, <1>8 DEF ShownInv

LEMMA DrainShows ==
    ASSUME ShownInv, Drain
    PROVE  ShownInv'
    <1>1. phase = "drain" /\ UNCHANGED <<store, n, req, phase, used, outcome>>
        BY DEF Drain
    <1>2. PICK i \in 1..3 :
              /\ Undrained(DrainOrder[i])
              /\ failures' \in {failures, failures \cup {DrainOrder[i]}}
              /\ statuses' = Told(statuses, {DrainOrder[i]}, "success")
              /\ drained' = drained \cup {DrainOrder[i]}
        BY DEF Drain
    <1> DEFINE p == DrainOrder[i]
    <1>3. p \in Runners /\ Has(p)
        BY <1>2 DEF DrainOrder, SortedOrder, SpawnOrder, Runners, Undrained
    <1>4. /\ failures' \in {failures, failures \cup {p}} /\ drained' = drained \cup {p}
          /\ statuses' = Told(statuses, {p}, "success")
        BY <1>2
    <1> HIDE DEF p
    <1>5. statuses \in [Stages -> Statuses] /\ "success" \in Statuses
        BY DEF ShownInv, Shown, Statuses
    <1>6. /\ statuses' \in [Stages -> Statuses]
          /\ \A q \in Stages : statuses'[q] = IF q = p THEN "success" ELSE statuses[q]
        BY <1>4, <1>5, TellFacts
    <1>7. Shown'
        BY <1>1, <1>3, <1>4, <1>6 DEF ShownInv, Shown, Working, Has
    <1>8. TrueSoFar'
        <2>1. p # "geometry-pre" /\ p # "cleanup"
            BY <1>3, Names
        <2>2. statuses'["geometry-pre"] = statuses["geometry-pre"] /\ statuses'["cleanup"] = statuses["cleanup"]
            BY <1>6, <2>1, Names
        <2>3. ASSUME NEW q \in drained' PROVE statuses'[q] = "success"
            <3>1. q \in Stages
                BY <1>3, <1>4, Names DEF ShownInv, Shown
            <3> QED BY <1>1, <1>4, <1>6, <3>1 DEF ShownInv, TrueSoFar
        <2> QED BY <1>1, <2>2, <2>3 DEF ShownInv, TrueSoFar, Has, MeshShown
    <1>9. EventsTellTheTruth'
        BY <1>1 DEF ShownInv, Shown, EventsTellTheTruth
    <1> QED BY <1>7, <1>8, <1>9 DEF ShownInv

(* The errors are told last.                                                 *)
LEMMA ErrorsAreTold ==
    ASSUME ShownInv, DrainsOver, phase' = "finish",
           UNCHANGED <<store, n, req, drained, failures, used, outcome>>,
           NEW s \in [Stages -> Statuses], statuses' = Told(s, failures, "failed"),
           \A p \in Stages : p \notin Exporters \cup {"ontology", "serializer"} => s[p] = statuses[p],
           Has("ontology") => s["ontology"] = "success"
    PROVE  ShownInv'
    <1>1. /\ phase = "drain" /\ \A p \in Runners : Has(p) => p \in drained
        BY DEF DrainsOver, Undrained
    <1>2. /\ failures \subseteq Runners /\ failures \subseteq drained /\ "failed" \in Statuses
          /\ \A p \in drained : statuses[p] = "success"
        BY <1>1 DEF ShownInv, Shown, TrueSoFar, Statuses
    <1>3. /\ statuses' \in [Stages -> Statuses]
          /\ \A p \in Stages : statuses'[p] = IF p \in failures THEN "failed" ELSE s[p]
        BY <1>2, TellFacts
    <1>4. Shown'
        BY <1>1, <1>3 DEF ShownInv, Shown, Working
    <1>5. TrueSoFar'
        <2>1. statuses'["geometry-pre"] = statuses["geometry-pre"] /\ statuses'["cleanup"] = statuses["cleanup"]
            <3>1. /\ "geometry-pre" \notin failures /\ "cleanup" \notin failures
                  /\ "geometry-pre" \notin Exporters /\ "cleanup" \notin Exporters
                BY <1>2, Names
            <3>2. s["geometry-pre"] = statuses["geometry-pre"] /\ s["cleanup"] = statuses["cleanup"]
                BY <3>1, Names
            <3> QED BY <1>3, <3>1, <3>2, Names
        <2>2. Has("ontology") => statuses'["ontology"] = "success"
            <3>1. "ontology" \notin failures /\ "ontology" \in Stages
                BY <1>2, Names
            <3> QED BY <1>3, <3>1
        <2>3. ASSUME NEW p \in Runners, Has(p)
              PROVE  statuses'[p] = IF p \in failures THEN "failed" ELSE "success"
            <3>1. p \in Stages /\ p \notin Exporters \cup {"ontology", "serializer"} /\ p \in drained
                BY <1>1, <2>3, Names
            <3>2. s[p] = "success"
                BY <1>2, <3>1
            <3> QED BY <1>3, <3>1, <3>2
        <2> QED BY <1>1, <2>1, <2>2, <2>3 DEF ShownInv, TrueSoFar, Has, MeshShown
    <1>6. EventsTellTheTruth'
        BY <1>1 DEF ShownInv, Shown, EventsTellTheTruth
    <1> QED BY <1>4, <1>5, <1>6 DEF ShownInv

LEMMA SerializingShows ==
    ASSUME ShownInv, Serialize \/ PostprocessAndSerialize
    PROVE  ShownInv'
    <1>1. statuses \in [Stages -> Statuses] /\ {"running", "success"} \subseteq Statuses
        BY DEF ShownInv, Shown, Statuses
    <1>2. CASE Serialize
        <2> DEFINE s == Told(statuses, ActiveOf(Exporters), "running")
        <2>1. /\ DrainsOver /\ ~ Has("ontology") /\ phase' = "finish"
              /\ UNCHANGED <<store, n, req, drained, failures, used, outcome>>
              /\ statuses' = Told(s, failures, "failed")
            BY <1>2 DEF Serialize
        <2>2. /\ s \in [Stages -> Statuses]
              /\ \A p \in Stages : p \notin Exporters \cup {"ontology", "serializer"} => s[p] = statuses[p]
            BY <1>1, TellFacts DEF ActiveOf
        <2> HIDE DEF s
        <2> QED BY <2>1, <2>2, ErrorsAreTold
    <1>3. CASE PostprocessAndSerialize
        <2> DEFINE t == Told(statuses, {"ontology"}, "success")
                   s == Told(t, ActiveOf(Exporters) \cup {"serializer"}, "running")
        <2>1. /\ DrainsOver /\ phase' = "finish"
              /\ UNCHANGED <<store, n, req, drained, failures, used, outcome>>
              /\ statuses' = Told(s, failures, "failed")
            BY <1>3 DEF PostprocessAndSerialize
        <2>2. /\ t \in [Stages -> Statuses] /\ t["ontology"] = "success"
              /\ \A p \in Stages : p # "ontology" => t[p] = statuses[p]
            BY <1>1, TellFacts, Names
        <2>3. "ontology" \notin ActiveOf(Exporters) \cup {"serializer"}
            BY Names DEF ActiveOf
        <2> HIDE DEF t
        <2>4. /\ s \in [Stages -> Statuses]
              /\ \A p \in Stages : s[p] = IF p \in ActiveOf(Exporters) \cup {"serializer"}
                                          THEN "running" ELSE t[p]
            BY <1>1, <2>2, TellFacts
        <2> HIDE DEF s
        <2>5. s["ontology"] = "success"
            BY <2>2, <2>3, <2>4, Names
        <2>6. \A p \in Stages : p \notin Exporters \cup {"ontology", "serializer"} => s[p] = statuses[p]
            BY <2>2, <2>4 DEF ActiveOf
        <2> QED BY <2>1, <2>4, <2>5, <2>6, ErrorsAreTold
    <1> QED BY <1>2, <1>3

LEMMA FinishShows ==
    ASSUME ShownInv, Finish
    PROVE  ShownInv'
    <1>1. /\ phase = "finish" /\ phase' = "idle" /\ outcome' = "ok"
          /\ UNCHANGED <<n, req, drained, failures, used>>
          /\ statuses' = Told(statuses, ActiveOf(Exporters) \cup {"serializer"}, "success")
        BY DEF Finish, Return
    <1>2. statuses \in [Stages -> Statuses] /\ "success" \in Statuses
        BY DEF ShownInv, Shown, Statuses
    <1>3. /\ statuses' \in [Stages -> Statuses]
          /\ \A p \in Stages : statuses'[p] = IF p \in ActiveOf(Exporters) \cup {"serializer"}
                                              THEN "success" ELSE statuses[p]
        BY <1>1, <1>2, TellFacts
    <1>4. Shown'
        BY <1>1, <1>3 DEF ShownInv, Shown, Working
    <1>5. TrueSoFar'
        BY <1>1 DEF TrueSoFar
    <1>6. failures \subseteq Runners /\ failures' = failures /\ req' = req /\ n' = n /\ used' = used
        BY <1>1 DEF ShownInv, Shown
    <1>7. ASSUME NEW p \in req.active, p # "geometry"
          PROVE  statuses'[p] = CASE p \in failures -> "failed"
                                  [] p = "geometry-pre" -> (IF used.mesh = n THEN "success" ELSE "failed")
                                  [] OTHER -> "success"
        <2>1. p \in Plugins /\ p \in Stages /\ Has(p)
            BY <1>7, Names DEF ShownInv, Shown, Has
        <2>2. CASE p \in Runners
            <3>1. statuses'[p] = statuses[p]
                BY <1>3, <2>1, <2>2, Names DEF ActiveOf
            <3>2. statuses[p] = IF p \in failures THEN "failed" ELSE "success"
                BY <1>1, <2>1, <2>2 DEF ShownInv, TrueSoFar
            <3>3. p # "geometry-pre"
                BY <2>2, Names
            <3> QED BY <3>1, <3>2, <3>3
        <2>3. CASE p \in Exporters
            <3>1. p \notin failures /\ p # "geometry-pre"
                BY <1>6, <2>3, Names
            <3>2. statuses'[p] = "success"
                BY <1>3, <2>1, <2>3 DEF ActiveOf, Has
            <3> QED BY <3>1, <3>2
        <2>4. CASE p \in {"geometry-pre", "cleanup", "ontology"}
            <3>1. p \notin failures /\ p \notin ActiveOf(Exporters) \cup {"serializer"}
                BY <1>6, <2>4, Names DEF ActiveOf
            <3>2. statuses'[p] = statuses[p]
                BY <1>3, <2>1, <3>1
            <3>3. statuses[p] = IF p = "geometry-pre" THEN (IF used.mesh = n THEN "success" ELSE "failed")
                                ELSE "success"
                BY <1>1, <2>1, <2>4 DEF ShownInv, TrueSoFar, MeshShown
            <3> QED BY <3>1, <3>2, <3>3
        <2> QED BY <1>7, <2>1, <2>2, <2>3, <2>4, Names
    <1>8. EventsTellTheTruth'
        BY <1>6, <1>7 DEF EventsTellTheTruth
    <1> QED BY <1>4, <1>5, <1>8 DEF ShownInv

LEMMA NextShows ==
    ASSUME ShownInv, OwnInv, [BrowserNext]_worker
    PROVE  ShownInv'
    <1>1. CASE UNCHANGED worker
        BY <1>1 DEF worker, ShownInv, Shown, TrueSoFar, EventsTellTheTruth, Working, Has, MeshShown
    <1> QED BY <1>1, BeginShows, FailuresShow, ParsingShows, TessellationShows, PreprocessingShows,
               DrainShows, SerializingShows, FinishShows DEF BrowserNext

(* Whatever requests a worker serves: when a run ended well, the page shows  *)
(* of each active stage how it ended (emit_stage_event, updateStageStatus).  *)
THEOREM PageShowsTheTruth == BrowserSpec => []EventsTellTheTruth
    <1>1. BrowserInit => OwnInv /\ ShownInv
        <2> SUFFICES ASSUME BrowserInit PROVE OwnInv /\ ShownInv
            OBVIOUS
        <2>1. OwnInv
            BY DEF BrowserInit, OwnInv, Working, OwnDataFirst
        <2>2. NothingTold \in [Stages -> Statuses]
            BY DEF NothingTold, Statuses
        <2>3. ShownInv
            BY <2>2 DEF BrowserInit, NoRequest, ShownInv, Shown, TrueSoFar, EventsTellTheTruth, Working
        <2> QED BY <2>1, <2>3
    <1>2. OwnInv /\ ShownInv /\ [BrowserNext]_worker => OwnInv' /\ ShownInv'
        BY NextOwnInv, NextShows
    <1>3. ShownInv => EventsTellTheTruth
        BY DEF ShownInv
    <1> QED BY <1>1, <1>2, <1>3, PTL DEF BrowserSpec
=============================================================================
