-------------------------- MODULE Conversion_proofs --------------------------
(***************************************************************************)
(* What the conversion promises for every model: the bounded mesh cache     *)
(* (MeshCache) for any number of workers, meshes and pairs, any weights and *)
(* any budget; and each call of ConversionCalls, for any inputs that the    *)
(* code can be given: first what each algorithm does for every input, then, *)
(* at the end, that so it is in every behaviour.                            *)
(***************************************************************************)
EXTENDS MeshCache, ConversionCalls, SequenceTheorems, FiniteSetTheorems, WellFoundedInduction, TLAPS

------------------------------------------------------------------------------
(* The mesh cache                                                           *)
WorkType == [ at : {"idle", "fetch", "build", "insert", "evict", "judge"},
              pair : Pairs \cup {<<>>}, held : Seq(Nat) ]
NoSums == \E s \in [ 0..Len(order) -> 0..Budget ] : Sums(s)
OrderedOnce == \A i, j \in 1..Len(order) : order[i] = order[j] => i = j

LEMMA MeshStarts == Init => MeshInv
    <1> SUFFICES ASSUME Init PROVE MeshInv
        OBVIOUS
    <1>1. /\ order = <<>> /\ Len(order) = 0 /\ made = 0 /\ total = 0 /\ todo = Pairs
          /\ copy = [ m \in Meshes |-> 0 ] /\ verdicts = [ p \in Pairs |-> "none" ]
          /\ work = [ t \in Threads |-> Idle ]
        BY DEF Init
    <1>2. Idle \in WorkType /\ Idle.at = "idle" /\ Idle.held = <<>> /\ Len(Idle.held) = 0
        BY DEF Idle, WorkType
    <1>3. TypeOK
        BY <1>1, <1>2 DEF TypeOK, WorkType
    <1>4. \A t \in Threads : AtWork(t)
        BY <1>1, <1>2 DEF AtWork
    <1>5. OneEvicts /\ VerdictsAreResident
        BY <1>1, <1>2 DEF OneEvicts, VerdictsAreResident
    <1>6. \A m \in Meshes : Accounted(m)
        BY <1>1 DEF Accounted
    <1>7. OrderedOnce
        BY <1>1 DEF OrderedOnce
    <1>8. \E s \in [ 0..Len(order) -> 0..Budget ] : Sums(s)
        <2>1. [ i \in 0..0 |-> 0 ] \in [ 0..Len(order) -> 0..Budget ]
            BY <1>1, CacheAssumption
        <2>2. Sums([ i \in 0..0 |-> 0 ])
            BY <1>1 DEF Sums
        <2> QED BY <2>1, <2>2
    <1> QED BY <1>3, <1>4, <1>5, <1>6, <1>7, <1>8 DEF MeshInv, OrderedOnce

(* ----- what a worker's step does to the others --------------------------- *)
LEMMA GotWork ==
    ASSUME TypeOK, NEW t \in Threads, NEW c \in Nat, Got(t, c)
    PROVE  /\ work' \in [Threads -> WorkType]
           /\ work'[t].pair = work[t].pair
           /\ work'[t].held = Append(work[t].held, c)
           /\ work'[t].at = IF Len(work[t].held) = 1 THEN "judge" ELSE "fetch"
           /\ \A u \in Threads : u # t => work'[u] = work[u]
    <1> DEFINE a == IF Len(work[t].held) = 1 THEN "judge" ELSE "fetch"
               h == Append(work[t].held, c)
               w == [ work[t] EXCEPT !.held = h, !.at = a ]
    <1>1. work \in [Threads -> WorkType] /\ work[t] \in WorkType
        BY DEF TypeOK, WorkType
    <1>2. work' = [ work EXCEPT ![t] = w ]
        BY <1>1 DEF Got, WorkType
    <1>3. a \in {"fetch", "judge"}
        OBVIOUS
    <1>4. h \in Seq(Nat)
        BY <1>1 DEF WorkType
    <1> HIDE DEF a, h
    <1>5. w \in WorkType /\ w.pair = work[t].pair /\ w.held = h /\ w.at = a
        BY <1>1, <1>3, <1>4 DEF WorkType
    <1> HIDE DEF w
    <1>6. /\ work' \in [Threads -> WorkType] /\ work'[t] = w
          /\ \A u \in Threads : u # t => work'[u] = work[u]
        BY <1>1, <1>2, <1>5
    <1> QED BY <1>5, <1>6 DEF a, h

LEMMA MovesTo ==
    ASSUME TypeOK, NEW t \in Threads,
           NEW a \in {"idle", "fetch", "build", "insert", "evict", "judge"},
           work' = [ work EXCEPT ![t].at = a ]
    PROVE  /\ work' \in [Threads -> WorkType]
           /\ work'[t].pair = work[t].pair /\ work'[t].held = work[t].held /\ work'[t].at = a
           /\ \A u \in Threads : u # t => work'[u] = work[u]
    <1>1. work \in [Threads -> WorkType] /\ work[t] \in WorkType
        BY DEF TypeOK, WorkType
    <1>2. [ work[t] EXCEPT !.at = a ] \in WorkType
        BY <1>1 DEF WorkType
    <1> QED BY <1>1, <1>2 DEF WorkType

(* What the invariant says of the mesh a worker wants.                      *)
LEMMA PairOfMeshes ==
    ASSUME NEW p \in Pairs, NEW i \in {1, 2}
    PROVE  p[i] \in Meshes
    BY CacheAssumption

LEMMA Wants ==
    ASSUME NEW t \in Threads, AtWork(t), work[t].at \notin {"idle", "judge"}
    PROVE  /\ work[t].pair \in Pairs
           /\ Len(work[t].held) \in {0, 1}
           /\ Wanted(t) = work[t].pair[Len(work[t].held) + 1]
           /\ Wanted(t) \in Meshes
    <1> DEFINE n == Len(work[t].held)
    <1>1. work[t].pair \in Pairs /\ n \in {0, 1} /\ Wanted(t) = work[t].pair[n + 1]
        BY DEF AtWork, Wanted
    <1> HIDE DEF n
    <1>2. n + 1 \in {1, 2}
        BY <1>1
    <1>3. work[t].pair[n + 1] \in Meshes
        BY <1>1, <1>2, PairOfMeshes
    <1> QED BY <1>1, <1>3 DEF n

LEMMA Holds ==
    ASSUME TypeOK, NEW t \in Threads, AtWork(t), NEW i \in 1..Len(work[t].held)
    PROVE  work[t].pair[i] \in Meshes /\ work[t].held[i] \in Nat
    <1> DEFINE n == Len(work[t].held)
    <1>1. work[t].held \in Seq(Nat)
        BY DEF TypeOK
    <1>2. work[t].held[i] \in Nat
        BY <1>1
    <1>3. CASE work[t].at = "idle"
        <2>1. n = 0
            BY <1>3 DEF AtWork
        <2> QED BY <2>1
    <1>4. CASE work[t].at # "idle"
        <2>1. n \in {0, 1, 2} /\ work[t].pair \in Pairs
            BY <1>4 DEF AtWork
        <2> HIDE DEF n
        <2>2. i \in 1..n
            BY DEF n
        <2>3. i \in {1, 2}
            BY <2>1, <2>2
        <2>4. work[t].pair[i] \in Meshes
            BY <2>1, <2>3, PairOfMeshes
        <2> QED BY <1>2, <2>4
    <1> QED BY <1>3, <1>4

(* A fetched copy stays good when newer copies are made, cached or evicted. *)
LEMMA StaysGood ==
    ASSUME NEW m, NEW c \in Nat, NEW n1 \in Nat, NEW n2 \in Nat, NEW k1 \in Nat, NEW k2 \in Nat,
           Good(m, c, n1, k1), n1 <= n2, k2 \in {k1, 0, n2}
    PROVE  Good(m, c, n2, k2)
    BY DEF Good

LEMMA HeldStayGood ==
    ASSUME TypeOK, NEW t \in Threads, AtWork(t), NEW i \in 1..Len(work[t].held),
           made' \in Nat, made <= made', copy' \in [Meshes -> Nat],
           \A m \in Meshes : copy'[m] \in {copy[m], 0, made'}
    PROVE  Good(work[t].pair[i], work[t].held[i], made', copy'[work[t].pair[i]])
    <1>1. work[t].pair[i] \in Meshes /\ work[t].held[i] \in Nat
        BY Holds
    <1>2. Good(work[t].pair[i], work[t].held[i], made, copy[work[t].pair[i]])
        BY DEF AtWork, Fetched
    <1>3. copy[work[t].pair[i]] \in Nat /\ copy'[work[t].pair[i]] \in Nat /\ made \in Nat
        BY <1>1 DEF TypeOK
    <1> QED BY SMTT(20), <1>1, <1>2, <1>3, StaysGood

(* A worker that does not move is not disturbed by new copies, by eviction, *)
(* nor by an insertion while it is not about to insert.                     *)
LEMMA GoesOn ==
    ASSUME TypeOK, NEW u \in Threads, AtWork(u), work'[u] = work[u],
           made' \in Nat, made <= made', copy' \in [Meshes -> Nat],
           \A m \in Meshes : copy'[m] \in {copy[m], 0, made'},
           work[u].at = "evict" => \A m \in Meshes : copy[m] = 0 => copy'[m] = 0
    PROVE  AtWork(u)'
    <1>1. Wanted(u)' = Wanted(u)
        BY DEF Wanted
    <1>2. \A i \in 1..Len(work[u].held) :
             Good(work[u].pair[i], work[u].held[i], made', copy'[work[u].pair[i]])
        BY HeldStayGood
    <1>3. work[u].at = "evict" => copy'[Wanted(u)] = 0 /\ ~ TooLarge(Wanted(u))
        BY Wants DEF AtWork
    <1> QED BY <1>1, <1>2, <1>3 DEF AtWork, TooLarge, Fetched

(* A worker that gets the right copy of the mesh it wants.                  *)
LEMMA GetsIt ==
    ASSUME TypeOK, NEW t \in Threads, AtWork(t), work[t].at \notin {"idle", "judge"},
           NEW c \in Nat, Got(t, c), Good(Wanted(t), c, made', copy'[Wanted(t)]),
           made' \in Nat, made <= made', copy' \in [Meshes -> Nat],
           \A m \in Meshes : copy'[m] \in {copy[m], 0, made'}
    PROVE  AtWork(t)'
    <1> DEFINE h == work[t].held
               n == Len(work[t].held)
               p == work[t].pair
               g == Append(work[t].held, c)
    <1>1. p \in Pairs /\ n \in {0, 1} /\ Wanted(t) = p[n + 1] /\ h \in Seq(Nat)
        BY Wants DEF TypeOK
    <1>2. /\ work'[t].pair = p /\ work'[t].held = g
          /\ work'[t].at = IF n = 1 THEN "judge" ELSE "fetch"
        BY GotWork
    <1>3. Len(g) = n + 1 /\ g[n + 1] = c /\ \A i \in 1..n : g[i] = h[i]
        BY <1>1
    <1>4. \A i \in 1..n : Good(p[i], h[i], made', copy'[p[i]])
        BY HeldStayGood
    <1> HIDE DEF h, n, p, g
    <1>5. \A i \in 1..(n + 1) : i = n + 1 \/ i \in 1..n
        BY <1>1
    <1>6. \A i \in 1..(n + 1) : Good(p[i], g[i], made', copy'[p[i]])
        BY <1>1, <1>3, <1>4, <1>5
    <1>7. \A i \in 1..Len(work'[t].held) : Good(work'[t].pair[i], work'[t].held[i], made', copy'[work'[t].pair[i]])
        BY <1>2, <1>3, <1>6
    <1>8. /\ work'[t].at \in {"fetch", "judge"}
          /\ work'[t].at = "judge" => Len(work'[t].held) = 2
          /\ work'[t].at = "fetch" => Len(work'[t].held) \in {0, 1}
        BY <1>1, <1>2, <1>3
    <1> QED BY <1>1, <1>2, <1>7, <1>8 DEF AtWork, Fetched

(* ----- steps that leave the cache alone ---------------------------------- *)
LEMMA CacheUntouched ==
    ASSUME MeshInv, NEW t \in Threads,
           UNCHANGED <<order, copy, total>>, made' \in {made, made + 1},
           work' \in [Threads -> WorkType],
           \A u \in Threads : u # t => work'[u] = work[u],
           AtWork(t)',
           work'[t].at = "evict" => Unlocked,
           todo' \subseteq Pairs,
           verdicts' \in [Pairs -> {"none", "separated", "analysed"}],
           VerdictsAreResident'
    PROVE  MeshInv'
    <1>1. TypeOK /\ made \in Nat /\ copy \in [Meshes -> Nat]
        BY DEF MeshInv, TypeOK
    <1>2. made' \in Nat /\ made <= made'
        BY <1>1
    <1>3. TypeOK'
        BY <1>1, <1>2 DEF TypeOK, WorkType
    <1>4. \A u \in Threads : AtWork(u)'
        <2>1. \A u \in Threads : u # t => AtWork(u)'
            BY <1>1, <1>2, GoesOn DEF MeshInv
        <2> QED BY <2>1
    <1>5. OneEvicts'
        BY DEF MeshInv, OneEvicts, Unlocked
    <1>6. \A m \in Meshes : Accounted(m)'
        BY <1>1, <1>2 DEF MeshInv, Accounted, TooLarge
    <1>7. OrderedOnce' /\ NoSums'
        BY DEF MeshInv, OrderedOnce, NoSums, Sums
    <1> QED BY <1>3, <1>4, <1>5, <1>6, <1>7 DEF MeshInv, OrderedOnce, NoSums

LEMMA TakeKeeps ==
    ASSUME MeshInv, NEW t \in Threads, Take(t)
    PROVE  MeshInv'
    <1>1. PICK p \in todo : /\ todo' = todo \ {p}
                            /\ work' = [ work EXCEPT ![t] = [ at |-> "fetch", pair |-> p, held |-> <<>> ] ]
        BY DEF Take
    <1>2. /\ TypeOK /\ p \in Pairs /\ work \in [Threads -> WorkType]
          /\ UNCHANGED <<order, copy, total, made, verdicts>>
        BY DEF MeshInv, TypeOK, Take, WorkType
    <1> DEFINE w == [ at |-> "fetch", pair |-> p, held |-> <<>> ]
    <1>3. w \in WorkType /\ w.at = "fetch" /\ w.pair = p /\ w.held = <<>> /\ Len(w.held) = 0
        BY <1>2 DEF WorkType
    <1> HIDE DEF w
    <1>4. /\ work' \in [Threads -> WorkType] /\ work'[t] = w
          /\ \A u \in Threads : u # t => work'[u] = work[u]
        BY <1>1, <1>2, <1>3 DEF w
    <1>5. AtWork(t)'
        BY <1>2, <1>3, <1>4 DEF AtWork
    <1>6. todo' \subseteq Pairs /\ verdicts' \in [Pairs -> {"none", "separated", "analysed"}] /\ VerdictsAreResident'
        BY <1>1, <1>2 DEF MeshInv, TypeOK, VerdictsAreResident
    <1> QED BY <1>2, <1>3, <1>4, <1>5, <1>6, CacheUntouched

(* A worker that gets a copy without touching the cache.                    *)
LEMMA GotKeeps ==
    ASSUME MeshInv, NEW t \in Threads, work[t].at \notin {"idle", "judge"},
           NEW c \in Nat, Got(t, c), Good(Wanted(t), c, made', copy[Wanted(t)]),
           made' \in {made, made + 1},
           UNCHANGED <<order, copy, total, todo, verdicts>>
    PROVE  MeshInv'
    <1>1. /\ TypeOK /\ AtWork(t) /\ made \in Nat /\ copy \in [Meshes -> Nat]
          /\ made' \in Nat /\ made <= made'
        BY DEF MeshInv, TypeOK
    <1>2. AtWork(t)'
        BY <1>1, GetsIt
    <1>3. /\ work' \in [Threads -> WorkType] /\ work'[t].at # "evict"
          /\ \A u \in Threads : u # t => work'[u] = work[u]
        BY <1>1, GotWork
    <1>4. todo' \subseteq Pairs /\ verdicts' \in [Pairs -> {"none", "separated", "analysed"}] /\ VerdictsAreResident'
        BY <1>1 DEF MeshInv, TypeOK, VerdictsAreResident
    <1> QED BY <1>2, <1>3, <1>4, CacheUntouched

LEMMA HitKeeps ==
    ASSUME MeshInv, NEW t \in Threads, Hit(t)
    PROVE  MeshInv'
    <1>1. /\ TypeOK /\ AtWork(t) /\ work[t].at = "fetch" /\ copy[Wanted(t)] # 0
          /\ Got(t, copy[Wanted(t)]) /\ UNCHANGED <<order, copy, total, made, todo, verdicts>>
        BY DEF MeshInv, Hit
    <1>2. Wanted(t) \in Meshes
        BY <1>1, Wants
    <1>3. Accounted(Wanted(t)) /\ copy[Wanted(t)] \in Nat
        BY <1>1, <1>2 DEF MeshInv, TypeOK
    <1>4. Good(Wanted(t), copy[Wanted(t)], made', copy[Wanted(t)])
        BY <1>1, <1>3 DEF Good, Accounted
    <1> QED BY <1>1, <1>3, <1>4, GotKeeps

LEMMA LoseRaceKeeps ==
    ASSUME MeshInv, NEW t \in Threads, LoseRace(t)
    PROVE  MeshInv'
    <1>1. /\ TypeOK /\ AtWork(t) /\ work[t].at = "insert" /\ copy[Wanted(t)] # 0
          /\ Got(t, copy[Wanted(t)]) /\ UNCHANGED <<order, copy, total, made, todo, verdicts>>
        BY DEF MeshInv, LoseRace, WinnersCopy
    <1>2. Wanted(t) \in Meshes
        BY <1>1, Wants
    <1>3. Accounted(Wanted(t)) /\ copy[Wanted(t)] \in Nat
        BY <1>1, <1>2 DEF MeshInv, TypeOK
    <1>4. Good(Wanted(t), copy[Wanted(t)], made', copy[Wanted(t)])
        BY <1>1, <1>3 DEF Good, Accounted
    <1> QED BY <1>1, <1>3, <1>4, GotKeeps

LEMMA HandBackKeeps ==
    ASSUME MeshInv, NEW t \in Threads, HandBack(t)
    PROVE  MeshInv'
    <1>1. /\ TypeOK /\ AtWork(t) /\ work[t].at = "insert" /\ copy[Wanted(t)] = 0 /\ made \in Nat
          /\ Got(t, made + 1) /\ made' = made + 1 /\ UNCHANGED <<order, copy, total, todo, verdicts>>
        BY DEF MeshInv, TypeOK, HandBack, FirstToInsert
    <1>2. Wanted(t) \in Prepares
        BY <1>1 DEF AtWork
    <1>3. Good(Wanted(t), made + 1, made', copy[Wanted(t)])
        BY <1>1, <1>2 DEF Good
    <1>4. made + 1 \in Nat
        BY <1>1
    <1> QED BY <1>1, <1>3, <1>4, GotKeeps

(* A worker that only goes from one place to the next.                      *)
LEMMA MoveKeeps ==
    ASSUME MeshInv, NEW t \in Threads, NEW a \in {"build", "insert", "evict"},
           work[t].at \in {"fetch", "build", "insert"},
           work' = [ work EXCEPT ![t].at = a ],
           a \in {"insert", "evict"} => Wanted(t) \in Prepares,
           a = "evict" => Unlocked /\ copy[Wanted(t)] = 0 /\ ~ TooLarge(Wanted(t)),
           UNCHANGED <<order, copy, total, made, todo, verdicts>>
    PROVE  MeshInv'
    <1>1. TypeOK /\ AtWork(t)
        BY DEF MeshInv
    <1>2. /\ work' \in [Threads -> WorkType]
          /\ work'[t].pair = work[t].pair /\ work'[t].held = work[t].held /\ work'[t].at = a
          /\ \A u \in Threads : u # t => work'[u] = work[u]
        BY <1>1, MovesTo
    <1>3. Wanted(t)' = Wanted(t)
        BY <1>2 DEF Wanted
    <1>4. AtWork(t)'
        BY <1>1, <1>2, <1>3 DEF AtWork, Fetched, TooLarge
    <1>5. todo' \subseteq Pairs /\ verdicts' \in [Pairs -> {"none", "separated", "analysed"}] /\ VerdictsAreResident'
        BY <1>1 DEF MeshInv, TypeOK, VerdictsAreResident
    <1> QED BY <1>2, <1>4, <1>5, CacheUntouched

LEMMA MissKeeps ==
    ASSUME MeshInv, NEW t \in Threads, Miss(t)
    PROVE  MeshInv'
    BY MoveKeeps DEF Miss

LEMMA LockKeeps ==
    ASSUME MeshInv, NEW t \in Threads, Lock(t)
    PROVE  MeshInv'
    <1>1. AtWork(t)
        BY DEF MeshInv
    <1> QED BY <1>1, MoveKeeps DEF Lock, FirstToInsert, AtWork

LEMMA BuildKeeps ==
    ASSUME MeshInv, NEW t \in Threads, Build(t)
    PROVE  MeshInv'
    <1>1. /\ TypeOK /\ AtWork(t) /\ work[t].at = "build"
          /\ UNCHANGED <<order, copy, total, made, todo, verdicts>>
        BY DEF MeshInv, Build
    <1>2. CASE Wanted(t) \in Prepares
        BY <1>1, <1>2, MoveKeeps DEF Build
    <1>3. CASE Wanted(t) \notin Prepares
        <2>1. Wanted(t) \in Meshes
            BY <1>1, Wants
        <2>2. copy[Wanted(t)] = 0 /\ made \in Nat
            BY <1>3, <2>1 DEF MeshInv, Accounted, TypeOK
        <2>3. Got(t, 0) /\ Good(Wanted(t), 0, made', copy[Wanted(t)])
            BY <1>1, <1>3, <2>2 DEF Build, Good
        <2> QED BY <1>1, <2>3, GotKeeps
    <1> QED BY <1>2, <1>3

LEMMA JudgeKeeps ==
    ASSUME MeshInv, NEW t \in Threads, Judge(t)
    PROVE  MeshInv'
    <1> DEFINE p == work[t].pair
               v == IF 0 \in {work[t].held[1], work[t].held[2]} THEN "separated" ELSE "analysed"
    <1>1. /\ TypeOK /\ AtWork(t) /\ work[t].at = "judge" /\ p \in Pairs /\ Len(work[t].held) = 2
          /\ verdicts' = [ verdicts EXCEPT ![p] = v ] /\ work' = [ work EXCEPT ![t] = Idle ]
          /\ UNCHANGED <<order, copy, total, made, todo>>
        BY DEF MeshInv, AtWork, Judge
    <1>2. v = "analysed" <=> p[1] \in Prepares /\ p[2] \in Prepares
        <2>1. Fetched(p[1], work[t].held[1]) /\ Fetched(p[2], work[t].held[2])
            BY <1>1 DEF AtWork
        <2> QED BY <2>1 DEF Fetched, Good
    <1>3. Idle \in WorkType /\ Idle.at = "idle" /\ Idle.held = <<>> /\ Len(Idle.held) = 0
        BY DEF Idle, WorkType
    <1>4. /\ work' \in [Threads -> WorkType] /\ work'[t] = Idle
          /\ \A u \in Threads : u # t => work'[u] = work[u]
        <2>1. work \in [Threads -> WorkType]
            BY <1>1 DEF TypeOK, WorkType
        <2> QED BY <1>1, <1>3, <2>1
    <1>5. AtWork(t)'
        BY <1>3, <1>4 DEF AtWork
    <1>6. v \in {"separated", "analysed"}
        OBVIOUS
    <1> HIDE DEF p, v
    <1>7. /\ verdicts' \in [Pairs -> {"none", "separated", "analysed"}]
          /\ verdicts'[p] = v /\ \A q \in Pairs : q # p => verdicts'[q] = verdicts[q]
        BY <1>1, <1>6 DEF TypeOK
    <1>8. VerdictsAreResident'
        BY <1>1, <1>2, <1>7 DEF MeshInv, VerdictsAreResident
    <1>9. todo' \subseteq Pairs
        BY <1>1 DEF TypeOK
    <1> QED BY <1>1, <1>3, <1>4, <1>5, <1>7, <1>8, <1>9, CacheUntouched

(* ----- making room and inserting ----------------------------------------- *)
LEMMA FirstAndRest ==
    ASSUME NEW S, NEW q \in Seq(S), q # <<>>
    PROVE  /\ Len(q) \in Nat \ {0} /\ Head(q) = q[1] /\ Head(q) \in S
           /\ Tail(q) \in Seq(S) /\ Len(Tail(q)) = Len(q) - 1
           /\ \A i \in 1..(Len(q) - 1) : Tail(q)[i] = q[i + 1]
    BY SMT

LEMMA EvictedSums ==
    ASSUME NEW q \in Seq(Meshes), q # <<>>, NEW s \in [ 0..Len(q) -> 0..Budget ],
           s[0] = 0, \A i \in 1..Len(q) : s[i] = s[i - 1] + Bytes[q[i]],
           \A i, j \in 0..Len(q) : i <= j => s[i] <= s[j]
    PROVE  \E r \in [ 0..(Len(q) - 1) -> 0..Budget ] :
              /\ r[0] = 0
              /\ \A i \in 1..(Len(q) - 1) : r[i] = r[i - 1] + Bytes[q[i + 1]]
              /\ \A i, j \in 0..(Len(q) - 1) : i <= j => r[i] <= r[j]
              /\ r[Len(q) - 1] = s[Len(q)] - Bytes[q[1]]
              /\ Bytes[q[1]] <= s[Len(q)]
    <1> DEFINE n == Len(q)
               b == Bytes[q[1]]
               r == [ i \in 0..(n - 1) |-> s[i + 1] - b ]
    <1>1. n \in Nat \ {0} /\ q[1] \in Meshes /\ Budget \in Nat
        BY FirstAndRest, CacheAssumption
    <1>2. b \in Nat
        BY <1>1, CacheAssumption
    <1> HIDE DEF n, b
    <1>3. s \in [ 0..n -> 0..Budget ] /\ \A i, j \in 0..n : i <= j => s[i] <= s[j]
        BY DEF n
    <1>4. \A i \in 1..n : s[i] = s[i - 1] + Bytes[q[i]]
        BY DEF n
    <1>5. s[1] = b
        <2>1. 1 \in 1..n /\ 1 - 1 = 0
            BY <1>1
        <2>2. s[1] = s[1 - 1] + Bytes[q[1]]
            BY <1>4, <2>1
        <2> QED BY <1>2, <2>1, <2>2 DEF b
    <1>6. \A i \in 0..(n - 1) : i + 1 \in 0..n /\ s[i + 1] \in 0..Budget /\ b <= s[i + 1]
        <2>1. \A i \in 0..(n - 1) : i + 1 \in 0..n /\ 1 \in 0..n /\ 1 <= i + 1
            BY <1>1
        <2> QED BY <1>3, <1>5, <2>1
    <1>7. r \in [ 0..(n - 1) -> 0..Budget ]
        BY <1>1, <1>2, <1>6
    <1>8. r[0] = 0
        BY <1>1, <1>2, <1>5
    <1>9. ASSUME NEW i \in 1..(n - 1) PROVE r[i] = r[i - 1] + Bytes[q[i + 1]]
        <2>1. i \in 0..(n - 1) /\ i - 1 \in 0..(n - 1) /\ (i - 1) + 1 = i /\ i + 1 \in 1..n /\ (i + 1) - 1 = i
            BY <1>1
        <2>2. s[i + 1] = s[i] + Bytes[q[i + 1]]
            BY <1>4, <2>1
        <2>3. r[i] = s[i + 1] - b /\ r[i - 1] = s[i] - b
            BY <2>1
        <2>4. s[i] \in 0..Budget /\ s[i + 1] \in 0..Budget
            BY <1>6, <2>1
        <2>5. Bytes[q[i + 1]] \in Nat
            BY <2>1, CacheAssumption DEF n
        <2> HIDE DEF r
        <2> QED BY SMTT(20), <1>1, <1>2, <2>2, <2>3, <2>4, <2>5
    <1>10. ASSUME NEW i \in 0..(n - 1), NEW j \in 0..(n - 1), i <= j PROVE r[i] <= r[j]
        <2>1. s[i + 1] <= s[j + 1] /\ s[i + 1] \in 0..Budget /\ s[j + 1] \in 0..Budget
            BY SMTT(20), <1>1, <1>3, <1>6, <1>10
        <2> QED BY <1>1, <1>2, <2>1
    <1>11. r[n - 1] = s[n] - b /\ b <= s[n]
        <2>1. n - 1 \in 0..(n - 1) /\ (n - 1) + 1 = n
            BY <1>1
        <2> QED BY <1>6, <2>1
    <1> HIDE DEF r
    <1> QED BY <1>7, <1>8, <1>9, <1>10, <1>11 DEF n, b

LEMMA EvictKeeps ==
    ASSUME MeshInv, NEW t \in Threads, Evict(t)
    PROVE  MeshInv'
    <1> DEFINE h == Head(order)
               n == Len(order)
    <1>1. /\ TypeOK /\ order \in Seq(Meshes) /\ order # <<>> /\ copy \in [Meshes -> Nat]
          /\ made \in Nat /\ total \in Nat
          /\ order' = Tail(order) /\ copy' = [ copy EXCEPT ![h] = 0 ]
          /\ total' = IF Bytes[h] <= total THEN total - Bytes[h] ELSE 0
          /\ UNCHANGED <<made, todo, work, verdicts>>
        BY DEF MeshInv, TypeOK, Evict, Fits
    <1>2. /\ n \in Nat \ {0} /\ h = order[1] /\ h \in Meshes /\ order' \in Seq(Meshes) /\ Len(order') = n - 1
          /\ \A i \in 1..(n - 1) : order'[i] = order[i + 1]
        BY <1>1, FirstAndRest
    <1>3. PICK s \in [ 0..n -> 0..Budget ] : Sums(s)
        BY DEF MeshInv
    <1>4. PICK r \in [ 0..(n - 1) -> 0..Budget ] :
              /\ r[0] = 0
              /\ \A i \in 1..(n - 1) : r[i] = r[i - 1] + Bytes[order[i + 1]]
              /\ \A i, j \in 0..(n - 1) : i <= j => r[i] <= r[j]
              /\ r[n - 1] = s[n] - Bytes[order[1]]
              /\ Bytes[order[1]] <= s[n]
        BY <1>1, <1>3, EvictedSums DEF Sums
    <1>5. s[n] = total
        BY <1>3 DEF Sums
    <1>6. Bytes[h] \in Nat /\ total' = total - Bytes[h] /\ total' \in Nat /\ r[n - 1] = total'
        <2>1. Bytes[h] \in Nat /\ Bytes[h] <= total
            BY <1>2, <1>4, <1>5, CacheAssumption
        <2> HIDE DEF h
        <2> QED BY <1>1, <1>2, <1>4, <1>5, <2>1
    <1>7. copy' \in [Meshes -> Nat] /\ copy'[h] = 0 /\ \A m \in Meshes : m # h => copy'[m] = copy[m]
        BY <1>1, <1>2
    <1> HIDE DEF h, n
    <1>8. NoSums'
        <2>1. Sums(r)'
            BY <1>2, <1>4, <1>6 DEF Sums
        <2> QED BY <1>2, <1>4, <2>1 DEF NoSums
    <1>9. \A i, j \in 1..n : order[i] = order[j] => i = j
        BY DEF MeshInv, n
    <1>10. OrderedOnce'
        <2>1. ASSUME NEW i \in 1..(n - 1), NEW j \in 1..(n - 1), order'[i] = order'[j] PROVE i = j
            <3>1. i + 1 \in 1..n /\ j + 1 \in 1..n
                BY <1>2
            <3>2. order[i + 1] = order[j + 1]
                BY <1>2, <2>1
            <3>3. i + 1 = j + 1
                BY <1>9, <3>1, <3>2
            <3> QED BY <3>3
        <2> QED BY <1>2, <2>1 DEF OrderedOnce
    <1>11. ASSUME NEW m \in Meshes PROVE Accounted(m)'
        <2>1. Accounted(m)
            BY DEF MeshInv
        <2>2. CASE m = h
            <3>1. \A i \in 1..(n - 1) : order'[i] # h
                <4>1. \A i \in 1..(n - 1) : i + 1 \in 1..n /\ i + 1 # 1 /\ 1 \in 1..n
                    BY <1>2
                <4> QED BY <1>2, <1>9, <4>1
            <3> QED BY <1>1, <1>2, <1>7, <2>2, <3>1 DEF Accounted
        <2>3. CASE m # h
            <3>1. (\E i \in 1..n : order[i] = m) <=> (\E i \in 1..(n - 1) : order'[i] = m)
                <4>1. ASSUME NEW i \in 1..n, order[i] = m PROVE \E k \in 1..(n - 1) : order'[k] = m
                    <5>1. i # 1
                        BY <1>2, <2>3, <4>1
                    <5>2. i - 1 \in 1..(n - 1) /\ (i - 1) + 1 = i
                        BY <1>2, <5>1
                    <5> QED BY <1>2, <4>1, <5>2
                <4>2. ASSUME NEW k \in 1..(n - 1), order'[k] = m PROVE \E i \in 1..n : order[i] = m
                    <5>1. k + 1 \in 1..n
                        BY <1>2
                    <5> QED BY <1>2, <4>2, <5>1
                <4> QED BY <4>1, <4>2
            <3> QED BY <1>1, <1>2, <1>7, <2>1, <2>3, <3>1 DEF Accounted, TooLarge, n
        <2> QED BY <2>2, <2>3
    <1>12. \A u \in Threads : AtWork(u)'
        <2>1. \A m \in Meshes : copy'[m] \in {copy[m], 0, made'}
            BY <1>7
        <2>2. \A m \in Meshes : copy[m] = 0 => copy'[m] = 0
            BY <1>7
        <2> QED BY <1>1, <1>7, <2>1, <2>2, GoesOn DEF MeshInv
    <1>13. OneEvicts' /\ VerdictsAreResident'
        BY <1>1 DEF MeshInv, OneEvicts, VerdictsAreResident
    <1>14. TypeOK'
        BY <1>1, <1>2, <1>6, <1>7 DEF TypeOK
    <1> QED BY <1>8, <1>10, <1>11, <1>12, <1>13, <1>14 DEF MeshInv, NoSums, OrderedOnce

LEMMA InsertKeeps ==
    ASSUME MeshInv, NEW t \in Threads, Insert(t)
    PROVE  MeshInv'
    <1> DEFINE m0 == Wanted(t)
               n == Len(order)
               b == Bytes[m0]
    <1>1. /\ TypeOK /\ AtWork(t) /\ order \in Seq(Meshes) /\ copy \in [Meshes -> Nat]
          /\ made \in Nat /\ total \in Nat /\ n \in Nat
          /\ work[t].at = "evict" /\ Fits(t) /\ Got(t, made + 1) /\ made' = made + 1
          /\ order' = Append(order, m0) /\ copy' = [ copy EXCEPT ![m0] = made + 1 ]
          /\ total' = total + b /\ UNCHANGED <<todo, verdicts>>
        BY DEF MeshInv, TypeOK, Insert
    <1>2. m0 \in Meshes /\ m0 \in Prepares /\ copy[m0] = 0 /\ ~ TooLarge(m0) /\ b \in Nat
        BY <1>1, Wants, CacheAssumption DEF AtWork
    <1>3. /\ order' \in Seq(Meshes) /\ Len(order') = n + 1 /\ order'[n + 1] = m0
          /\ \A i \in 1..n : order'[i] = order[i]
        BY <1>1, <1>2
    <1>4. /\ copy' \in [Meshes -> Nat] /\ copy'[m0] = made + 1
          /\ \A m \in Meshes : m # m0 => copy'[m] = copy[m]
        BY <1>1, <1>2
    <1>5. \A i \in 1..n : order[i] # m0
        BY <1>2 DEF MeshInv, Accounted
    <1>6. PICK s \in [ 0..n -> 0..Budget ] : Sums(s)
        BY DEF MeshInv
    <1>7. s[0] = 0 /\ s[n] = total /\ (\A i \in 1..n : s[i] = s[i - 1] + Bytes[order[i]])
          /\ \A i, j \in 0..n : i <= j => s[i] <= s[j]
        BY <1>6 DEF Sums
    <1>8. s[n] + b <= Budget
        <2>1. CASE order = <<>>
            <3>1. n = 0 /\ b <= Budget
                BY <1>2, <2>1, CacheAssumption DEF TooLarge
            <3> QED BY <1>2, <1>7, <3>1
        <2>2. CASE order # <<>>
            BY <1>1, <1>7, <2>2 DEF Fits
        <2> QED BY <2>1, <2>2
    <1>10. Good(m0, made + 1, made', copy'[m0]) /\ made + 1 \in Nat /\ made' \in Nat /\ made <= made'
        BY <1>1, <1>2, <1>4 DEF Good
    <1>11. \A m \in Meshes : copy'[m] \in {copy[m], 0, made'}
        BY <1>1, <1>4
    <1>12. AtWork(t)'
        BY <1>1, <1>4, <1>10, <1>11, GetsIt
    <1>13. /\ work' \in [Threads -> WorkType] /\ work'[t].at # "evict"
           /\ \A u \in Threads : u # t => work'[u] = work[u]
        BY <1>1, <1>10, GotWork
    <1>14. \A u \in Threads : AtWork(u)'
        <2>1. \A u \in Threads : u # t => AtWork(u) /\ work[u].at # "evict"
            BY <1>1 DEF MeshInv, OneEvicts
        <2>2. \A u \in Threads : u # t => AtWork(u)'
            BY <1>1, <1>4, <1>10, <1>11, <1>13, <2>1, GoesOn
        <2> QED BY <1>12, <2>2
    <1>15. OneEvicts'
        BY <1>1, <1>13 DEF MeshInv, OneEvicts
    <1>16. VerdictsAreResident'
        BY <1>1 DEF MeshInv, VerdictsAreResident
    <1> HIDE DEF m0, n, b
    <1>9. PICK r \in [ 0..(n + 1) -> 0..Budget ] :
              /\ \A i \in 0..n : r[i] = s[i]
              /\ r[n + 1] = s[n] + b
              /\ \A i, j \in 0..(n + 1) : i <= j => r[i] <= r[j]
        <2>1. n \in Nat /\ b \in Nat /\ s \in [ 0..n -> 0..Budget ] /\ s[n] + b <= Budget
            BY <1>1, <1>2, <1>6, <1>8
        <2>2. \A i, j \in 0..n : i <= j => s[i] <= s[j]
            BY <1>7
        <2> DEFINE r == [ i \in 0..(n + 1) |-> IF i = n + 1 THEN s[n] + b ELSE s[i] ]
        <2>3. Budget \in Nat /\ n \in 0..n /\ s[n] \in 0..Budget
            BY <2>1, CacheAssumption
        <2>4. \A i \in 0..(n + 1) : i # n + 1 => i \in 0..n /\ i <= n
            BY <2>1
        <2>5. r \in [ 0..(n + 1) -> 0..Budget ]
            BY <2>1, <2>3, <2>4
        <2>6. r[n + 1] = s[n] + b
            BY <2>1
        <2>7. \A i \in 0..n : r[i] = s[i]
            BY <2>1
        <2> HIDE DEF r
        <2>8. ASSUME NEW i \in 0..(n + 1), NEW j \in 0..(n + 1), i <= j PROVE r[i] <= r[j]
            <3>1. CASE j # n + 1
                <4>1. i \in 0..n /\ j \in 0..n
                    BY <2>4, <2>8, <3>1
                <4> QED BY <2>2, <2>7, <2>8, <4>1
            <3>2. CASE j = n + 1 /\ i # n + 1
                <4>1. i \in 0..n /\ i <= n
                    BY <2>4, <3>2
                <4>2. s[i] <= s[n] /\ s[i] \in 0..Budget
                    BY <2>1, <2>2, <2>3, <4>1
                <4> QED BY <2>1, <2>3, <2>6, <2>7, <3>2, <4>1, <4>2
            <3>3. CASE j = n + 1 /\ i = n + 1
                <4>1. r[n + 1] \in Nat
                    BY <2>1, <2>3, <2>6
                <4> QED BY <3>3, <4>1
            <3> QED BY <3>1, <3>2, <3>3
        <2> QED BY <2>5, <2>6, <2>7, <2>8
    <1>17. \A i \in 1..(n + 1) : i \in 1..n \/ i = n + 1
        BY <1>1
    <1>18. \A i \in 1..n : i \in 1..(n + 1)
        BY <1>1
    <1>19. n + 1 \in 1..(n + 1)
        BY <1>1
    <1>20. OrderedOnce'
        <2>1. \A i, j \in 1..n : order[i] = order[j] => i = j
            BY DEF MeshInv, n
        <2> QED BY <1>3, <1>5, <1>17, <2>1 DEF OrderedOnce
    <1>21. NoSums'
        <2>1. ASSUME NEW i \in 1..(n + 1) PROVE r[i] = r[i - 1] + Bytes[order'[i]]
            <3>1. CASE i \in 1..n
                <4>1. i \in 0..n /\ i - 1 \in 0..n
                    BY <1>1, <3>1
                <4> QED BY <1>3, <1>7, <1>9, <3>1, <4>1
            <3>2. CASE i = n + 1
                <4>1. (n + 1) - 1 = n /\ n \in 0..n
                    BY <1>1
                <4> QED BY <1>3, <1>9, <3>2, <4>1 DEF b
            <3> QED BY <1>17, <3>1, <3>2
        <2>2. r[0] = 0 /\ r[n + 1] = total'
            <3>1. 0 \in 0..n
                BY <1>1
            <3> QED BY <1>1, <1>7, <1>9, <3>1
        <2>3. Sums(r)'
            BY <1>3, <1>9, <2>1, <2>2 DEF Sums
        <2> QED BY <1>3, <1>9, <2>3 DEF NoSums
    <1>22. ASSUME NEW m \in Meshes PROVE Accounted(m)'
        <2>1. Accounted(m)
            BY DEF MeshInv
        <2>2. copy[m] \in Nat
            BY <1>1
        <2>3. CASE m = m0
            <3>1. made + 1 # 0
                BY <1>1
            <3>2. \E i \in 1..(n + 1) : order'[i] = m
                BY <1>3, <1>19, <2>3
            <3> QED BY <1>1, <1>2, <1>3, <1>4, <1>10, <2>3, <3>1, <3>2 DEF Accounted, TooLarge
        <2>4. CASE m # m0
            <3>1. (\E i \in 1..n : order[i] = m) <=> (\E i \in 1..(n + 1) : order'[i] = m)
                BY <1>3, <1>17, <1>18, <2>4
            <3>2. copy'[m] = copy[m] /\ copy'[m] <= made'
                BY <1>1, <1>4, <2>1, <2>2, <2>4 DEF Accounted
            <3> QED BY <1>3, <2>1, <3>1, <3>2 DEF Accounted, TooLarge, n
        <2> QED BY <2>3, <2>4
    <1>23. TypeOK'
        <2>1. total' \in Nat
            BY <1>1, <1>2
        <2> QED BY <1>1, <1>3, <1>4, <1>10, <1>13, <2>1 DEF TypeOK, WorkType
    <1> QED BY <1>14, <1>15, <1>16, <1>20, <1>21, <1>22, <1>23 DEF MeshInv, NoSums, OrderedOnce

(* ----- the invariant ------------------------------------------------------ *)
LEMMA MeshKeeps == MeshInv /\ [Next]_vars => MeshInv'
    <1> SUFFICES ASSUME MeshInv, [Next]_vars PROVE MeshInv'
        OBVIOUS
    <1>1. CASE UNCHANGED vars
        <2>1. UNCHANGED <<order, copy, total, made, todo, work, verdicts>>
            BY <1>1 DEF vars
        <2> QED BY ZenonT(30), <2>1 DEF MeshInv, TypeOK, AtWork, Wanted, Fetched, TooLarge, OneEvicts, Accounted, Sums,
                            VerdictsAreResident
    <1>2. CASE Next
        BY <1>2, TakeKeeps, HitKeeps, MissKeeps, BuildKeeps, LoseRaceKeeps, HandBackKeeps, LockKeeps,
           EvictKeeps, InsertKeeps, JudgeKeeps DEF Next
    <1> QED BY <1>1, <1>2

(* Types, what workers hold, the lock, the books of the cache, verdicts.    *)
THEOREM MeshInvariant == Spec => []MeshInv
    BY MeshStarts, MeshKeeps, PTL DEF Spec

(* However many workers race and meshes come back, `order` lists the cached *)
(* ids once each and the weights in it add up to `total`, within the budget.*)
THEOREM BooksAreKept == Spec => []CacheIsAccounted
    <1>1. MeshInv => CacheIsAccounted
        BY DEF MeshInv, CacheIsAccounted, Accounted, Sums
    <1> QED BY <1>1, MeshInvariant, PTL

(* Verdicts and the copies workers hold do not depend on evictions, races,  *)
(* or the budget.                                                           *)
THEOREM CacheChangesNothing == Spec => []CacheIsTransparent
    <1>1. MeshInv => CacheIsTransparent
        <2> SUFFICES ASSUME MeshInv, NEW t \in Threads, NEW i \in 1..Len(work[t].held),
                            copy[work[t].pair[i]] # 0
                     PROVE  work[t].held[i] # 0 /\ work[t].held[i] <= copy[work[t].pair[i]]
            BY DEF CacheIsTransparent, RacersShareOneCopy, MeshInv
        <2>1. TypeOK /\ AtWork(t)
            BY DEF MeshInv
        <2>2. work[t].pair[i] \in Meshes
            BY <2>1, Holds
        <2>3. work[t].pair[i] \in Prepares
            BY <2>2 DEF MeshInv, Accounted
        <2> QED BY <2>1, <2>3 DEF AtWork, Fetched, Good
    <1> QED BY <1>1, MeshInvariant, PTL

------------------------------------------------------------------------------
(* The building topology                                                    *)
(* ----- induction -------------------------------------------------------- *)
(* Every nonempty set of naturals has a least member: the finite subsets of *)
(* a set are well-founded, 1..n among them.                                 *)
LEMMA Least ==
    ASSUME NEW T \in SUBSET Nat, T # {}
    PROVE \E n \in T : \A k \in T : n <= k
    <1> DEFINE I == { 1..n : n \in T }
    <1>1. I \subseteq FiniteSubsetsOf(Nat) /\ I # {}
        <2>1. \A n \in Nat : 1..n \subseteq Nat /\ IsFiniteSet(1..n)
            BY FS_Interval
        <2> QED BY <2>1 DEF FiniteSubsetsOf
    <1>2. \E x \in I : \A y \in I : ~ <<y, x>> \in StrictSubsetOrdering(Nat)
        <2> HIDE DEF I
        <2> QED BY <1>1, FS_StrictSubsetOrderingWellFounded, WFMin
    <1>3. PICK n \in T : \A k \in T : ~ <<1..k, 1..n>> \in StrictSubsetOrdering(Nat)
        BY <1>2
    <1>4. \A k \in T : n <= k
        <2> SUFFICES ASSUME NEW k \in T, k < n PROVE FALSE
            OBVIOUS
        <2>1. 1..k \subseteq 1..n /\ n \in 1..n /\ n \notin 1..k /\ 1..k \subseteq Nat /\ 1..n \subseteq Nat
            OBVIOUS
        <2> QED BY <2>1, <1>3 DEF StrictSubsetOrdering
    <1> QED BY <1>4

(* Induction, for the set of the numbers that have the property.            *)
LEMMA Induction ==
    ASSUME NEW T, 0 \in T, \A n \in Nat : n \in T => n + 1 \in T
    PROVE Nat \subseteq T
    <1> SUFFICES ASSUME Nat \ T # {} PROVE FALSE
        OBVIOUS
    <1>1. PICK n \in Nat \ T : \A k \in Nat \ T : n <= k
        BY Least
    <1>2. n # 0 /\ n - 1 \in Nat /\ n - 1 \in T
        BY <1>1
    <1> QED BY <1>2, <1>1

(* ----- what is reached -------------------------------------------------- *)
Chain(R, S, n, f) ==
    /\ f = [ i \in 0..n |-> f[i] ]
    /\ f[0] = S
    /\ \A i \in 1..n : f[i] = f[i - 1] \cup Followed(R, f[i - 1])

LEMMA ChainExists ==
    ASSUME NEW R, NEW S, NEW n \in Nat
    PROVE \E f : Chain(R, S, n, f)
    <1> DEFINE T == { k \in Nat : \E f : Chain(R, S, k, f) }
    <1>1. 0 \in T
        <2>1. Chain(R, S, 0, [ i \in 0..0 |-> S ])
            BY DEF Chain
        <2> QED BY <2>1
    <1>2. ASSUME NEW k \in Nat, k \in T PROVE k + 1 \in T
        <2>1. PICK f : Chain(R, S, k, f)
            BY <1>2
        <2> DEFINE g == [ i \in 0..(k + 1) |-> IF i = k + 1 THEN f[k] \cup Followed(R, f[k]) ELSE f[i] ]
        <2>2. g[0] = S
            BY <2>1 DEF Chain
        <2>3. ASSUME NEW i \in 1..(k + 1) PROVE g[i] = g[i - 1] \cup Followed(R, g[i - 1])
            <3>1. CASE i = k + 1
                BY <3>1
            <3>2. CASE i # k + 1
                <4>1. i \in 1..k /\ i - 1 \in 0..(k + 1) /\ i - 1 # k + 1
                    BY <3>2
                <4> QED BY <4>1, <2>1 DEF Chain
            <3> QED BY <3>1, <3>2
        <2>4. g = [ i \in 0..(k + 1) |-> g[i] ]
            OBVIOUS
        <2> HIDE DEF g
        <2>5. Chain(R, S, k + 1, g)
            BY <2>2, <2>3, <2>4 DEF Chain
        <2> QED BY <2>5
    <1> HIDE DEF T
    <1>3. Nat \subseteq T
        BY <1>1, <1>2, Induction
    <1> QED BY <1>3 DEF T

LEMMA ReachedIsChain ==
    ASSUME NEW R, NEW S, NEW n \in Nat
    PROVE \E f : Chain(R, S, n, f) /\ Reached(R, S, n) = f[n]
    <1> DEFINE Rule(f) == [ i \in 0..n |-> IF i = 0 THEN S ELSE f[i - 1] \cup Followed(R, f[i - 1]) ]
    <1> DEFINE f == CHOOSE g : g = Rule(g)
    <1>1. PICK g : Chain(R, S, n, g)
        BY ChainExists
    <1>2. g = Rule(g)
        <2>1. \A i \in 0..n : g[i] = Rule(g)[i]
            BY <1>1 DEF Chain
        <2>2. g = [ i \in 0..n |-> g[i] ]
            BY <1>1 DEF Chain
        <2> QED BY <2>1, <2>2
    <1>3. f = Rule(f)
        BY <1>2
    <1>4. Reached(R, S, n) = f[n]
        BY DEF Reached
    <1>5. Chain(R, S, n, f)
        <2> HIDE DEF f
        <2>1. f = [ i \in 0..n |-> f[i] ]
            <3>1. Rule(f) = [ i \in 0..n |-> Rule(f)[i] ]
                OBVIOUS
            <3> HIDE DEF Rule
            <3> QED BY <3>1, <1>3
        <2>2. f[0] = S
            BY <1>3
        <2>3. ASSUME NEW i \in 1..n PROVE f[i] = f[i - 1] \cup Followed(R, f[i - 1])
            <3>1. Rule(f)[i] = f[i - 1] \cup Followed(R, f[i - 1])
                OBVIOUS
            <3> HIDE DEF Rule
            <3> QED BY <3>1, <1>3
        <2> QED BY <2>1, <2>2, <2>3 DEF Chain
    <1> QED BY <1>4, <1>5

(* Nothing is lost on the way.                                              *)
LEMMA ReachedKeeps ==
    ASSUME NEW R, NEW S, NEW n \in Nat
    PROVE  S \subseteq Reached(R, S, n)
    <1>1. PICK f : Chain(R, S, n, f) /\ Reached(R, S, n) = f[n]
        BY ReachedIsChain
    <1> DEFINE T == { i \in Nat : i <= n => S \subseteq f[i] }
    <1>2. 0 \in T
        BY <1>1 DEF Chain
    <1>3. ASSUME NEW i \in Nat, i \in T PROVE i + 1 \in T
        <2> SUFFICES ASSUME i + 1 <= n PROVE S \subseteq f[i + 1]
            OBVIOUS
        <2>1. S \subseteq f[i]
            BY <1>3
        <2>2. f[i + 1] = f[i] \cup Followed(R, f[i])
            <3>1. i + 1 \in 1..n /\ (i + 1) - 1 = i
                OBVIOUS
            <3> QED BY <3>1, <1>1 DEF Chain
        <2> QED BY <2>1, <2>2
    <1> HIDE DEF T
    <1>4. Nat \subseteq T
        BY <1>2, <1>3, Induction
    <1> QED BY <1>1, <1>4 DEF T

(* Along the pairs of R in a finite U of n members, n steps reach all there *)
(* is to reach: the least set with S in it that R does not lead out of.     *)
LEMMA ReachedIsClosure ==
    ASSUME NEW U, IsFiniteSet(U), NEW R \in SUBSET (U \X U), NEW S \in SUBSET U
    PROVE  LET X == Reached(R, S, Cardinality(U))
           IN  /\ S \subseteq X /\ X \subseteq U /\ Followed(R, X) \subseteq X
               /\ \A Y : S \subseteq Y /\ Followed(R, Y) \subseteq Y => X \subseteq Y
    <1> DEFINE N == Cardinality(U)
    <1>0. N \in Nat
        BY FS_CardinalityType
    <1> HIDE DEF N
    <1>1. PICK f : Chain(R, S, N, f) /\ Reached(R, S, N) = f[N]
        BY ReachedIsChain, <1>0
    <1> DEFINE Grown(i) == Followed(R, f[i]) \subseteq f[i] \/ Cardinality(f[i]) >= i
    <1>2. \A i \in 0..N : S \subseteq f[i] /\ f[i] \subseteq U /\ Grown(i)
        <2> DEFINE T == { i \in Nat : i <= N => S \subseteq f[i] /\ f[i] \subseteq U /\ Grown(i) }
        <2>1. 0 \in T
            <3>1. f[0] = S /\ Cardinality(S) \in Nat
                BY <1>1, FS_Subset, FS_CardinalityType DEF Chain
            <3> QED BY <3>1
        <2>2. ASSUME NEW i \in Nat, i \in T PROVE i + 1 \in T
            <3> SUFFICES ASSUME i + 1 <= N PROVE S \subseteq f[i + 1] /\ f[i + 1] \subseteq U /\ Grown(i + 1)
                OBVIOUS
            <3>1. i <= N /\ S \subseteq f[i] /\ f[i] \subseteq U /\ Grown(i)
                BY <2>2, <1>0
            <3>2. f[i + 1] = f[i] \cup Followed(R, f[i])
                <4>1. i + 1 \in 1..N /\ (i + 1) - 1 = i
                    BY <1>0
                <4> QED BY <4>1, <1>1 DEF Chain
            <3>3. Followed(R, f[i]) \subseteq U
                BY DEF Followed
            <3>4. S \subseteq f[i + 1] /\ f[i + 1] \subseteq U
                BY <3>1, <3>2, <3>3
            <3>5. CASE Followed(R, f[i]) \subseteq f[i]
                <4>1. f[i + 1] = f[i]
                    BY <3>2, <3>5
                <4> QED BY <4>1, <3>1, <3>4, <3>5
            <3>6. CASE ~ (Followed(R, f[i]) \subseteq f[i])
                <4>1. PICK x \in Followed(R, f[i]) : x \notin f[i]
                    BY <3>6
                <4>2. IsFiniteSet(f[i]) /\ IsFiniteSet(f[i + 1]) /\ Cardinality(f[i]) \in Nat /\ Cardinality(f[i + 1]) \in Nat
                    BY <3>1, <3>4, FS_Subset, FS_CardinalityType
                <4>3. Cardinality(f[i] \cup {x}) = Cardinality(f[i]) + 1
                    BY <4>1, <4>2, FS_AddElement
                <4>4. f[i] \cup {x} \subseteq f[i + 1]
                    BY <4>1, <3>2
                <4>5. Cardinality(f[i] \cup {x}) <= Cardinality(f[i + 1])
                    BY <4>2, <4>4, FS_Subset
                <4>6. Cardinality(f[i]) >= i
                    BY <3>1, <3>6
                <4>7. Cardinality(f[i + 1]) >= i + 1
                    BY <4>2, <4>3, <4>5, <4>6
                <4> QED BY <4>7, <3>4
            <3> QED BY <3>5, <3>6
        <2> HIDE DEF T
        <2>3. Nat \subseteq T
            BY <2>1, <2>2, Induction
        <2> QED BY <2>3, <1>0 DEF T
    <1>3. S \subseteq f[N] /\ f[N] \subseteq U /\ Grown(N)
        BY <1>2, <1>0
    <1>4. Followed(R, f[N]) \subseteq f[N]
        <2>1. CASE Cardinality(f[N]) >= N
            <3>1. Cardinality(f[N]) <= Cardinality(U) /\ (Cardinality(f[N]) = Cardinality(U) => f[N] = U)
                BY <1>3, FS_Subset
            <3>2. Cardinality(f[N]) \in Nat
                BY <1>3, FS_Subset, FS_CardinalityType
            <3>3. f[N] = U
                BY <3>1, <3>2, <2>1, <1>0 DEF N
            <3> QED BY <3>3 DEF Followed
        <2> QED BY <2>1, <1>3
    <1>5. ASSUME NEW Y, S \subseteq Y, Followed(R, Y) \subseteq Y PROVE f[N] \subseteq Y
        <2> DEFINE T == { i \in Nat : i <= N => f[i] \subseteq Y }
        <2>1. 0 \in T
            BY <1>1, <1>5 DEF Chain
        <2>2. ASSUME NEW i \in Nat, i \in T PROVE i + 1 \in T
            <3> SUFFICES ASSUME i + 1 <= N PROVE f[i + 1] \subseteq Y
                OBVIOUS
            <3>1. f[i] \subseteq Y
                BY <2>2, <1>0
            <3>2. f[i + 1] = f[i] \cup Followed(R, f[i])
                <4>1. i + 1 \in 1..N /\ (i + 1) - 1 = i
                    BY <1>0
                <4> QED BY <4>1, <1>1 DEF Chain
            <3>3. Followed(R, f[i]) \subseteq Followed(R, Y)
                BY <3>1 DEF Followed
            <3> QED BY <3>1, <3>2, <3>3, <1>5
        <2> HIDE DEF T
        <2>3. Nat \subseteq T
            BY <2>1, <2>2, Induction
        <2> QED BY <2>3, <1>0 DEF T
    <1>6. Reached(R, S, Cardinality(U)) = f[N]
        BY <1>1 DEF N
    <1> QED BY <1>3, <1>4, <1>5, <1>6

(* ----- edges ------------------------------------------------------------ *)
Incidences == {"adjacentElement", "intersectingElement"}

LEMMA Kinds ==
    ASSUME NEW m
    PROVE  /\ Elements(m) \subseteq Ids(m) /\ ZoneLike(m) \subseteq Ids(m) /\ SpatialNodes(m) \subseteq Ids(m)
           /\ Elements(m) \cap ZoneLike(m) = {} /\ ZoneLike(m) \subseteq SpatialNodes(m)
    BY DEF Elements, ZoneLike, SpatialNodes

LEMMA EdgeParts ==
    ASSUME NEW s, NEW k, NEW t, NEW u, NEW l, NEW v
    PROVE  /\ Edge(s, k, t).source = s /\ Edge(s, k, t).kind = k /\ Edge(s, k, t).target = t
           /\ Edge(s, k, t) = Edge(u, l, v) <=> s = u /\ k = l /\ t = v
    BY DEF Edge

(* What the relations of the file give, by kind.                            *)
LEMMA SemanticEdges ==
    ASSUME NEW m, NEW x \in Semantic(m)
    PROVE  /\ x = Edge(x.source, x.kind, x.target)
           /\ x.kind \in {"hasSubElement", "containsZone", "adjacentElement", "containsElement"}
           /\ x.kind = "hasSubElement" => x.source \in Elements(m) /\ x.target \in Elements(m)
           /\ x.kind = "adjacentElement" => x \in Bounding(m)
           /\ x.kind = "containsElement" => x \in Contained(m)
    <1>1. CASE x \in SubElements(m)
        BY <1>1 DEF SubElements, Edge
    <1>2. CASE x \in SubZones(m)
        BY <1>2 DEF SubZones, Edge
    <1>3. CASE x \in Hosted(m)
        BY <1>3 DEF Hosted, Edge
    <1>4. CASE x \in Bounding(m)
        BY <1>4 DEF Bounding, Edge
    <1>5. CASE x \in Contained(m)
        BY <1>5 DEF Contained, Edge
    <1> QED BY <1>1, <1>2, <1>3, <1>4, <1>5 DEF Semantic

LEMMA BoundingEdges ==
    ASSUME NEW m, NEW x \in Bounding(m)
    PROVE  x.kind = "adjacentElement" /\ x.source \in SpatialNodes(m) /\ x.target \in Elements(m) /\ x \in Semantic(m)
    BY DEF Bounding, Edge, Semantic

(* A pair of a zone and an element, in the order of their ids.              *)
LEMMA MixedPair ==
    ASSUME NEW m, IsModel(m), NEW p \in MixedPairs(m)
    PROVE  Zoned(m, p)[1] \in ZoneLike(m) /\ Zoned(m, p)[2] \in Elements(m)
    <1>1. p \in Ids(m) \X Ids(m) /\ p = <<p[1], p[2]>>
        BY DEF MixedPairs, MeshPairs
    <1>2. Cardinality({p[1], p[2]} \cap ZoneLike(m)) = 1 /\ {p[1], p[2]} \cap Elements(m) # {}
        BY DEF MixedPairs
    <1>3. {p[1], p[2]} \cap ZoneLike(m) # {}
        BY <1>2, FS_EmptySet
    <1> QED BY <1>1, <1>2, <1>3, Kinds DEF Zoned

LEMMA PairMixes ==
    ASSUME NEW m, IsModel(m), NEW z \in ZoneLike(m), NEW e \in Elements(m)
    PROVE  LET p == IF z < e THEN <<z, e>> ELSE <<e, z>>
           IN  p \in MixedPairs(m) /\ Zoned(m, p)[1] = z /\ Zoned(m, p)[2] = e
    <1> DEFINE p == IF z < e THEN <<z, e>> ELSE <<e, z>>
    <1>1. z \in Ids(m) /\ e \in Ids(m) /\ z # e /\ z \notin Elements(m) /\ e \notin ZoneLike(m) /\ Ids(m) \subseteq Nat
        BY Kinds DEF IsModel
    <1>2. p \in MeshPairs(m)
        BY <1>1 DEF MeshPairs
    <1>3. {p[1], p[2]} \cap ZoneLike(m) = {z} /\ {p[1], p[2]} \cap Elements(m) = {e}
        BY <1>1
    <1>4. p \in MixedPairs(m)
        BY <1>2, <1>3, FS_Singleton DEF MixedPairs
    <1>5. Zoned(m, p)[1] = z /\ Zoned(m, p)[2] = e
        BY <1>1 DEF Zoned
    <1> QED BY <1>4, <1>5

LEMMA PairIsOrdered ==
    ASSUME NEW m, IsModel(m), NEW p \in MixedPairs(m), NEW z, NEW e, Zoned(m, p)[1] = z, Zoned(m, p)[2] = e
    PROVE  p = IF z < e THEN <<z, e>> ELSE <<e, z>>
    <1>1. p \in Ids(m) \X Ids(m) /\ p = <<p[1], p[2]>> /\ p[1] < p[2] /\ p[1] \in Nat /\ p[2] \in Nat
        BY DEF MixedPairs, MeshPairs, IsModel
    <1>2. \/ z = p[1] /\ e = p[2]
          \/ z = p[2] /\ e = p[1]
        BY DEF Zoned
    <1>3. ~ (p[2] < p[1])
        BY <1>1
    <1> QED BY <1>1, <1>2, <1>3

(* What geometry adds, by kind.                                             *)
LEMMA GeometricEdges ==
    ASSUME NEW m, IsModel(m), NEW outcome, NEW x \in Geometric(m, outcome)
    PROVE  /\ x = Edge(x.source, x.kind, x.target)
           /\ x.kind = "hasSubElement" => x \in Semantic(m)
           /\ x.kind \in Incidences =>
                 /\ x \in Bounding(m) \/ x \in Gated(Semantic(m), Incident(m, outcome))
                 /\ x.source \in SpatialNodes(m) /\ x.target \in Elements(m)
    <1>1. CASE x \in Semantic(m)
        BY <1>1, SemanticEdges, BoundingEdges DEF Incidences
    <1>2. CASE x \in Gated(Semantic(m), Incident(m, outcome))
        <2>1. PICK p \in MixedPairs(m) : x = Edge(Zoned(m, p)[1], EdgeKind(outcome[p]), Zoned(m, p)[2])
            BY <1>2 DEF Gated, Incident, Meeting
        <2>2. EdgeKind(outcome[p]) \in Incidences
            BY DEF EdgeKind, Incidences
        <2> QED BY <1>2, <2>1, <2>2, MixedPair, EdgeParts, Kinds DEF Incidences
    <1>3. CASE x \in Enclosed(m, outcome)
        BY <1>3 DEF Enclosed, Edge, Incidences
    <1>4. CASE x \in Neighbours(m, outcome)
        <2>1. PICK p : x = Edge(p[1], "adjacentZone", p[2]) \/ x = Edge(p[2], "adjacentZone", p[1])
            BY <1>4 DEF Neighbours
        <2> QED BY <2>1, EdgeParts DEF Incidences
    <1> QED BY <1>1, <1>2, <1>3, <1>4 DEF Geometric

LEMMA PartsAreSemantic ==
    ASSUME NEW m, IsModel(m), NEW outcome
    PROVE  PartOf(Geometric(m, outcome)) = PartOf(Semantic(m))
    <1>1. Semantic(m) \subseteq Geometric(m, outcome)
        BY DEF Geometric
    <1>2. \A x \in Geometric(m, outcome) : x.kind = "hasSubElement" => x \in Semantic(m)
        BY GeometricEdges
    <1> QED BY <1>1, <1>2 DEF PartOf

(* The ancestors are the wholes: propagation misses no depth, and goes in   *)
(* circles where the relations do.                                          *)
LEMMA AncestorsAreWholes ==
    ASSUME NEW m, IsModel(m), NEW outcome, NEW d \in Elements(m)
    PROVE  Ancestors(m, Geometric(m, outcome), d) = Wholes(m, d)
    <1> DEFINE R == PartOf(Semantic(m))
               S == Followed(R, {d})
               X == Reached(R, S, Cardinality(Ids(m)))
    <1>1. R \subseteq Elements(m) \X Elements(m)
        BY SemanticEdges DEF PartOf
    <1>2. R \subseteq Ids(m) \X Ids(m) /\ S \subseteq Elements(m) /\ S \subseteq Ids(m) /\ IsFiniteSet(Ids(m))
        BY <1>1, Kinds DEF Followed, IsModel
    <1>3. Ancestors(m, Geometric(m, outcome), d) = X
        BY PartsAreSemantic DEF Ancestors
    <1> HIDE DEF R
    <1>4. /\ S \subseteq X /\ Followed(R, X) \subseteq X
          /\ \A Y : S \subseteq Y /\ Followed(R, Y) \subseteq Y => X \subseteq Y
        <2> HIDE DEF S
        <2> QED BY <1>2, ReachedIsClosure
    <1>5. X \subseteq Elements(m)
        <2>1. Followed(R, Elements(m)) \subseteq Elements(m)
            BY <1>1 DEF Followed
        <2> HIDE DEF X, S
        <2> QED BY <2>1, <1>2, <1>4
    <1>6. \A Y : Followed(R, Y \cup {d}) = Followed(R, Y) \cup S
        BY DEF Followed
    <1> HIDE DEF X, S
    <1>7. X \subseteq Wholes(m, d)
        <2> SUFFICES ASSUME NEW w \in X, NEW Y \in SUBSET Elements(m), Followed(R, Y \cup {d}) \subseteq Y PROVE w \in Y
            BY <1>5 DEF Wholes, R
        <2> QED BY <1>4, <1>6
    <1>8. Wholes(m, d) \subseteq X
        <2>1. Followed(R, X \cup {d}) \subseteq X
            BY <1>4, <1>6
        <2> QED BY <2>1, <1>5 DEF Wholes, R
    <1> QED BY <1>3, <1>7, <1>8

(* ----- who meets whom ----------------------------------------------------*)
LEMMA GeometricIsOwn ==
    ASSUME NEW m, IsModel(m), NEW outcome, NEW z \in ZoneLike(m), NEW e \in Elements(m), NEW k \in Incidences
    PROVE  Edge(z, k, e) \in Geometric(m, outcome) <=> k \in Own(m, outcome, z, e)
    <1> DEFINE p == IF z < e THEN <<z, e>> ELSE <<e, z>>
               bounded == Edge(z, "adjacentElement", e) \in Bounding(m)
               met == outcome[p] \in {"touching", "intersecting"} /\ k = EdgeKind(outcome[p])
    <1>1. p \in MixedPairs(m) /\ Zoned(m, p)[1] = z /\ Zoned(m, p)[2] = e
        BY PairMixes
    <1>2. \A q \in MixedPairs(m) : Zoned(m, q)[1] = z /\ Zoned(m, q)[2] = e => q = p
        BY PairIsOrdered
    <1>3. Edge(z, k, e) \in Incident(m, outcome) <=> met
        <2> HIDE DEF p
        <2>1. Edge(z, k, e) \in Incident(m, outcome) <=>
                \E q \in MixedPairs(m) : /\ outcome[q] \in {"touching", "intersecting"}
                                         /\ Edge(z, k, e) = Edge(Zoned(m, q)[1], EdgeKind(outcome[q]), Zoned(m, q)[2])
            BY DEF Incident, Meeting
        <2>2. Edge(z, k, e) \in Incident(m, outcome) <=>
                \E q \in MixedPairs(m) : /\ outcome[q] \in {"touching", "intersecting"}
                                         /\ z = Zoned(m, q)[1] /\ k = EdgeKind(outcome[q]) /\ e = Zoned(m, q)[2]
            BY <2>1, EdgeParts
        <2> QED BY <2>2, <1>1, <1>2
    <1>4. Edge(z, Opposite(k), e) \in Semantic(m) <=> k = "intersectingElement" /\ bounded
        <2>1. CASE k = "intersectingElement"
            <3>1. Opposite(k) = "adjacentElement"
                BY <2>1 DEF Opposite
            <3> QED BY <2>1, <3>1, SemanticEdges, EdgeParts DEF Semantic
        <2>2. CASE k = "adjacentElement"
            <3>1. Opposite(k) = "intersectingElement"
                BY <2>2 DEF Opposite
            <3>2. Edge(z, "intersectingElement", e) \notin Semantic(m)
                BY SemanticEdges, EdgeParts
            <3> QED BY <2>2, <3>1, <3>2
        <2> QED BY <2>1, <2>2 DEF Incidences
    <1>5. Edge(z, k, e) \in Gated(Semantic(m), Incident(m, outcome)) <=> met /\ ~ (k = "intersectingElement" /\ bounded)
        BY <1>3, <1>4, EdgeParts DEF Gated
    <1>6. Edge(z, k, e) \in Bounding(m) <=> k = "adjacentElement" /\ bounded
        BY BoundingEdges, EdgeParts DEF Incidences
    <1>7. Edge(z, k, e) \in Geometric(m, outcome) <=>
            \/ Edge(z, k, e) \in Bounding(m)
            \/ Edge(z, k, e) \in Gated(Semantic(m), Incident(m, outcome))
        BY GeometricEdges, BoundingEdges, EdgeParts DEF Geometric
    <1>8. Own(m, outcome, z, e) =
            IF bounded THEN {"adjacentElement"}
            ELSE IF outcome[p] \in {"touching", "intersecting"} THEN {EdgeKind(outcome[p])} ELSE {}
        BY DEF Own
    <1> HIDE DEF p, bounded
    <1> QED BY <1>5, <1>6, <1>7, <1>8 DEF Incidences, EdgeKind

(* What the parts contribute, before it is weighed.                         *)
OfParts(m, outcome, z, e) == UNION { Own(m, outcome, z, d) : d \in { x \in Elements(m) : e \in Wholes(m, x) } }
Found(m, outcome) ==
    UNION { { Edge(e.source, e.kind, a) : a \in Ancestors(m, Geometric(m, outcome), e.target) }
            : e \in IncidenceOf(m, Geometric(m, outcome)) }

LEMMA FoundIsOfParts ==
    ASSUME NEW m, IsModel(m), NEW outcome
    PROVE  /\ \A x \in Found(m, outcome) : /\ x = Edge(x.source, x.kind, x.target)
                                           /\ x.kind \in Incidences /\ x.source \in ZoneLike(m) /\ x.target \in Elements(m)
           /\ \A z \in ZoneLike(m), e \in Elements(m), k \in Incidences :
                 Edge(z, k, e) \in Found(m, outcome) <=> k \in OfParts(m, outcome, z, e)
    <1> DEFINE G == Geometric(m, outcome)
    <1>1. \A x \in IncidenceOf(m, G) :
             /\ x \in G /\ x = Edge(x.source, x.kind, x.target)
             /\ x.kind \in Incidences /\ x.source \in ZoneLike(m) /\ x.target \in Elements(m)
        BY GeometricEdges DEF IncidenceOf, Incidences
    <1>2. \A x : x \in Found(m, outcome) <=>
                    \E i \in IncidenceOf(m, G) : \E a \in Wholes(m, i.target) : x = Edge(i.source, i.kind, a)
        <2>1. \A i \in IncidenceOf(m, G) : Ancestors(m, G, i.target) = Wholes(m, i.target)
            BY <1>1, AncestorsAreWholes
        <2> QED BY <2>1 DEF Found
    <1>3. \A d : Wholes(m, d) \subseteq Elements(m)
        BY DEF Wholes
    <1>4. \A x \in Found(m, outcome) : /\ x = Edge(x.source, x.kind, x.target)
                                       /\ x.kind \in Incidences /\ x.source \in ZoneLike(m) /\ x.target \in Elements(m)
        BY <1>1, <1>2, <1>3, EdgeParts
    <1>5. ASSUME NEW z \in ZoneLike(m), NEW e \in Elements(m), NEW k \in Incidences
          PROVE  Edge(z, k, e) \in Found(m, outcome) <=> k \in OfParts(m, outcome, z, e)
        <2>1. Edge(z, k, e) \in Found(m, outcome) <=>
                \E d \in Elements(m) : e \in Wholes(m, d) /\ Edge(z, k, d) \in IncidenceOf(m, G)
            <3>1. ASSUME Edge(z, k, e) \in Found(m, outcome)
                  PROVE \E d \in Elements(m) : e \in Wholes(m, d) /\ Edge(z, k, d) \in IncidenceOf(m, G)
                <4>1. PICK i \in IncidenceOf(m, G) : \E a \in Wholes(m, i.target) : Edge(z, k, e) = Edge(i.source, i.kind, a)
                    BY <3>1, <1>2
                <4>2. i.source = z /\ i.kind = k /\ e \in Wholes(m, i.target)
                    BY <4>1, EdgeParts
                <4>3. i = Edge(z, k, i.target) /\ i.target \in Elements(m)
                    BY <4>2, <1>1
                <4> QED BY <4>1, <4>2, <4>3
            <3>2. ASSUME NEW d \in Elements(m), e \in Wholes(m, d), Edge(z, k, d) \in IncidenceOf(m, G)
                  PROVE Edge(z, k, e) \in Found(m, outcome)
                BY <3>2, <1>2, EdgeParts
            <3> QED BY <3>1, <3>2
        <2>2. \A d \in Elements(m) : Edge(z, k, d) \in IncidenceOf(m, G) <=> k \in Own(m, outcome, z, d)
            <3>1. \A d : Edge(z, k, d) \in IncidenceOf(m, G) <=> Edge(z, k, d) \in G
                BY EdgeParts DEF IncidenceOf, Incidences
            <3> QED BY <3>1, GeometricIsOwn
        <2>3. k \in OfParts(m, outcome, z, e) <=> \E d \in Elements(m) : e \in Wholes(m, d) /\ k \in Own(m, outcome, z, d)
            BY DEF OfParts
        <2> QED BY <2>1, <2>2, <2>3
    <1> QED BY <1>4, <1>5

(* The parts are heard where the element itself has nothing to say.         *)
LEMMA EnrichedIsEvidence ==
    ASSUME NEW m, IsModel(m), NEW outcome, NEW z \in ZoneLike(m), NEW e \in Elements(m), NEW k \in Incidences
    PROVE  Edge(z, k, e) \in Enriched(m, outcome) <=> k \in Evidence(m, outcome, z, e)
    <1> DEFINE own == Own(m, outcome, z, e)
               parts == OfParts(m, outcome, z, e)
               edge(l) == Edge(z, l, e)
    <1>1. \A l \in Incidences : Opposite(l) \in Incidences /\ l # Opposite(l) /\ Incidences = {l, Opposite(l)}
        BY DEF Opposite, Incidences
    <1>2. \A l \in Incidences : edge(l) \in Geometric(m, outcome) <=> l \in own
        BY GeometricIsOwn
    <1>3. \A l \in Incidences : edge(l) \in Found(m, outcome) <=> l \in parts
        BY FoundIsOfParts
    <1>4. edge(k) \in Strongest(Found(m, outcome)) <=> k \in parts /\ (k = "intersectingElement" \/ "intersectingElement" \notin parts)
        <2>1. edge(k).source = z /\ edge(k).kind = k /\ edge(k).target = e /\ "intersectingElement" \in Incidences
            BY EdgeParts DEF Incidences
        <2>2. edge(k) \in Strongest(Found(m, outcome)) <=>
                /\ edge(k) \in Found(m, outcome)
                /\ edge(k).kind = "intersectingElement" \/ Edge(edge(k).source, "intersectingElement", edge(k).target) \notin Found(m, outcome)
            BY DEF Strongest
        <2> HIDE DEF edge, parts
        <2>3. Edge(edge(k).source, "intersectingElement", edge(k).target) = edge("intersectingElement")
            BY <2>1 DEF edge
        <2> QED BY <2>1, <2>2, <2>3, <1>3
    <1>5. edge(k) \in Enriched(m, outcome) <=>
            \/ k \in own
            \/ edge(k) \in Strongest(Found(m, outcome)) /\ Opposite(k) \notin own
        <2>1. edge(k) \in Gated(Geometric(m, outcome), Strongest(Found(m, outcome))) <=>
                edge(k) \in Strongest(Found(m, outcome)) /\ edge(Opposite(k)) \notin Geometric(m, outcome)
            BY EdgeParts DEF Gated
        <2>2. Enriched(m, outcome) = Geometric(m, outcome) \cup Gated(Geometric(m, outcome), Strongest(Found(m, outcome)))
            BY DEF Enriched, Found
        <2> HIDE DEF edge, own
        <2> QED BY <2>1, <2>2, <1>1, <1>2
    <1>6. own \subseteq Incidences /\ \A l \in own : own = {l}
        BY DEF Own, EdgeKind, Incidences
    <1>7. parts \subseteq Incidences
        BY DEF OfParts, Own, EdgeKind, Incidences
    <1>8. Evidence(m, outcome, z, e) =
            IF own # {} THEN own ELSE IF "intersectingElement" \in parts THEN {"intersectingElement"} ELSE parts
        BY DEF Evidence, OfParts
    <1> HIDE DEF own, parts, edge
    <1>9. edge(k) \in Enriched(m, outcome) <=> k \in Evidence(m, outcome, z, e)
        BY <1>1, <1>4, <1>5, <1>6, <1>7, <1>8 DEF Incidences
    <1> QED BY <1>9 DEF edge

LEMMA EnrichedEnds ==
    ASSUME NEW m, IsModel(m), NEW outcome, NEW x \in Enriched(m, outcome), x.kind \in Incidences
    PROVE  x = Edge(x.source, x.kind, x.target) /\ x.source \in Ids(m) /\ x.target \in Ids(m)
    <1>1. x \in Geometric(m, outcome) \/ x \in Found(m, outcome)
        BY DEF Enriched, Found, Gated, Strongest
    <1> QED BY <1>1, GeometricEdges, FoundIsOfParts, Kinds

(* ----- triples ---------------------------------------------------------- *)
LEMMA TripleIsEdge ==
    ASSUME NEW m, IsModel(m), NEW outcome, NEW z \in ZoneLike(m), NEW e \in Elements(m), NEW k \in Incidences
    PROVE  <<k, Object(m, z), Object(m, e)>> \in ExtendedBot(m, outcome) <=> Edge(z, k, e) \in Enriched(m, outcome)
    <1> DEFINE t == <<k, Object(m, z), Object(m, e)>>
    <1>1. \A l, S : \A x \in Said(m, l, S) : x[1] = l
        BY DEF Said
    <1>2. t \notin Core(m)
        <2>1. t[1] = k /\ k \notin {"a", "hasBuilding", "hasStorey", "hasSpace", "containsElement"}
            BY DEF Incidences
        <2>2. \A x \in Hierarchy(m) : x[1] \in {"hasBuilding", "hasStorey", "hasSpace"}
            BY DEF Hierarchy, HasKind, Narrow
        <2> HIDE DEF t
        <2> QED BY <2>1, <2>2, <1>1 DEF Core, Type
    <1>3. t \notin InterfaceTriples(m, Interfaces(m, outcome))
        BY DEF InterfaceTriples, Type, Incidences
    <1>4. t \in ExtendedBot(m, outcome) <=> t \in Said(m, k, Enriched(m, outcome))
        <2>1. k \in CoreKinds /\ t[1] = k
            BY DEF Incidences, CoreKinds
        <2> HIDE DEF t
        <2> QED BY <2>1, <1>1, <1>2, <1>3 DEF ExtendedBot, Bot
    <1>5. t \in Said(m, k, Enriched(m, outcome)) <=> Edge(z, k, e) \in Enriched(m, outcome)
        <2>1. ASSUME Edge(z, k, e) \in Enriched(m, outcome) PROVE t \in Said(m, k, Enriched(m, outcome))
            BY <2>1, EdgeParts DEF Said
        <2>2. ASSUME t \in Said(m, k, Enriched(m, outcome)) PROVE Edge(z, k, e) \in Enriched(m, outcome)
            <3>1. PICK x \in Enriched(m, outcome) : x.kind = k /\ t = <<k, Object(m, x.source), Object(m, x.target)>>
                BY <2>2 DEF Said
            <3>2. Object(m, x.source) = Object(m, z) /\ Object(m, x.target) = Object(m, e)
                BY <3>1
            <3>3. m.guid[x.source] = m.guid[z] /\ m.guid[x.target] = m.guid[e]
                BY <3>2 DEF Object
            <3>4. x = Edge(x.source, k, x.target) /\ x.source \in Ids(m) /\ x.target \in Ids(m) /\ z \in Ids(m) /\ e \in Ids(m)
                BY <3>1, EnrichedEnds, Kinds
            <3>5. x.source = z /\ x.target = e
                BY <3>3, <3>4 DEF IsModel
            <3> QED BY <3>1, <3>4, <3>5
        <2> QED BY <2>1, <2>2
    <1> QED BY <1>4, <1>5

(* Adjacent or intersecting, never both: for any model whose GUIDs tell its *)
(* objects apart and any outcome of geometry, the triples about a zone and  *)
(* an element are the strongest evidence there is, of the element itself or *)
(* else of its parts at any depth (enrich_topology_parallel and             *)
(* propagate_subelement_incidence, in circles of parts too).                *)
THEOREM EveryBotIsConsistent ==
    \A m, outcome : IsModel(m) => ConsistentBot(m, outcome)
    <1> SUFFICES ASSUME NEW m, NEW outcome, IsModel(m) PROVE ConsistentBot(m, outcome)
        OBVIOUS
    <1>1. ASSUME NEW z \in ZoneLike(m), NEW e \in Elements(m)
          PROVE { k \in Incidences : <<k, Object(m, z), Object(m, e)>> \in ExtendedBot(m, outcome) } = Evidence(m, outcome, z, e)
        <2>1. Evidence(m, outcome, z, e) \subseteq Incidences
            BY DEF Evidence, Own, EdgeKind, Incidences
        <2>2. \A k \in Incidences : <<k, Object(m, z), Object(m, e)>> \in ExtendedBot(m, outcome) <=> k \in Evidence(m, outcome, z, e)
            BY TripleIsEdge, EnrichedIsEvidence
        <2> QED BY <2>1, <2>2
    <1> QED BY <1>1 DEF ConsistentBot, Incidences

(* The modular path and emit_lbd say the same, and emit_lbd as the hosts    *)
(* call it, without a topology, loses no containment, for any such model. *)
THEOREM AllPathsAgree ==
    \A m : IsModel(m) => AgreeingPaths(m)
    <1> SUFFICES ASSUME NEW m, IsModel(m) PROVE AgreeingPaths(m)
        OBVIOUS
    <1>1. Lbd(m) = BasicBot(m)
        <2>1. DirectSubElements(m) = Said(m, "hasSubElement", Semantic(m))
            BY DEF DirectSubElements, Said, Semantic
        <2>2. InterfaceTriples(m, {}) = {}
            BY DEF InterfaceTriples
        <2>3. CoreKinds = (CoreKinds \ {"hasSubElement"}) \cup {"hasSubElement"}
            BY DEF CoreKinds
        <2>4. UNION { Said(m, kind, Semantic(m)) : kind \in CoreKinds } =
                 Said(m, "hasSubElement", Semantic(m))
                 \cup UNION { Said(m, kind, Semantic(m)) : kind \in CoreKinds \ {"hasSubElement"} }
            BY <2>3
        <2> QED BY <2>1, <2>2, <2>4 DEF Lbd, BasicBot, Bot
    <1>2. Said(m, "containsElement", Semantic(m)) \subseteq Fallback(m)
        <2> SUFFICES ASSUME NEW x \in Semantic(m), x.kind = "containsElement"
                     PROVE <<"containsElement", Object(m, x.source), Object(m, x.target)>> \in Fallback(m)
            BY DEF Said
        <2>1. x \in Contained(m)
            BY SemanticEdges
        <2>2. PICK e \in Elements(m) : e \in DOMAIN m.containedIn /\ m.containedIn[e] \in SpatialNodes(m) /\ x.source = m.containedIn[e] /\ x.target = e
            BY <2>1, EdgeParts DEF Contained
        <2> DEFINE c == <<e, m.containedIn[e]>>
        <2>3. c \in Known(m) /\ c[1] = e /\ c[2] = m.containedIn[e]
            BY <2>2 DEF Known, IsModel
        <2>4. e \in Closure(m, e)
            <3>1. \A R : e \in Reached(R, {e}, Cardinality(Ids(m)))
                <4> SUFFICES ASSUME NEW R PROVE e \in Reached(R, {e}, Cardinality(Ids(m)))
                    OBVIOUS
                <4>1. Cardinality(Ids(m)) \in Nat
                    BY FS_CardinalityType DEF IsModel
                <4> QED BY <4>1, ReachedKeeps
            <3> QED BY <3>1 DEF Closure
        <2> QED BY <2>2, <2>3, <2>4 DEF Fallback
    <1> QED BY <1>1, <1>2 DEF AgreeingPaths

------------------------------------------------------------------------------
(* The model of a file                                                      *)
LEMMA FileFacts ==
    ASSUME NEW file, IsFile(file)
    PROVE  /\ Len(file) \in Nat /\ DOMAIN file = 1..Len(file)
           /\ \A i \in 1..Len(file) : file[i] \in Range(file)
           /\ \A e \in Range(file) : \E i \in 1..Len(file) : e = file[i]
           /\ \A e, d \in Range(file) : e.id = d.id => e = d
           /\ \A e \in Range(file) : Entity(file, e.id) = e
           /\ IsFiniteSet(Range(file))
    <1>1. Len(file) \in Nat /\ DOMAIN file = 1..Len(file)
        BY LenProperties DEF IsFile
    <1>2. \A i \in 1..Len(file) : file[i] \in Range(file)
        BY <1>1 DEF Range
    <1>3. \A e \in Range(file) : \E i \in 1..Len(file) : e = file[i]
        BY <1>1 DEF Range
    <1>4. \A e, d \in Range(file) : e.id = d.id => e = d
        BY <1>1, <1>3 DEF IsFile
    <1>5. \A e \in Range(file) : Entity(file, e.id) = e
        BY <1>4 DEF Entity
    <1>6. IsFiniteSet(Range(file))
        <2>1. [ i \in 1..Len(file) |-> file[i] ] \in Surjection(1..Len(file), Range(file))
            BY <1>2, <1>3 DEF Surjection
        <2>2. IsFiniteSet(1..Len(file))
            BY <1>1, FS_Interval
        <2> QED BY <2>1, <2>2, FS_Surjection
    <1> QED BY <1>1, <1>2, <1>3, <1>4, <1>5, <1>6

(* The relations are taken one after the other.                                 *)
AttachedRun(file, of, f) ==
    /\ f[0] = OwnSets(file, of)
    /\ \A i \in 1..Len(file) : f[i] = IF file[i] \in Parsed(file, "definesType") THEN Inherit(file, of, f[i - 1], file[i]) ELSE f[i - 1]

LEMMA AttachedStep ==
    ASSUME NEW file, NEW of, IsFile(file)
    PROVE  \E out : AttachedRun(file, of, out) /\ Attached(file, of) = out[Len(file)]
    <1> DEFINE base == OwnSets(file, of)
    <1> DEFINE more(v, i) == IF file[i] \in Parsed(file, "definesType") THEN Inherit(file, of, v, file[i]) ELSE v
    <1> DEFINE N == Len(file)
    <1> DEFINE Rule(f) == [ i \in 0..N |-> IF i = 0 THEN base ELSE more(f[i - 1], i) ]
    <1> DEFINE RunUpTo(n, f) == /\ f = [ i \in 0..n |-> f[i] ]
                             /\ f[0] = base
                             /\ \A i \in 1..n : f[i] = more(f[i - 1], i)
    <1> DEFINE out == CHOOSE g : g = Rule(g)
    <1>0. N \in Nat
        BY FileFacts
    <1>1. Attached(file, of) = out[N]
        BY DEF Attached
    <1>2. \A v, i : more(v, i) = IF file[i] \in Parsed(file, "definesType") THEN Inherit(file, of, v, file[i]) ELSE v
        OBVIOUS
    <1>3. base = OwnSets(file, of)
        OBVIOUS
    <1> HIDE DEF more, base, N
    <1>4. \E g : RunUpTo(N, g)
        <2> DEFINE T == { n \in Nat : \E g : RunUpTo(n, g) }
        <2>1. 0 \in T
            <3>1. RunUpTo(0, [ i \in 0..0 |-> base ])
                OBVIOUS
            <3> QED BY <3>1
        <2>2. ASSUME NEW n \in Nat, n \in T PROVE n + 1 \in T
            <3>1. PICK f : RunUpTo(n, f)
                BY <2>2
            <3> DEFINE g == [ i \in 0..(n + 1) |-> IF i = n + 1 THEN more(f[n], n + 1) ELSE f[i] ]
            <3>2. g[0] = base
                BY <3>1
            <3>3. ASSUME NEW i \in 1..(n + 1) PROVE g[i] = more(g[i - 1], i)
                <4>1. CASE i = n + 1
                    <5>1. i \in 0..(n + 1) /\ i - 1 \in 0..(n + 1) /\ i - 1 = n /\ n # n + 1
                        BY <4>1
                    <5>2. g[i] = more(f[n], n + 1) /\ g[i - 1] = f[n]
                        BY <5>1, <4>1
                    <5> QED BY <5>2, <4>1
                <4>2. CASE i # n + 1
                    <5>1. i \in 1..n /\ i - 1 \in 0..(n + 1) /\ i - 1 # n + 1
                        BY <4>2
                    <5>2. g[i] = f[i] /\ g[i - 1] = f[i - 1]
                        BY <5>1, <4>2
                    <5>3. f[i] = more(f[i - 1], i)
                        BY <5>1, <3>1
                    <5> QED BY <5>2, <5>3
                <4> QED BY <4>1, <4>2
            <3>4. g = [ i \in 0..(n + 1) |-> g[i] ]
                OBVIOUS
            <3> HIDE DEF g
            <3>5. RunUpTo(n + 1, g)
                BY <3>2, <3>3, <3>4
            <3> HIDE DEF RunUpTo
            <3>6. \E h : RunUpTo(n + 1, h)
                BY <3>5
            <3> QED BY <3>6
        <2> HIDE DEF T
        <2>3. Nat \subseteq T
            BY <2>1, <2>2, Induction
        <2> QED BY <2>3, <1>0 DEF T
    <1>5. PICK g : RunUpTo(N, g)
        BY <1>4
    <1>6. g = Rule(g)
        <2>1. \A i \in 0..N : g[i] = Rule(g)[i]
            <3> TAKE i \in 0..N
            <3>1. i = 0 \/ i \in 1..N
                BY <1>0
            <3>2. Rule(g)[i] = IF i = 0 THEN base ELSE more(g[i - 1], i)
                OBVIOUS
            <3> HIDE DEF Rule
            <3> QED BY <3>1, <3>2, <1>5
        <2>2. g = [ i \in 0..N |-> g[i] ]
            BY <1>5
        <2> QED BY <2>1, <2>2
    <1>7. out = Rule(out)
        BY <1>6
    <1>8. out[0] = base /\ \A i \in 1..N : out[i] = more(out[i - 1], i)
        <2> HIDE DEF out
        <2>1. \A i \in 0..N : Rule(out)[i] = IF i = 0 THEN base ELSE more(out[i - 1], i)
            OBVIOUS
        <2> HIDE DEF Rule
        <2>2. \A i \in 0..N : out[i] = IF i = 0 THEN base ELSE more(out[i - 1], i)
            BY <2>1, <1>7
        <2>3. 0 \in 0..N /\ \A i \in 1..N : i \in 0..N /\ i # 0
            BY <1>0
        <2> QED BY <2>2, <2>3
    <1> HIDE DEF out
    <1>9. AttachedRun(file, of, out)
        BY <1>2, <1>3, <1>8 DEF N, AttachedRun
    <1>10. Attached(file, of) = out[Len(file)]
        BY <1>1 DEF N
    <1> QED BY <1>9, <1>10

(* ... and so are the partial models.                                           *)
ContainedInRun(file, f) ==
    /\ f[0] = [ k \in {} |-> 0 ]
    /\ \A i \in 1..Len(file) : f[i] = IF file[i] \in Parsed(file, "contained") THEN LaterWins(f[i - 1], [ e \in Range(file[i].refs) |-> file[i].to ]) ELSE f[i - 1]

LEMMA ContainedStep ==
    ASSUME NEW file, IsFile(file)
    PROVE  \E out : ContainedInRun(file, out) /\ ContainedIn(file) = out[Len(file)]
    <1> DEFINE base == [ k \in {} |-> 0 ]
    <1> DEFINE more(v, i) == IF file[i] \in Parsed(file, "contained") THEN LaterWins(v, [ e \in Range(file[i].refs) |-> file[i].to ]) ELSE v
    <1> DEFINE N == Len(file)
    <1> DEFINE Rule(f) == [ i \in 0..N |-> IF i = 0 THEN base ELSE more(f[i - 1], i) ]
    <1> DEFINE RunUpTo(n, f) == /\ f = [ i \in 0..n |-> f[i] ]
                             /\ f[0] = base
                             /\ \A i \in 1..n : f[i] = more(f[i - 1], i)
    <1> DEFINE out == CHOOSE g : g = Rule(g)
    <1>0. N \in Nat
        BY FileFacts
    <1>1. ContainedIn(file) = out[N]
        BY DEF ContainedIn
    <1>2. \A v, i : more(v, i) = IF file[i] \in Parsed(file, "contained") THEN LaterWins(v, [ e \in Range(file[i].refs) |-> file[i].to ]) ELSE v
        OBVIOUS
    <1>3. base = [ k \in {} |-> 0 ]
        OBVIOUS
    <1> HIDE DEF more, base, N
    <1>4. \E g : RunUpTo(N, g)
        <2> DEFINE T == { n \in Nat : \E g : RunUpTo(n, g) }
        <2>1. 0 \in T
            <3>1. RunUpTo(0, [ i \in 0..0 |-> base ])
                OBVIOUS
            <3> QED BY <3>1
        <2>2. ASSUME NEW n \in Nat, n \in T PROVE n + 1 \in T
            <3>1. PICK f : RunUpTo(n, f)
                BY <2>2
            <3> DEFINE g == [ i \in 0..(n + 1) |-> IF i = n + 1 THEN more(f[n], n + 1) ELSE f[i] ]
            <3>2. g[0] = base
                BY <3>1
            <3>3. ASSUME NEW i \in 1..(n + 1) PROVE g[i] = more(g[i - 1], i)
                <4>1. CASE i = n + 1
                    <5>1. i \in 0..(n + 1) /\ i - 1 \in 0..(n + 1) /\ i - 1 = n /\ n # n + 1
                        BY <4>1
                    <5>2. g[i] = more(f[n], n + 1) /\ g[i - 1] = f[n]
                        BY <5>1, <4>1
                    <5> QED BY <5>2, <4>1
                <4>2. CASE i # n + 1
                    <5>1. i \in 1..n /\ i - 1 \in 0..(n + 1) /\ i - 1 # n + 1
                        BY <4>2
                    <5>2. g[i] = f[i] /\ g[i - 1] = f[i - 1]
                        BY <5>1, <4>2
                    <5>3. f[i] = more(f[i - 1], i)
                        BY <5>1, <3>1
                    <5> QED BY <5>2, <5>3
                <4> QED BY <4>1, <4>2
            <3>4. g = [ i \in 0..(n + 1) |-> g[i] ]
                OBVIOUS
            <3> HIDE DEF g
            <3>5. RunUpTo(n + 1, g)
                BY <3>2, <3>3, <3>4
            <3> HIDE DEF RunUpTo
            <3>6. \E h : RunUpTo(n + 1, h)
                BY <3>5
            <3> QED BY <3>6
        <2> HIDE DEF T
        <2>3. Nat \subseteq T
            BY <2>1, <2>2, Induction
        <2> QED BY <2>3, <1>0 DEF T
    <1>5. PICK g : RunUpTo(N, g)
        BY <1>4
    <1>6. g = Rule(g)
        <2>1. \A i \in 0..N : g[i] = Rule(g)[i]
            <3> TAKE i \in 0..N
            <3>1. i = 0 \/ i \in 1..N
                BY <1>0
            <3>2. Rule(g)[i] = IF i = 0 THEN base ELSE more(g[i - 1], i)
                OBVIOUS
            <3> HIDE DEF Rule
            <3> QED BY <3>1, <3>2, <1>5
        <2>2. g = [ i \in 0..N |-> g[i] ]
            BY <1>5
        <2> QED BY <2>1, <2>2
    <1>7. out = Rule(out)
        BY <1>6
    <1>8. out[0] = base /\ \A i \in 1..N : out[i] = more(out[i - 1], i)
        <2> HIDE DEF out
        <2>1. \A i \in 0..N : Rule(out)[i] = IF i = 0 THEN base ELSE more(out[i - 1], i)
            OBVIOUS
        <2> HIDE DEF Rule
        <2>2. \A i \in 0..N : out[i] = IF i = 0 THEN base ELSE more(out[i - 1], i)
            BY <2>1, <1>7
        <2>3. 0 \in 0..N /\ \A i \in 1..N : i \in 0..N /\ i # 0
            BY <1>0
        <2> QED BY <2>2, <2>3
    <1> HIDE DEF out
    <1>9. ContainedInRun(file, out)
        BY <1>2, <1>3, <1>8 DEF N, ContainedInRun
    <1>10. ContainedIn(file) = out[Len(file)]
        BY <1>1 DEF N
    <1> QED BY <1>9, <1>10


(* The sets of an object after the type relation r, if r is the one it has.     *)
Defaults(file, of, own, r) ==
    { s \in TypeSets(file, r.to) \cap IdsOf(file, of) : Entity(file, s).name \notin NamesOf(file, own) }

LEMMA InheritStep ==
    ASSUME NEW file, NEW of, NEW attached, NEW r, NEW o
    PROVE  SetsOf(Inherit(file, of, attached, r), o) =
               SetsOf(attached, o)
               \cup (IF o \in Range(r.refs) THEN Defaults(file, of, SetsOf(attached, o), r) ELSE {})
    BY DEF Inherit, SetsOf, Defaults

(* With at most one type relation, an object has its own sets and those of the  *)
(* type that they do not shadow.                                                *)
LEMMA AttachedSets ==
    ASSUME NEW file, NEW of, NEW o, IsFile(file), Cardinality(TypesOf(file, o)) <= 1
    PROVE  LET own == SetsOf(OwnSets(file, of), o)
           IN  /\ TypesOf(file, o) = {} => SetsOf(Attached(file, of), o) = own
               /\ \A r \in TypesOf(file, o) : /\ TypesOf(file, o) = {r}
                                              /\ SetsOf(Attached(file, of), o) = own \cup Defaults(file, of, own, r)
    <1> DEFINE N == Len(file)
    <1> DEFINE own == SetsOf(OwnSets(file, of), o)
    <1>0. N \in Nat
        BY FileFacts
    <1>p. PICK f : AttachedRun(file, of, f) /\ Attached(file, of) = f[N]
        BY AttachedStep
    <1>1. /\ f[0] = OwnSets(file, of)
          /\ \A i \in 1..N : f[i] = IF file[i] \in Parsed(file, "definesType") THEN Inherit(file, of, f[i - 1], file[i]) ELSE f[i - 1]
          /\ Attached(file, of) = f[N]
        BY <1>p DEF AttachedRun
    <1> HIDE DEF N
    <1>2. \A r \in TypesOf(file, o) : TypesOf(file, o) = {r}
        <2>1. IsFiniteSet(TypesOf(file, o))
            BY FileFacts, FS_Subset DEF TypesOf, Parsed
        <2>2. Cardinality(TypesOf(file, o)) \in Nat
            BY <2>1, FS_CardinalityType
        <2>3. Cardinality(TypesOf(file, o)) = 0 \/ Cardinality(TypesOf(file, o)) = 1
            BY <2>2
        <2>4. CASE Cardinality(TypesOf(file, o)) = 0
            BY <2>1, <2>4, FS_EmptySet
        <2>5. CASE Cardinality(TypesOf(file, o)) = 1
            BY <2>1, <2>5, FS_Singleton
        <2> QED BY <2>3, <2>4, <2>5
    <1>3. ASSUME NEW i \in 1..N, file[i] \notin TypesOf(file, o)
          PROVE  SetsOf(f[i], o) = SetsOf(f[i - 1], o)
        <2>1. CASE file[i] \in Parsed(file, "definesType")
            <3>1. f[i] = Inherit(file, of, f[i - 1], file[i])
                BY <2>1, <1>1
            <3>2. o \notin Range(file[i].refs)
                BY <2>1, <1>3 DEF TypesOf
            <3>3. SetsOf(f[i], o) = SetsOf(f[i - 1], o) \cup (IF o \in Range(file[i].refs) THEN Defaults(file, of, SetsOf(f[i - 1], o), file[i]) ELSE {})
                BY <3>1, InheritStep
            <3> QED BY <3>2, <3>3
        <2>2. CASE file[i] \notin Parsed(file, "definesType")
            BY <2>2, <1>1
        <2> QED BY <2>1, <2>2
    <1>4. ASSUME NEW i \in 1..N, file[i] \in TypesOf(file, o)
          PROVE  SetsOf(f[i], o) = SetsOf(f[i - 1], o) \cup Defaults(file, of, SetsOf(f[i - 1], o), file[i])
        <2>1. file[i] \in Parsed(file, "definesType") /\ o \in Range(file[i].refs)
            BY <1>4 DEF TypesOf
        <2>2. f[i] = Inherit(file, of, f[i - 1], file[i])
            BY <2>1, <1>1
        <2> QED BY <2>1, <2>2, InheritStep
    <1> DEFINE Sound(i) == /\ (\A j \in 1..i : file[j] \notin TypesOf(file, o)) => SetsOf(f[i], o) = own
                           /\ \A j \in 1..i : file[j] \in TypesOf(file, o) => SetsOf(f[i], o) = own \cup Defaults(file, of, own, file[j])
    <1>5. \A i \in 0..N : Sound(i)
        <2> DEFINE T == { i \in Nat : i <= N => Sound(i) }
        <2>1. 0 \in T
            BY <1>1
        <2>2. ASSUME NEW i \in Nat, i \in T PROVE i + 1 \in T
            <3> SUFFICES ASSUME i + 1 <= N PROVE Sound(i + 1)
                OBVIOUS
            <3>0. i + 1 \in 1..N /\ (i + 1) - 1 = i /\ i <= N
                BY <1>0
            <3>1. Sound(i)
                BY <2>2, <3>0
            <3> HIDE DEF own
            <3>2. CASE file[i + 1] \notin TypesOf(file, o)
                <4>1. SetsOf(f[i + 1], o) = SetsOf(f[i], o)
                    BY <3>0, <3>2, <1>3
                <4>2. \A j \in 1..(i + 1) : j \in 1..i \/ j = i + 1
                    OBVIOUS
                <4>3. \A j \in 1..i : j \in 1..(i + 1)
                    OBVIOUS
                <4> QED BY <4>1, <4>2, <4>3, <3>1, <3>2
            <3>3. CASE file[i + 1] \in TypesOf(file, o)
                <4>1. ASSUME NEW j \in 1..i PROVE file[j] \notin TypesOf(file, o)
                    <5>1. j \in 1..N /\ j # i + 1
                        BY <3>0, <1>0
                    <5>2. file[j].id # file[i + 1].id
                        BY <5>1, <3>0, FileFacts DEF IsFile, N
                    <5> QED BY <5>2, <3>3, <1>2
                <4>2. SetsOf(f[i], o) = own
                    BY <4>1, <3>1
                <4>3. SetsOf(f[i + 1], o) = own \cup Defaults(file, of, own, file[i + 1])
                    BY <4>2, <3>0, <3>3, <1>4
                <4>4. \A j \in 1..(i + 1) : file[j] \in TypesOf(file, o) => j = i + 1
                    BY <4>1
                <4>5. i + 1 \in 1..(i + 1)
                    OBVIOUS
                <4> QED BY <4>3, <4>4, <4>5, <3>3
            <3> QED BY <3>2, <3>3
        <2> HIDE DEF T
        <2>3. Nat \subseteq T
            BY <2>1, <2>2, Induction
        <2> QED BY <2>3, <1>0 DEF T
    <1>6. Sound(N)
        BY <1>5, <1>0
    <1>7. \A r \in TypesOf(file, o) : \E j \in 1..N : r = file[j]
        BY FileFacts DEF TypesOf, Parsed, N
    <1>8. ASSUME TypesOf(file, o) = {} PROVE SetsOf(f[N], o) = own
        BY <1>6, <1>8
    <1>9. ASSUME NEW r \in TypesOf(file, o) PROVE SetsOf(f[N], o) = own \cup Defaults(file, of, own, r)
        <2>1. PICK j \in 1..N : r = file[j]
            BY <1>7
        <2> QED BY <2>1, <1>6, <1>9
    <1> HIDE DEF Sound, own
    <1>10. Attached(file, of) = f[N]
        BY <1>1
    <1> QED BY <1>2, <1>8, <1>9, <1>10 DEF own

LEMMA DefaultsAreExpected ==
    ASSUME NEW file, NEW of \in {"pset", "qset"}, NEW o, IsFile(file), NEW r, TypesOf(file, o) = {r}
    PROVE  LET own == SetsOf(OwnSets(file, of), o)
           IN  Expected(file, of, o) = own \cup Defaults(file, of, own, r)
    <1> DEFINE own == SetsOf(OwnSets(file, of), o)
    <1> DEFINE defaults == { e \in Range(file) : e.kind = of /\ e.guid # "" /\ \E x \in Range(file) : x.id = r.to /\ e.id \in Range(x.refs) }
    <1> DEFINE free(e) == e.name = "" \/ \A s \in own : Entity(file, s).name # e.name
    <1>1. Expected(file, of, o) = own \cup { e.id : e \in { d \in defaults : free(d) } }
        BY DEF Expected
    <1>2. \A e \in Range(file) : e.kind = of => (Kept(e) <=> e.guid # "")
        BY DEF Kept
    <1>3. \A s : s \in IdsOf(file, of) <=> \E e \in Range(file) : e.kind = of /\ e.guid # "" /\ s = e.id
        BY <1>2 DEF IdsOf, Parsed
    <1>4. \A s : s \in TypeSets(file, r.to) \cap IdsOf(file, of) <=> \E e \in defaults : s = e.id
        <2> TAKE s
        <2>1. ASSUME s \in TypeSets(file, r.to) \cap IdsOf(file, of) PROVE \E e \in defaults : s = e.id
            <3>1. PICK e \in Range(file) : e.kind = of /\ e.guid # "" /\ s = e.id
                BY <2>1, <1>3
            <3>2. PICK x \in Range(file) : x.id = r.to
                BY <2>1 DEF TypeSets
            <3>3. s \in Range(Entity(file, r.to).refs)
                BY <2>1 DEF TypeSets
            <3>4. Entity(file, r.to) = x
                BY <3>2, FileFacts
            <3> QED BY <3>1, <3>2, <3>3, <3>4
        <2>2. ASSUME NEW e \in defaults, s = e.id PROVE s \in TypeSets(file, r.to) \cap IdsOf(file, of)
            <3>1. PICK x \in Range(file) : x.id = r.to /\ e.id \in Range(x.refs)
                OBVIOUS
            <3>2. Entity(file, r.to) = x
                BY <3>1, FileFacts
            <3>3. s \in IdsOf(file, of)
                BY <2>2, <1>3
            <3>4. IdsOf(file, of) \subseteq IdsOf(file, "pset") \cup IdsOf(file, "qset")
                OBVIOUS
            <3> QED BY <3>1, <3>2, <3>3, <3>4, <2>2 DEF TypeSets
        <2> QED BY <2>1, <2>2
    <1>5. \A e \in defaults : Entity(file, e.id) = e
        BY FileFacts
    <1>6. \A e : free(e) <=> e.name \notin NamesOf(file, own)
        BY DEF NamesOf
    <1> HIDE DEF own, defaults, free
    <1>7. Defaults(file, of, own, r) = { e.id : e \in { d \in defaults : free(d) } }
        BY <1>4, <1>5, <1>6 DEF Defaults
    <1> QED BY <1>1, <1>7 DEF own

LEMMA NoTypeNoDefaults ==
    ASSUME NEW file, NEW of, NEW o, TypesOf(file, o) = {}
    PROVE  Expected(file, of, o) = SetsOf(OwnSets(file, of), o)
    BY DEF Expected

(* Every container an element ends up with is one that claims it.               *)
LEMMA ContainersClaim ==
    ASSUME NEW file, IsFile(file), NEW e, NEW r \in Parsed(file, "contained"), e \in Range(r.refs)
    PROVE  \E q \in Parsed(file, "contained") : e \in Range(q.refs) /\ q.to = ContainedIn(file)[e]
    <1> DEFINE N == Len(file)
    <1> DEFINE P == Parsed(file, "contained")
    <1> DEFINE to(i) == [ k \in Range(file[i].refs) |-> file[i].to ]
    <1>0. N \in Nat
        BY FileFacts
    <1>p. PICK f : ContainedInRun(file, f) /\ ContainedIn(file) = f[N]
        BY ContainedStep
    <1>1. /\ f[0] = [ k \in {} |-> 0 ]
          /\ \A i \in 1..N : f[i] = IF file[i] \in P THEN LaterWins(f[i - 1], to(i)) ELSE f[i - 1]
          /\ ContainedIn(file) = f[N]
        BY <1>p DEF ContainedInRun
    <1>2. PICK last \in 1..N : file[last] = r
        BY FileFacts DEF Parsed
    <1> DEFINE Claimed(i) == e \in DOMAIN f[i] => \E q \in P : e \in Range(q.refs) /\ q.to = f[i][e]
    <1>3. ASSUME NEW i \in 1..N, file[i] \in P
          PROVE  /\ DOMAIN f[i] = DOMAIN f[i - 1] \cup Range(file[i].refs)
                 /\ e \in Range(file[i].refs) => f[i][e] = file[i].to
                 /\ e \in DOMAIN f[i - 1] /\ e \notin Range(file[i].refs) => f[i][e] = f[i - 1][e]
        <2>1. f[i] = LaterWins(f[i - 1], to(i))
            BY <1>1, <1>3
        <2>2. DOMAIN to(i) = Range(file[i].refs) /\ \A k \in Range(file[i].refs) : to(i)[k] = file[i].to
            OBVIOUS
        <2> HIDE DEF to
        <2> QED BY <2>1, <2>2 DEF LaterWins
    <1>4. ASSUME NEW i \in 1..N, file[i] \notin P PROVE f[i] = f[i - 1]
        BY <1>1, <1>4
    <1> HIDE DEF N, P, to
    <1> DEFINE T == { i \in Nat : i <= N => Claimed(i) /\ (last <= i => e \in DOMAIN f[i]) }
    <1>5. 0 \in T
        BY <1>1, <1>2
    <1>6. ASSUME NEW i \in Nat, i \in T PROVE i + 1 \in T
        <2> SUFFICES ASSUME i + 1 <= N PROVE Claimed(i + 1) /\ (last <= i + 1 => e \in DOMAIN f[i + 1])
            OBVIOUS
        <2>0. i + 1 \in 1..N /\ (i + 1) - 1 = i /\ i <= N /\ (last <= i + 1 => last <= i \/ last = i + 1)
            BY <1>0
        <2>1. Claimed(i) /\ (last <= i => e \in DOMAIN f[i])
            BY <1>6, <2>0
        <2>2. CASE file[i + 1] \notin P
            <3>1. f[i + 1] = f[i]
                BY <2>0, <2>2, <1>4
            <3>2. last # i + 1
                BY <2>2, <1>2 DEF P
            <3> QED BY <3>1, <3>2, <2>0, <2>1
        <2>3. CASE file[i + 1] \in P
            <3>1. /\ DOMAIN f[i + 1] = DOMAIN f[i] \cup Range(file[i + 1].refs)
                  /\ e \in Range(file[i + 1].refs) => f[i + 1][e] = file[i + 1].to
                  /\ e \in DOMAIN f[i] /\ e \notin Range(file[i + 1].refs) => f[i + 1][e] = f[i][e]
                BY <2>0, <2>3, <1>3
            <3>2. last = i + 1 => e \in Range(file[i + 1].refs)
                BY <1>2
            <3> QED BY <3>1, <3>2, <2>0, <2>1, <2>3
        <2> QED BY <2>2, <2>3
    <1> HIDE DEF T
    <1>7. Nat \subseteq T
        BY <1>5, <1>6, Induction
    <1>8. e \in DOMAIN f[N] /\ Claimed(N)
        BY <1>7, <1>0, <1>2 DEF T
    <1> QED BY <1>8, <1>1 DEF P

(* Defaults are defaults: for every file and every order of its entities an     *)
(* object of one type has its own sets and those of its type that no own set of *)
(* the same kind shadows, and is contained in a structure that claims it        *)
(* (build_model, PartialModelBuild::merge).                                     *)
THEOREM EveryObjectInherits ==
    \A file : IsFile(file) => InheritedSets(file)
    <1> SUFFICES ASSUME NEW file, IsFile(file) PROVE InheritedSets(file)
        OBVIOUS
    <1>1. ASSUME NEW of \in {"pset", "qset"}, NEW o, Cardinality(TypesOf(file, o)) <= 1
          PROVE  SetsOf(Attached(file, of), o) = Expected(file, of, o)
        <2>1. CASE TypesOf(file, o) = {}
            BY <2>1, <1>1, AttachedSets, NoTypeNoDefaults
        <2>2. CASE TypesOf(file, o) # {}
            <3>1. PICK r \in TypesOf(file, o) : TRUE
                BY <2>2
            <3>2. TypesOf(file, o) = {r}
                BY <3>1, <1>1, AttachedSets
            <3> QED BY <3>1, <3>2, <1>1, AttachedSets, DefaultsAreExpected
        <2> QED BY <2>1, <2>2
    <1>2. ASSUME NEW e, { r \in Parsed(file, "contained") : e \in Range(r.refs) } # {}
          PROVE  \E r \in Parsed(file, "contained") : e \in Range(r.refs) /\ r.to = ContainedIn(file)[e]
        <2>1. PICK r \in Parsed(file, "contained") : e \in Range(r.refs)
            BY <1>2
        <2> QED BY <2>1, ContainersClaim
    <1> QED BY <1>1, <1>2 DEF InheritedSets

------------------------------------------------------------------------------
(* The data dictionary                                                      *)
(* ----- names -------------------------------------------------------------- *)
(* A sequence, of whatever members.                                         *)
IsList(s) == \E S : s \in Seq(S)

LEMMA Lists ==
    /\ IsList(<<>>)
    /\ \A x : IsList(<<x>>)
    /\ \A s, t : IsList(s) /\ IsList(t) => IsList(s \o t)
    <1>1. IsList(<<>>)
        <2>1. << >> \in Seq({})
            OBVIOUS
        <2> QED BY <2>1 DEF IsList
    <1>2. ASSUME NEW x PROVE IsList(<<x>>)
        <2>1. <<x>> \in Seq({x})
            OBVIOUS
        <2> QED BY <2>1 DEF IsList
    <1>3. ASSUME NEW s, NEW t, IsList(s), IsList(t) PROVE IsList(s \o t)
        <2>1. PICK S, T : s \in Seq(S) /\ t \in Seq(T)
            BY <1>3 DEF IsList
        <2>2. s \in Seq(S \cup T) /\ t \in Seq(S \cup T)
            <3>1. S \subseteq S \cup T /\ T \subseteq S \cup T
                OBVIOUS
            <3> QED BY <2>1, <3>1, SeqMonotonic
        <2>3. s \o t \in Seq(S \cup T)
            BY <2>2, ConcatProperties
        <2> QED BY <2>3 DEF IsList
    <1> QED BY <1>1, <1>2, <1>3

LEMMA ListFacts ==
    ASSUME NEW s, IsList(s)
    PROVE  /\ Len(s) \in Nat /\ DOMAIN s = 1..Len(s) /\ IsFiniteSet(ToSet(s))
           /\ s \o <<>> = s /\ <<>> \o s = s
    <1>1. PICK S : s \in Seq(S)
        BY DEF IsList
    <1>2. Len(s) \in Nat /\ DOMAIN s = 1..Len(s)
        BY <1>1, LenProperties
    <1>3. IsFiniteSet(ToSet(s))
        <2>1. IsFiniteSet(DOMAIN s)
            BY <1>2, FS_Interval
        <2>2. ToSet(s) = { s[i] : i \in DOMAIN s }
            BY DEF ToSet
        <2>3. [ i \in DOMAIN s |-> s[i] ] \in Surjection(DOMAIN s, ToSet(s))
            BY <2>2 DEF Surjection
        <2> QED BY <2>1, <2>3, FS_Surjection
    <1>4. s \o <<>> = s /\ <<>> \o s = s
        BY <1>1, ConcatEmptySeq
    <1> QED BY <1>2, <1>3, <1>4

(* Of two lists one after the other the first member is that of the first   *)
(* that has one.                                                            *)
LEMMA FirstOfTwo ==
    ASSUME NEW s, NEW t, IsList(s), IsList(t)
    PROVE  /\ s = <<>> => s \o t = t
           /\ s # <<>> => s \o t # <<>> /\ Head(s \o t) = Head(s)
    <1>1. PICK S, T : s \in Seq(S) /\ t \in Seq(T)
        BY DEF IsList
    <1>2. s \in Seq(S \cup T) /\ t \in Seq(S \cup T)
        <2>1. S \subseteq S \cup T /\ T \subseteq S \cup T
            OBVIOUS
        <2> QED BY <1>1, <2>1, SeqMonotonic
    <1>3. s = <<>> => s \o t = t
        BY <1>2, ConcatEmptySeq
    <1>4. ASSUME s # <<>> PROVE s \o t # <<>> /\ Head(s \o t) = Head(s)
        <2>1. Len(s) \in Nat \ {0} /\ Len(t) \in Nat
            BY <1>2, <1>4, EmptySeq, LenProperties
        <2>2. Len(s \o t) = Len(s) + Len(t) /\ (s \o t)[1] = s[1]
            BY <1>2, <2>1, ConcatProperties
        <2>3. s \o t # <<>>
            BY <2>1, <2>2
        <2> QED BY <2>2, <2>3
    <1> QED BY <1>3, <1>4

LEMMA NormalizedIsList ==
    ASSUME NEW names, IsList(names)
    PROVE  IsList(Normalized(names))
    <1> DEFINE new(text, kept) == IF text = "" \/ text \in ToSet(kept) THEN <<>> ELSE <<text>>
    <1> DEFINE more(kept, i) == kept \o new(Norm(names[i]), kept)
    <1> DEFINE N == Len(names)
    <1> DEFINE Rule(f) == [ i \in 0..N |-> IF i = 0 THEN <<>> ELSE more(f[i - 1], i) ]
    <1> DEFINE RunUpTo(n, f) == /\ f = [ i \in 0..n |-> f[i] ]
                             /\ f[0] = <<>>
                             /\ \A i \in 1..n : f[i] = more(f[i - 1], i)
    <1> DEFINE out == CHOOSE g : g = Rule(g)
    <1>0. N \in Nat
        BY ListFacts
    <1>5. Normalized(names) = out[N]
        BY DEF Normalized
    <1>n. \A kept, i : IsList(kept) => IsList(more(kept, i))
        BY Lists
    <1> HIDE DEF more, new, N
    <1>1. \E g : RunUpTo(N, g)
        <2> DEFINE T == { n \in Nat : \E g : RunUpTo(n, g) }
        <2>1. 0 \in T
            <3>1. RunUpTo(0, [ i \in 0..0 |-> <<>> ])
                OBVIOUS
            <3> QED BY <3>1
        <2>2. ASSUME NEW n \in Nat, n \in T PROVE n + 1 \in T
            <3>1. PICK f : RunUpTo(n, f)
                BY <2>2
            <3> DEFINE g == [ i \in 0..(n + 1) |-> IF i = n + 1 THEN more(f[n], n + 1) ELSE f[i] ]
            <3>2. g[0] = <<>>
                BY <3>1
            <3>3. ASSUME NEW i \in 1..(n + 1) PROVE g[i] = more(g[i - 1], i)
                <4>1. CASE i = n + 1
                    <5>1. i \in 0..(n + 1) /\ i - 1 \in 0..(n + 1) /\ i - 1 = n /\ n # n + 1
                        BY <4>1
                    <5>2. g[i] = more(f[n], n + 1) /\ g[i - 1] = f[n]
                        BY <5>1, <4>1
                    <5> QED BY <5>2, <4>1
                <4>2. CASE i # n + 1
                    <5>1. i \in 1..n /\ i - 1 \in 0..(n + 1) /\ i - 1 # n + 1
                        BY <4>2
                    <5> QED BY <5>1, <3>1
                <4> QED BY <4>1, <4>2
            <3>4. g = [ i \in 0..(n + 1) |-> g[i] ]
                OBVIOUS
            <3> HIDE DEF g
            <3>5. RunUpTo(n + 1, g)
                BY <3>2, <3>3, <3>4
            <3> HIDE DEF RunUpTo, g
            <3>6. \E h : RunUpTo(n + 1, h)
                BY <3>5
            <3> QED BY <3>6
        <2> HIDE DEF T
        <2>3. Nat \subseteq T
            BY <2>1, <2>2, Induction
        <2> QED BY <2>3, <1>0 DEF T
    <1>2. PICK g : RunUpTo(N, g)
        BY <1>1
    <1>3. g = Rule(g)
        <2>1. \A i \in 0..N : g[i] = Rule(g)[i]
            <3> TAKE i \in 0..N
            <3>1. i = 0 \/ i \in 1..N
                BY <1>0
            <3>2. Rule(g)[i] = IF i = 0 THEN <<>> ELSE more(g[i - 1], i)
                OBVIOUS
            <3> HIDE DEF Rule
            <3> QED BY <3>1, <3>2, <1>2
        <2>2. g = [ i \in 0..N |-> g[i] ]
            BY <1>2
        <2> QED BY <2>1, <2>2
    <1>4. out = Rule(out)
        BY <1>3
    <1>6. out[0] = <<>> /\ \A i \in 1..N : out[i] = more(out[i - 1], i)
        <2> HIDE DEF out
        <2>1. \A i \in 0..N : Rule(out)[i] = IF i = 0 THEN <<>> ELSE more(out[i - 1], i)
            OBVIOUS
        <2> HIDE DEF Rule
        <2>2. \A i \in 0..N : out[i] = IF i = 0 THEN <<>> ELSE more(out[i - 1], i)
            BY <2>1, <1>4
        <2>3. 0 \in 0..N /\ \A i \in 1..N : i \in 0..N /\ i # 0
            BY <1>0
        <2> QED BY <2>2, <2>3
    <1> HIDE DEF out
    <1>7. \A i \in 0..N : IsList(out[i])
        <2> DEFINE T == { i \in Nat : i <= N => IsList(out[i]) }
        <2>1. 0 \in T
            BY <1>6, Lists
        <2>2. ASSUME NEW i \in Nat, i \in T PROVE i + 1 \in T
            <3> SUFFICES ASSUME i + 1 <= N PROVE IsList(out[i + 1])
                OBVIOUS
            <3>1. IsList(out[i])
                BY <2>2, <1>0
            <3>2. i + 1 \in 1..N /\ (i + 1) - 1 = i
                BY <1>0
            <3>3. out[i + 1] = more(out[i], i + 1)
                BY <3>2, <1>6
            <3> QED BY <3>1, <3>3, <1>n
        <2> HIDE DEF T
        <2>3. Nat \subseteq T
            BY <2>1, <2>2, Induction
        <2> QED BY <2>3, <1>0 DEF T
    <1> QED BY <1>5, <1>7, <1>0

LEMMA SurfacesAreList ==
    ASSUME NEW name, NEW strip
    PROVE  IsList(Surfaces(name, strip))
    <1>1. IsList(WithoutPrefix(name))
        BY Lists DEF WithoutPrefix
    <1>2. \A x : IsList(Segment(x))
        <2> SUFFICES ASSUME NEW x PROVE IsList(Segment(x))
            OBVIOUS
        <2>1. CASE Len(x.words) < 2
            BY <2>1, Lists DEF Segment
        <2>2. CASE ~ (Len(x.words) < 2) /\ x.sep = " "
            BY <2>2, Lists DEF Segment
        <2>3. CASE ~ (Len(x.words) < 2) /\ x.sep # " "
            BY <2>3, Lists DEF Segment
        <2> QED BY <2>1, <2>2, <2>3
    <1>3. IsList(IF WithoutPrefix(name) = <<>> THEN <<>> ELSE Segment(Without(name)))
        BY <1>2, Lists
    <1>4. IsList(IF strip THEN Segment(name) \o (IF WithoutPrefix(name) = <<>> THEN <<>> ELSE Segment(Without(name))) ELSE <<>>)
        <2>1. IsList(Segment(name) \o (IF WithoutPrefix(name) = <<>> THEN <<>> ELSE Segment(Without(name))))
            BY <1>2, <1>3, Lists
        <2> QED BY <2>1, Lists
    <1>5. IsList(<<name>> \o WithoutPrefix(name))
        BY <1>1, Lists
    <1> QED BY <1>4, <1>5, Lists DEF Surfaces

(* The spellings of a class, a set or a property are lists.                 *)
NamesAreLists(n) == IsList(n.classes) /\ IsList(n.sets) /\ IsList(n.props)

LEMMA VariantsAreList ==
    ASSUME NEW name, NEW aliases, NEW schema, NEW scoped, NEW strip
    PROVE  IsList(Variants(name, aliases, schema, scoped, strip))
    <1>1. \A f, key : IsList(Spelled(f, key, strip))
        BY Lists, SurfacesAreList DEF Spelled
    <1> DEFINE alias(key) == Spelled(aliases, key, strip) \o Spelled(scoped, key, strip) \o Spelled(schema, key, strip)
    <1>2. \A key : IsList(alias(key))
        <2> SUFFICES ASSUME NEW key PROVE IsList(alias(key))
            OBVIOUS
        <2>1. IsList(Spelled(aliases, key, strip) \o Spelled(scoped, key, strip))
            BY <1>1, Lists
        <2> QED BY <2>1, <1>1, Lists
    <1>3. Variants(name, aliases, schema, scoped, strip) = Normalized(alias(Norm(name)) \o Surfaces(name, strip))
        BY DEF Variants
    <1> HIDE DEF alias
    <1>4. IsList(alias(Norm(name)) \o Surfaces(name, strip))
        BY <1>2, SurfacesAreList, Lists
    <1> QED BY <1>3, <1>4, NormalizedIsList

LEMMA NamesAre ==
    ASSUME NEW profile, NEW o
    PROVE  NamesAreLists(Names(profile, o))
    <1>1. IsList(ClassNames(profile, o)) /\ IsList(SetNames(profile, o)) /\ \A sets : IsList(PropNames(profile, o, sets))
        BY VariantsAreList DEF ClassNames, SetNames, PropNames
    <1> QED BY <1>1 DEF Names, NamesAreLists

(* ----- the answers of resolve_property_impl --------------------------------- *)
(* A list that begins with a is a, followed by its tail.                        *)
LEMMA HeadAndTail ==
    ASSUME NEW a, NEW s, IsList(s)
    PROVE  /\ (<<a>> \o s)[1] = a /\ Tail(<<a>> \o s) = s
           /\ s # <<>> => <<s[1]>> \o Tail(s) = s
    <1>1. PICK S : s \in Seq(S)
        BY DEF IsList
    <1>2. s \in Seq(S \cup {a}) /\ <<a>> \in Seq(S \cup {a})
        <2>1. S \subseteq S \cup {a}
            OBVIOUS
        <2>2. s \in Seq(S \cup {a})
            BY <1>1, <2>1, SeqMonotonic
        <2> QED BY <2>2
    <1>3. Len(s) \in Nat /\ Len(<<a>>) = 1 /\ <<a>>[1] = a
        BY <1>1, LenProperties
    <1>4. /\ <<a>> \o s \in Seq(S \cup {a}) /\ Len(<<a>> \o s) = 1 + Len(s)
          /\ \A i \in 1..(1 + Len(s)) : (<<a>> \o s)[i] = IF i <= 1 THEN <<a>>[i] ELSE s[i - 1]
        BY <1>2, <1>3, ConcatProperties
    <1>5. (<<a>> \o s)[1] = a
        BY <1>3, <1>4
    <1>6. Tail(<<a>> \o s) = s
        <2>1. <<a>> \o s # <<>>
            BY <1>3, <1>4
        <2>2. /\ Tail(<<a>> \o s) \in Seq(S \cup {a}) /\ Len(Tail(<<a>> \o s)) = Len(s)
              /\ \A i \in 1..Len(s) : Tail(<<a>> \o s)[i] = (<<a>> \o s)[i + 1]
            BY <2>1, <1>3, <1>4, HeadTailProperties
        <2>3. \A i \in 1..Len(s) : (<<a>> \o s)[i + 1] = s[i]
            BY <1>3, <1>4
        <2>4. \A i \in 1..Len(s) : Tail(<<a>> \o s)[i] = s[i]
            BY <2>2, <2>3
        <2> QED BY <1>2, <2>2, <2>4, SeqEqual
    <1>7. ASSUME s # <<>> PROVE <<s[1]>> \o Tail(s) = s
        <2>1. /\ s[1] \in S /\ Tail(s) \in Seq(S) /\ Len(Tail(s)) = Len(s) - 1
              /\ \A i \in 1..Len(Tail(s)) : Tail(s)[i] = s[i + 1]
            BY <1>1, <1>7, HeadTailProperties
        <2>2. Len(s) \in Nat \ {0}
            BY <1>1, <1>7, EmptySeq
        <2>3. <<s[1]>> \in Seq(S) /\ Len(<<s[1]>>) = 1 /\ <<s[1]>>[1] = s[1]
            BY <2>1
        <2>4. /\ <<s[1]>> \o Tail(s) \in Seq(S) /\ Len(<<s[1]>> \o Tail(s)) = Len(s)
              /\ \A i \in 1..Len(s) : (<<s[1]>> \o Tail(s))[i] = IF i <= 1 THEN <<s[1]>>[i] ELSE Tail(s)[i - 1]
            BY <2>1, <2>2, <2>3, ConcatProperties
        <2>5. \A i \in 1..Len(s) : (<<s[1]>> \o Tail(s))[i] = s[i]
            <3> TAKE i \in 1..Len(s)
            <3>1. CASE i = 1
                BY <3>1, <2>3, <2>4
            <3>2. CASE i # 1
                <4>1. i - 1 \in 1..Len(Tail(s)) /\ (i - 1) + 1 = i /\ ~ (i <= 1)
                    BY <3>2, <2>1, <2>2
                <4> QED BY <4>1, <2>1, <2>4
            <3> QED BY <3>1, <3>2
        <2> QED BY <1>1, <2>4, <2>5, SeqEqual
    <1> QED BY <1>5, <1>6, <1>7

(* The three loops have a first hit, where there is any.                        *)
LEMMA FirstHit ==
    ASSUME NEW C \in SUBSET (Nat \X Nat \X Nat), C # {}
    PROVE  \E c \in C : \A d \in C : Before(c, d)
    <1>1. \A c \in C : c[1] \in Nat /\ c[2] \in Nat /\ c[3] \in Nat
        OBVIOUS
    <1>2. PICK a \in { c[1] : c \in C } : \A k \in { c[1] : c \in C } : a <= k
        <2>1. { c[1] : c \in C } \in SUBSET Nat /\ { c[1] : c \in C } # {}
            BY <1>1
        <2> QED BY <2>1, Least
    <1> DEFINE A == { c \in C : c[1] = a }
    <1>3. PICK b \in { c[2] : c \in A } : \A k \in { c[2] : c \in A } : b <= k
        <2>1. { c[2] : c \in A } \in SUBSET Nat /\ { c[2] : c \in A } # {}
            BY <1>1
        <2> QED BY <2>1, Least
    <1> DEFINE B == { c \in A : c[2] = b }
    <1>4. PICK t \in { c[3] : c \in B } : \A k \in { c[3] : c \in B } : t <= k
        <2>1. { c[3] : c \in B } \in SUBSET Nat /\ { c[3] : c \in B } # {}
            BY <1>1
        <2> QED BY <2>1, Least
    <1>5. PICK c \in C : c[1] = a /\ c[2] = b /\ c[3] = t
        BY <1>4
    <1>6. ASSUME NEW d \in C PROVE Before(c, d)
        <2>1. a <= d[1]
            BY <1>2
        <2>2. d[1] = a => b <= d[2]
            BY <1>3
        <2>3. d[1] = a /\ d[2] = b => t <= d[3]
            BY <1>4
        <2> QED BY <2>1, <2>2, <2>3, <1>1, <1>5 DEF Before
    <1> QED BY <1>6

LEMMA HardMappings ==
    ASSUME NEW profile, NEW schema, NEW key
    PROVE  LET own == <<schema>> \o key
               hard == Hard(profile, schema, key)
           IN  /\ hard # <<>> <=> own \in DOMAIN profile.hard \/ key \in DOMAIN profile.hard
               /\ hard # <<>> => \E k \in {own, key} : k \in DOMAIN profile.hard /\ hard[1] = profile.hard[k]
    <1> DEFINE own == <<schema>> \o key
    <1> DEFINE a == At(profile.hard, own)
    <1> DEFINE b == At(profile.hard, key)
    <1>1. IsList(a) /\ IsList(b)
        BY Lists DEF At
    <1>2. Hard(profile, schema, key) = a \o b
        BY DEF Hard
    <1>3. (own \in DOMAIN profile.hard => a # <<>> /\ Head(a) = profile.hard[own]) /\ (own \notin DOMAIN profile.hard => a = <<>>)
        BY DEF At
    <1>4. (key \in DOMAIN profile.hard => b # <<>> /\ Head(b) = profile.hard[key]) /\ (key \notin DOMAIN profile.hard => b = <<>>)
        BY DEF At
    <1> HIDE DEF a, b, own
    <1>5. /\ a = <<>> => a \o b = b
          /\ a # <<>> => a \o b # <<>> /\ Head(a \o b) = Head(a)
        BY <1>1, FirstOfTwo
    <1>6. \A s : Head(s) = s[1]
        OBVIOUS
    <1> QED BY <1>2, <1>3, <1>4, <1>5, <1>6 DEF own

(* A hit is what the profile or the dictionary states.                          *)
LEMMA HitsAreStated ==
    ASSUME NEW index, NEW profile, NEW n, NamesAreLists(n), IsProfile(profile)
    PROVE  /\ Stated(index, profile, n) # {} <=> Hits(index, profile, n) # {}
           /\ \A c \in Hits(index, profile, n) :
                 Says(index, Key(n, c), Hard(profile, n.schema, Key(n, c))).code \in Stated(index, profile, n)
    <1> DEFINE keys == ToSet(n.classes) \X ToSet(n.sets) \X ToSet(n.props)
    <1> DEFINE triples == (DOMAIN n.classes) \X (DOMAIN n.sets) \X (DOMAIN n.props)
    <1> DEFINE own(k) == <<n.schema>> \o k
    <1>1. \A k \in keys : \E c \in triples : k = Key(n, c)
        <2> SUFFICES ASSUME NEW k \in keys PROVE \E c \in triples : k = Key(n, c)
            OBVIOUS
        <2>1. PICK i \in DOMAIN n.classes, j \in DOMAIN n.sets, l \in DOMAIN n.props : k = <<n.classes[i], n.sets[j], n.props[l]>>
            BY DEF ToSet
        <2>2. <<i, j, l>> \in triples /\ Key(n, <<i, j, l>>) = <<n.classes[i], n.sets[j], n.props[l]>>
            BY DEF Key
        <2> QED BY <2>1, <2>2
    <1>2. \A c \in triples : Key(n, c) \in keys
        BY DEF Key, ToSet
    <1>3. \A k \in keys : IsList(k)
        <2> SUFFICES ASSUME NEW k \in keys PROVE IsList(k)
            OBVIOUS
        <2>1. k = <<k[1], k[2], k[3]>>
            OBVIOUS
        <2>2. <<k[1], k[2], k[3]>> \in Seq({k[1], k[2], k[3]})
            OBVIOUS
        <2> QED BY <2>1, <2>2 DEF IsList
    <1> DEFINE X == { x \in DOMAIN profile.hard : x \in keys \/ (x[1] = n.schema /\ Tail(x) \in keys) }
    <1>4. Stated(index, profile, n) = { index.exact[k] : k \in keys \cap DOMAIN index.exact } \cup { profile.hard[k] : k \in X }
        BY DEF Stated
    <1>5. \A c \in triples : c \in Hits(index, profile, n) <=>
              own(Key(n, c)) \in DOMAIN profile.hard \/ Key(n, c) \in DOMAIN profile.hard \/ Key(n, c) \in DOMAIN index.exact
        BY HardMappings DEF Hits
    <1>6. \A k \in keys : own(k) \in DOMAIN profile.hard => own(k) \in X
        <2> SUFFICES ASSUME NEW k \in keys PROVE own(k)[1] = n.schema /\ Tail(own(k)) \in keys
            OBVIOUS
        <2> HIDE DEF keys
        <2> QED BY <1>3, HeadAndTail
    <1>7. \A x \in X : x \in keys \/ \E k \in keys : x = own(k)
        <2> SUFFICES ASSUME NEW x \in DOMAIN profile.hard, x[1] = n.schema, Tail(x) \in keys PROVE x = own(Tail(x))
            OBVIOUS
        <2>1. x \in Seq(STRING) /\ Len(x) \in {3, 4}
            BY DEF IsProfile
        <2>2. IsList(x) /\ x # <<>>
            BY <2>1 DEF IsList
        <2> HIDE DEF keys
        <2> QED BY <2>2, HeadAndTail
    <1>8. Hits(index, profile, n) \subseteq triples
        BY DEF Hits
    <1> HIDE DEF keys, triples, own, X
    <1>9. ASSUME NEW c \in Hits(index, profile, n)
          PROVE  Says(index, Key(n, c), Hard(profile, n.schema, Key(n, c))).code \in Stated(index, profile, n)
        <2> DEFINE k == Key(n, c)
        <2> DEFINE hard == Hard(profile, n.schema, k)
        <2>1. k \in keys /\ c \in triples
            BY <1>2, <1>8, <1>9
        <2>2. CASE hard # <<>>
            <3>1. PICK x \in {own(k), k} : x \in DOMAIN profile.hard /\ hard[1] = profile.hard[x]
                BY <2>2, HardMappings DEF own
            <3>2. k \in DOMAIN profile.hard => k \in X
                BY <2>1 DEF X
            <3>3. x \in X
                BY <3>1, <3>2, <1>6, <2>1
            <3>4. Says(index, k, hard).code = hard[1]
                BY <2>2 DEF Says, Answer
            <3> QED BY <3>1, <3>3, <3>4, <1>4
        <2>3. CASE hard = <<>>
            <3>1. k \in DOMAIN index.exact
                BY <2>3, <1>9 DEF Hits
            <3>2. Says(index, k, hard).code = index.exact[k]
                BY <2>3 DEF Says, Answer
            <3> QED BY <3>1, <3>2, <2>1, <1>4
        <2> QED BY <2>2, <2>3
    <1>10. ASSUME Stated(index, profile, n) # {} PROVE Hits(index, profile, n) # {}
        <2>1. CASE \E k \in keys : k \in DOMAIN index.exact
            BY <2>1, <1>1, <1>5
        <2>2. CASE X # {}
            <3>1. PICK x \in X : TRUE
                BY <2>2
            <3>2. PICK k \in keys : x = k \/ x = own(k)
                BY <3>1, <1>7
            <3>3. x \in DOMAIN profile.hard
                BY <3>1 DEF X
            <3> QED BY <3>2, <3>3, <1>1, <1>5
        <2> QED BY <2>1, <2>2, <1>10, <1>4
    <1> QED BY <1>9, <1>10

LEMMA ExactAnswers ==
    ASSUME NEW index, NEW profile, NEW n, NamesAreLists(n)
    PROVE  \/ Hits(index, profile, n) = {} /\ Exact(index, profile, n) = <<>>
           \/ \E c \in Hits(index, profile, n) :
                 Exact(index, profile, n) = << Says(index, Key(n, c), Hard(profile, n.schema, Key(n, c))) >>
    <1>1. Hits(index, profile, n) \in SUBSET (Nat \X Nat \X Nat)
        <2>1. DOMAIN n.classes \subseteq Nat /\ DOMAIN n.sets \subseteq Nat /\ DOMAIN n.props \subseteq Nat
            BY ListFacts DEF NamesAreLists
        <2> QED BY <2>1 DEF Hits
    <1>2. CASE Hits(index, profile, n) = {}
        BY <1>2 DEF Exact
    <1>3. CASE Hits(index, profile, n) # {}
        <2> DEFINE first == CHOOSE c \in Hits(index, profile, n) : \A d \in Hits(index, profile, n) : Before(c, d)
        <2>1. first \in Hits(index, profile, n)
            BY <1>1, <1>3, FirstHit
        <2>2. Exact(index, profile, n) = << Says(index, Key(n, first), Hard(profile, n.schema, Key(n, first))) >>
            BY <1>3 DEF Exact
        <2> QED BY <2>1, <2>2
    <1> QED BY <1>2, <1>3

(* A level with one code decides, one with several leaves the choice open.      *)
LEMMA Levelled ==
    ASSUME NEW codes, NEW method, IsFiniteSet(codes)
    PROVE  LET level == Level(codes, method)
               a == Head(level)
           IN  /\ IsList(level)
               /\ level = <<>> <=> codes = {}
               /\ codes # {} => /\ Codes(a) = codes /\ a.method = method /\ a.status \in {"normalized", "ambiguous"}
                                /\ a.status = "ambiguous" <=> Cardinality(codes) > 1
    <1>0. Cardinality(codes) \in Nat
        BY FS_CardinalityType
    <1>1. CASE codes = {}
        <2>1. Level(codes, method) = <<>>
            BY <1>1, FS_EmptySet DEF Level
        <2> QED BY <2>1, <1>1, Lists
    <1>2. CASE codes # {} /\ Cardinality(codes) = 1
        <2>1. PICK c : codes = {c}
            BY <1>2, FS_Singleton
        <2> DEFINE a == Answer("normalized", CHOOSE c2 \in codes : TRUE, {}, method)
        <2>2. Level(codes, method) = <<a>>
            BY <1>2 DEF Level
        <2>3. a.code = c /\ a.status = "normalized" /\ a.method = method
            BY <2>1 DEF Answer
        <2>4. Codes(a) = {c}
            BY <2>3 DEF Codes
        <2>5. Head(<<a>>) = a /\ <<a>> # <<>>
            OBVIOUS
        <2>6. a.status # "ambiguous" /\ ~ (Cardinality(codes) > 1)
            BY <2>3, <1>2
        <2> HIDE DEF a
        <2> QED BY <2>1, <2>2, <2>3, <2>4, <2>5, <2>6, <1>2, Lists
    <1>3. CASE codes # {} /\ Cardinality(codes) # 1
        <2>1. Cardinality(codes) > 1
            BY <1>0, <1>3, FS_EmptySet
        <2> DEFINE a == Answer("ambiguous", "", codes, method)
        <2>2. Level(codes, method) = <<a>>
            BY <1>3 DEF Level
        <2>3. a.among = codes /\ a.status = "ambiguous" /\ a.method = method
            BY DEF Answer
        <2>4. Codes(a) = codes
            BY <2>3 DEF Codes
        <2>5. Head(<<a>>) = a /\ <<a>> # <<>>
            OBVIOUS
        <2> HIDE DEF a
        <2> QED BY <2>1, <2>2, <2>3, <2>4, <2>5, <1>3, Lists
    <1> QED BY <1>1, <1>2, <1>3

LEMMA CodesAreFinite ==
    ASSUME NEW K, IsFiniteSet(K), NEW lookup, \A k \in K : lookup[k] \in Seq(STRING)
    PROVE  IsFiniteSet(UNION { ToSet(lookup[k]) : k \in K })
    <1> DEFINE C == { ToSet(lookup[k]) : k \in K }
    <1>1. \A T \in C : IsFiniteSet(T)
        BY ListFacts DEF IsList
    <1>2. [ k \in K |-> ToSet(lookup[k]) ] \in Surjection(K, C)
        BY DEF Surjection
    <1>3. IsFiniteSet(C)
        BY <1>2, FS_Surjection
    <1> HIDE DEF C
    <1>4. IsFiniteSet(UNION C)
        BY <1>1, <1>3, FS_UNION
    <1> QED BY <1>4 DEF C

(* The candidates of the three levels.                                          *)
LEMMA CandidateLevels ==
    ASSUME NEW index, NEW n, IsIndex(index), NamesAreLists(n)
    PROVE  LET A == Candidates(ToSet(n.sets) \X ToSet(n.props), index.bySet)
               B == Candidates(ToSet(n.classes) \X ToSet(n.props), index.byClass)
               C == Candidates(ToSet(n.props), index.byProp)
           IN  /\ IsFiniteSet(A) /\ IsFiniteSet(B) /\ IsFiniteSet(C)
               /\ Levels(index, n) = <<A, B, C>>
    <1>1. IsFiniteSet(ToSet(n.classes)) /\ IsFiniteSet(ToSet(n.sets)) /\ IsFiniteSet(ToSet(n.props))
        BY ListFacts DEF NamesAreLists
    <1>2. ASSUME NEW groups, NEW names, NEW lookup, IsFiniteSet(groups), IsFiniteSet(names), IsLevel(lookup)
          PROVE  /\ IsFiniteSet(Candidates(groups \X names, lookup))
                 /\ InLevel(names, groups, lookup) = Candidates(groups \X names, lookup)
        <2> DEFINE K == (groups \X names) \cap DOMAIN lookup
        <2>1. IsFiniteSet(groups \X names)
            BY <1>2, FS_Product
        <2>2. IsFiniteSet(K)
            BY <2>1, FS_Subset
        <2>3. { x \in DOMAIN lookup : x[1] \in groups /\ x[2] \in names } = K
            BY <1>2 DEF IsLevel
        <2>4. IsFiniteSet(UNION { ToSet(lookup[k]) : k \in K })
            <3>1. \A k \in K : lookup[k] \in Seq(STRING)
                BY <1>2 DEF IsLevel
            <3> HIDE DEF K
            <3> QED BY <2>2, <3>1, CodesAreFinite
        <2> QED BY <2>3, <2>4 DEF Candidates, InLevel
    <1>3. IsFiniteSet(Candidates(ToSet(n.props), index.byProp))
        <2> DEFINE K == ToSet(n.props) \cap DOMAIN index.byProp
        <2>1. IsFiniteSet(K)
            BY <1>1, FS_Subset
        <2>2. \A k \in K : index.byProp[k] \in Seq(STRING)
            BY DEF IsIndex
        <2> HIDE DEF K
        <2>3. IsFiniteSet(UNION { ToSet(index.byProp[k]) : k \in K })
            BY <2>1, <2>2, CodesAreFinite
        <2> QED BY <2>3 DEF Candidates, K
    <1>4. IsLevel(index.bySet) /\ IsLevel(index.byClass)
        BY DEF IsIndex
    <1>5. /\ IsFiniteSet(Candidates(ToSet(n.sets) \X ToSet(n.props), index.bySet))
          /\ InLevel(ToSet(n.props), ToSet(n.sets), index.bySet) = Candidates(ToSet(n.sets) \X ToSet(n.props), index.bySet)
        BY <1>1, <1>2, <1>4
    <1>6. /\ IsFiniteSet(Candidates(ToSet(n.classes) \X ToSet(n.props), index.byClass))
          /\ InLevel(ToSet(n.props), ToSet(n.classes), index.byClass) = Candidates(ToSet(n.classes) \X ToSet(n.props), index.byClass)
        BY <1>1, <1>2, <1>4
    <1> QED BY <1>3, <1>5, <1>6 DEF Levels, Candidates

(* What is guessed are finitely many properties of the own class or set.        *)
LEMMA GuessesAreOwn ==
    ASSUME NEW index, NEW profile, NEW n, IsIndex(index), NamesAreLists(n)
    PROVE  \/ Guesses(index, profile, n) = <<>>
           \/ \E codes \in SUBSET OwnProperties(index, n) :
                 IsFiniteSet(codes) /\ Guesses(index, profile, n) = Level(codes, "fuzzy")
    <1> DEFINE pool == Pool(index, profile, FirstOf(n.classes), FirstOf(n.sets))
    <1>1. ASSUME NEW lookup \in {index.bySet, index.byClass}, NEW group
          PROVE  /\ IsFiniteSet({ p.code : p \in Listed(lookup, group) })
                 /\ { p.code : p \in Listed(lookup, group) } \subseteq
                        UNION { ToSet(lookup[k]) : k \in { x \in DOMAIN lookup : x[1] = group } }
        <2> DEFINE K == { k \in DOMAIN lookup : k[1] = group }
        <2> DEFINE U == UNION { ToSet(lookup[k]) : k \in K }
        <2>1. IsFiniteSet(K)
            BY FS_Subset DEF IsIndex, IsLevel
        <2>2. \A k \in K : lookup[k] \in Seq(STRING)
            BY DEF IsIndex, IsLevel
        <2>3. IsFiniteSet(U)
            <3> HIDE DEF K
            <3> QED BY <2>1, <2>2, CodesAreFinite
        <2>4. \A p \in Listed(lookup, group) : p.code \in U
            <3> SUFFICES ASSUME NEW p \in Listed(lookup, group) PROVE p.code \in U
                OBVIOUS
            <3>1. PICK key \in K : p \in { [ name |-> key[2], place |-> Place[key], code |-> lookup[key][i] ] : i \in DOMAIN lookup[key] }
                BY DEF Listed
            <3>2. PICK i \in DOMAIN lookup[key] : p.code = lookup[key][i]
                BY <3>1
            <3>3. p.code \in ToSet(lookup[key])
                BY <3>2 DEF ToSet
            <3> QED BY <3>1, <3>3
        <2>5. { p.code : p \in Listed(lookup, group) } \subseteq U
            BY <2>4
        <2>6. IsFiniteSet({ p.code : p \in Listed(lookup, group) })
            <3> HIDE DEF U
            <3> QED BY <2>3, <2>5, FS_Subset
        <2> QED BY <2>5, <2>6
    <1>2. IsFiniteSet({ p.code : p \in pool }) /\ { p.code : p \in pool } \subseteq OwnProperties(index, n)
        <2>1. CASE profile.fuzzy.scope = "pset" /\ FirstOf(n.sets) # ""
            <3>1. pool = Listed(index.bySet, FirstOf(n.sets))
                BY <2>1 DEF Pool
            <3> HIDE DEF pool
            <3>2. UNION { ToSet(index.bySet[k]) : k \in { x \in DOMAIN index.bySet : x[1] = FirstOf(n.sets) } } \subseteq OwnProperties(index, n)
                BY DEF OwnProperties
            <3> QED BY <3>1, <3>2, <1>1
        <2>2. CASE ~ (profile.fuzzy.scope = "pset" /\ FirstOf(n.sets) # "") /\ FirstOf(n.classes) # ""
            <3>1. pool = Listed(index.byClass, FirstOf(n.classes))
                BY <2>2 DEF Pool
            <3> HIDE DEF pool
            <3>2. UNION { ToSet(index.byClass[k]) : k \in { x \in DOMAIN index.byClass : x[1] = FirstOf(n.classes) } } \subseteq OwnProperties(index, n)
                BY DEF OwnProperties
            <3> QED BY <3>1, <3>2, <1>1
        <2>3. CASE ~ (profile.fuzzy.scope = "pset" /\ FirstOf(n.sets) # "") /\ FirstOf(n.classes) = ""
            <3>1. pool = {}
                BY <2>3 DEF Pool
            <3> HIDE DEF pool
            <3>2. { p.code : p \in pool } = {}
                BY <3>1
            <3> QED BY <3>2, FS_EmptySet
        <2> QED BY <2>1, <2>2, <2>3
    <1> HIDE DEF pool
    <1>3. \A name : Closest(Similar(pool, name)) \subseteq { p.code : p \in pool }
        <2> SUFFICES ASSUME NEW name, NEW x \in Similar(pool, name) PROVE x.code \in { p.code : p \in pool }
            BY DEF Closest
        <2>1. Inspected(pool, name) \subseteq pool
            BY DEF Inspected, Comparable
        <2> DEFINE scored == { [ code |-> p.code, score |-> Score[<<name, p.name>>] ]
                               : p \in { y \in Inspected(pool, name) : Score[<<name, y.name>>] >= Threshold } }
        <2>2. x \in scored
            BY DEF Similar
        <2>3. PICK p \in Inspected(pool, name) : x = [ code |-> p.code, score |-> Score[<<name, p.name>>] ]
            BY <2>2
        <2>4. x.code = p.code
            BY <2>3
        <2> HIDE DEF scored
        <2> QED BY <2>1, <2>3, <2>4
    <1>4. Guess(pool, n.props) = <<>> \/ \E name : Guess(pool, n.props) = Level(Closest(Similar(pool, name)), "fuzzy")
        <2> DEFINE known == { i \in DOMAIN n.props : Similar(pool, n.props[i]) # {} }
        <2>1. Guess(pool, n.props) =
                  IF known = {} THEN <<>>
                  ELSE Level(Closest(Similar(pool, n.props[CHOOSE i \in known : \A j \in known : i <= j])), "fuzzy")
            BY DEF Guess
        <2> QED BY <2>1
    <1>5. CASE Guesses(index, profile, n) = Guess(pool, n.props)
        <2>1. CASE Guess(pool, n.props) = <<>>
            BY <1>5, <2>1
        <2>2. CASE \E name : Guess(pool, n.props) = Level(Closest(Similar(pool, name)), "fuzzy")
            <3>1. PICK name : Guess(pool, n.props) = Level(Closest(Similar(pool, name)), "fuzzy")
                BY <2>2
            <3>2. Closest(Similar(pool, name)) \in SUBSET OwnProperties(index, n) /\ IsFiniteSet(Closest(Similar(pool, name)))
                BY <1>2, <1>3, FS_Subset
            <3> QED BY <3>1, <3>2, <1>5
        <2> QED BY <1>4, <2>1, <2>2
    <1>6. CASE Guesses(index, profile, n) = <<>>
        BY <1>6
    <1> QED BY <1>5, <1>6 DEF Guesses, pool

(* The answer is the first there is, in the order of the levels.                *)
LEMMA ResolvedInOrder ==
    ASSUME NEW index, NEW profile, NEW n, NEW fuzzy, IsIndex(index), NamesAreLists(n)
    PROVE  LET E == Exact(index, profile, n)
               A == Level(Candidates(ToSet(n.sets) \X ToSet(n.props), index.bySet), "set")
               B == Level(Candidates(ToSet(n.classes) \X ToSet(n.props), index.byClass), "class")
               C == Level(Candidates(ToSet(n.props), index.byProp), "prop")
               G == Guesses(index, profile, n)
           IN  Resolve(index, profile, n, fuzzy) =
                   IF E # <<>> THEN Head(E) ELSE IF A # <<>> THEN Head(A) ELSE IF B # <<>> THEN Head(B)
                   ELSE IF C # <<>> THEN Head(C) ELSE IF fuzzy /\ G # <<>> THEN Head(G) ELSE Unmapped
    <1> DEFINE E == Exact(index, profile, n)
    <1> DEFINE A == Level(Candidates(ToSet(n.sets) \X ToSet(n.props), index.bySet), "set")
    <1> DEFINE B == Level(Candidates(ToSet(n.classes) \X ToSet(n.props), index.byClass), "class")
    <1> DEFINE C == Level(Candidates(ToSet(n.props), index.byProp), "prop")
    <1> DEFINE G == Guesses(index, profile, n)
    <1> DEFINE F == IF fuzzy THEN G ELSE <<>>
    <1>1. IsList(E)
        BY ExactAnswers, Lists
    <1>2. IsList(A) /\ IsList(B) /\ IsList(C)
        BY CandidateLevels, Levelled
    <1>3. IsList(G)
        BY GuessesAreOwn, Levelled, Lists
    <1>4. IsList(F)
        <2> HIDE DEF G
        <2> QED BY <1>3, Lists
    <1>5. Resolve(index, profile, n, fuzzy) = Head(E \o A \o B \o C \o F \o << Unmapped >>)
        BY DEF Resolve
    <1>6. Head(<<Unmapped>>) = Unmapped
        OBVIOUS
    <1>7. F = IF fuzzy THEN G ELSE <<>>
        OBVIOUS
    <1> HIDE DEF E, A, B, C, G, F
    <1>8. IsList(E \o A) /\ IsList(E \o A \o B) /\ IsList(E \o A \o B \o C) /\ IsList(E \o A \o B \o C \o F) /\ IsList(<<Unmapped>>)
        BY <1>1, <1>2, <1>4, Lists
    <1>9. E # <<>> => E \o A # <<>> /\ Head(E \o A) = Head(E)
        BY <1>1, <1>2, FirstOfTwo
    <1>10. E = <<>> => E \o A = A
        BY <1>1, <1>2, FirstOfTwo
    <1>11. /\ E \o A = <<>> => E \o A \o B = B
           /\ E \o A # <<>> => E \o A \o B # <<>> /\ Head(E \o A \o B) = Head(E \o A)
        BY <1>8, <1>2, FirstOfTwo
    <1>12. /\ E \o A \o B = <<>> => E \o A \o B \o C = C
           /\ E \o A \o B # <<>> => E \o A \o B \o C # <<>> /\ Head(E \o A \o B \o C) = Head(E \o A \o B)
        BY <1>8, <1>2, FirstOfTwo
    <1>13. /\ E \o A \o B \o C = <<>> => E \o A \o B \o C \o F = F
           /\ E \o A \o B \o C # <<>> => E \o A \o B \o C \o F # <<>> /\ Head(E \o A \o B \o C \o F) = Head(E \o A \o B \o C)
        BY <1>8, <1>4, FirstOfTwo
    <1>14. /\ E \o A \o B \o C \o F = <<>> => E \o A \o B \o C \o F \o <<Unmapped>> = <<Unmapped>>
           /\ E \o A \o B \o C \o F # <<>> => Head(E \o A \o B \o C \o F \o <<Unmapped>>) = Head(E \o A \o B \o C \o F)
        BY <1>8, FirstOfTwo
    <1> DEFINE EA == E \o A
    <1> DEFINE EAB == EA \o B
    <1> DEFINE EABC == EAB \o C
    <1> DEFINE EABCF == EABC \o F
    <1> DEFINE all == EABCF \o <<Unmapped>>
    <1> HIDE DEF EA
    <1> HIDE DEF EAB
    <1> HIDE DEF EABC
    <1> HIDE DEF EABCF
    <1> HIDE DEF all
    <1>15. /\ Resolve(index, profile, n, fuzzy) = Head(all)
           /\ (E # <<>> => EA # <<>> /\ Head(EA) = Head(E)) /\ (E = <<>> => EA = A)
           /\ (EA = <<>> => EAB = B) /\ (EA # <<>> => EAB # <<>> /\ Head(EAB) = Head(EA))
           /\ (EAB = <<>> => EABC = C) /\ (EAB # <<>> => EABC # <<>> /\ Head(EABC) = Head(EAB))
           /\ (EABC = <<>> => EABCF = F) /\ (EABC # <<>> => EABCF # <<>> /\ Head(EABCF) = Head(EABC))
           /\ (EABCF = <<>> => all = <<Unmapped>>) /\ (EABCF # <<>> => Head(all) = Head(EABCF))
        BY <1>5, <1>9, <1>10, <1>11, <1>12, <1>13, <1>14 DEF EA, EAB, EABC, EABCF, all
    <1>16. Resolve(index, profile, n, fuzzy) =
               IF E # <<>> THEN Head(E) ELSE IF A # <<>> THEN Head(A) ELSE IF B # <<>> THEN Head(B)
               ELSE IF C # <<>> THEN Head(C) ELSE IF fuzzy /\ G # <<>> THEN Head(G) ELSE Unmapped
        BY <1>15, <1>6, <1>7
    <1> QED BY <1>16 DEF E, A, B, C, G

(* What kind of answer it is.                                                    *)
LEMMA AnswerKinds ==
    ASSUME NEW index, NEW profile, NEW n, NEW fuzzy, IsIndex(index), IsProfile(profile), NamesAreLists(n)
    PROVE  LET a == Resolve(index, profile, n, fuzzy)
               stated == Stated(index, profile, n)
               strongest == StrongestLevel(Levels(index, n))
           IN  \/ stated # {} /\ a.status = "matched" /\ a.code \in stated /\ a.method \in {"hard", "exact"}
               \/ /\ stated = {} /\ strongest # {} /\ Codes(a) = strongest /\ a.method \in {"set", "class", "prop"}
                  /\ a.status \in {"normalized", "ambiguous"}
                  /\ a.status = "ambiguous" <=> Cardinality(Codes(a)) > 1
               \/ /\ stated = {} /\ strongest = {} /\ fuzzy /\ Codes(a) \subseteq OwnProperties(index, n)
                  /\ a.method = "fuzzy" /\ a.status \in {"normalized", "ambiguous"}
                  /\ a.status = "ambiguous" <=> Cardinality(Codes(a)) > 1
               \/ stated = {} /\ strongest = {} /\ a = Unmapped /\ (fuzzy => Guesses(index, profile, n) = <<>>)
    <1> DEFINE CA == Candidates(ToSet(n.sets) \X ToSet(n.props), index.bySet)
    <1> DEFINE CB == Candidates(ToSet(n.classes) \X ToSet(n.props), index.byClass)
    <1> DEFINE CC == Candidates(ToSet(n.props), index.byProp)
    <1> DEFINE E == Exact(index, profile, n)
    <1> DEFINE G == Guesses(index, profile, n)
    <1> DEFINE a == Resolve(index, profile, n, fuzzy)
    <1> DEFINE stated == Stated(index, profile, n)
    <1> DEFINE strongest == StrongestLevel(Levels(index, n))
    <1>1. IsFiniteSet(CA) /\ IsFiniteSet(CB) /\ IsFiniteSet(CC) /\ Levels(index, n) = <<CA, CB, CC>>
        BY CandidateLevels
    <1>2. a = IF E # <<>> THEN Head(E) ELSE IF Level(CA, "set") # <<>> THEN Head(Level(CA, "set"))
              ELSE IF Level(CB, "class") # <<>> THEN Head(Level(CB, "class"))
              ELSE IF Level(CC, "prop") # <<>> THEN Head(Level(CC, "prop"))
              ELSE IF fuzzy /\ G # <<>> THEN Head(G) ELSE Unmapped
        BY ResolvedInOrder
    <1>3. \/ stated = {} /\ E = <<>>
          \/ stated # {} /\ E # <<>> /\ Head(E).status = "matched" /\ Head(E).code \in stated /\ Head(E).method \in {"hard", "exact"}
        <2>1. CASE Hits(index, profile, n) = {} /\ E = <<>>
            BY <2>1, HitsAreStated
        <2>2. CASE \E c \in Hits(index, profile, n) : E = << Says(index, Key(n, c), Hard(profile, n.schema, Key(n, c))) >>
            <3>1. PICK c \in Hits(index, profile, n) : E = << Says(index, Key(n, c), Hard(profile, n.schema, Key(n, c))) >>
                BY <2>2
            <3> DEFINE says == Says(index, Key(n, c), Hard(profile, n.schema, Key(n, c)))
            <3>2. says.status = "matched" /\ says.method \in {"hard", "exact"}
                BY DEF Says, Answer
            <3>3. says.code \in stated /\ stated # {}
                BY HitsAreStated
            <3>4. Head(E) = says /\ E # <<>>
                BY <3>1
            <3> HIDE DEF says, stated, E
            <3> QED BY <3>2, <3>3, <3>4
        <2> QED BY <2>1, <2>2, ExactAnswers
    <1>4. strongest = IF CA # {} THEN CA ELSE IF CB # {} THEN CB ELSE CC
        <2> HIDE DEF CA, CB, CC
        <2> DEFINE levels == <<CA, CB, CC>>
        <2> DEFINE knowing == { i \in 1..3 : levels[i] # {} }
        <2>1. levels[1] = CA /\ levels[2] = CB /\ levels[3] = CC /\ 1..3 = {1, 2, 3}
            OBVIOUS
        <2> DEFINE least == CHOOSE i \in knowing : \A j \in knowing : i <= j
        <2>2. strongest = IF knowing = {} THEN {} ELSE levels[least]
            BY <1>1 DEF StrongestLevel
        <2> HIDE DEF levels, strongest
        <2>3. CASE CA # {}
            <3>1. 1 \in knowing /\ \A j \in knowing : 1 <= j
                BY <2>1, <2>3
            <3>2. least = 1
                BY <3>1
            <3>3. knowing # {}
                BY <3>1
            <3> HIDE DEF knowing, least
            <3> QED BY <3>2, <3>3, <2>1, <2>2, <2>3
        <2>4. CASE CA = {} /\ CB # {}
            <3>1. 2 \in knowing /\ \A j \in knowing : 2 <= j
                BY <2>1, <2>4
            <3>2. least = 2
                BY <3>1
            <3>3. knowing # {}
                BY <3>1
            <3> HIDE DEF knowing, least
            <3> QED BY <3>2, <3>3, <2>1, <2>2, <2>4
        <2>5. CASE CA = {} /\ CB = {} /\ CC # {}
            <3>1. 3 \in knowing /\ \A j \in knowing : 3 <= j
                BY <2>1, <2>5
            <3>2. least = 3
                BY <3>1
            <3>3. knowing # {}
                BY <3>1
            <3> HIDE DEF knowing, least
            <3> QED BY <3>2, <3>3, <2>1, <2>2, <2>5
        <2>6. CASE CA = {} /\ CB = {} /\ CC = {}
            <3>1. knowing = {}
                BY <2>1, <2>6
            <3> QED BY <3>1, <2>2, <2>6
        <2> QED BY <2>3, <2>4, <2>5, <2>6
    <1>5. ASSUME NEW codes, NEW method, IsFiniteSet(codes), codes # {}, a = Head(Level(codes, method))
          PROVE  /\ Codes(a) = codes /\ a.method = method /\ a.status \in {"normalized", "ambiguous"}
                 /\ a.status = "ambiguous" <=> Cardinality(Codes(a)) > 1
        <2> HIDE DEF a
        <2> QED BY <1>5, Levelled
    <1>6. ASSUME NEW codes, IsFiniteSet(codes) PROVE \A method : Level(codes, method) = <<>> <=> codes = {}
        BY <1>6, Levelled
    <1>7. G = <<>> \/ \E codes \in SUBSET OwnProperties(index, n) : IsFiniteSet(codes) /\ G = Level(codes, "fuzzy")
        BY GuessesAreOwn
    <1> HIDE DEF CA, CB, CC, E, G, a, stated, strongest
    <1>8. CASE E # <<>>
        BY <1>8, <1>2, <1>3 DEF a, stated
    <1>9. CASE E = <<>> /\ CA # {}
        <2>1. a = Head(Level(CA, "set")) /\ stated = {} /\ strongest = CA
            BY <1>9, <1>1, <1>2, <1>3, <1>4, <1>6
        <2> QED BY <2>1, <1>9, <1>1, <1>5 DEF a, stated, strongest
    <1>10. CASE E = <<>> /\ CA = {} /\ CB # {}
        <2>1. a = Head(Level(CB, "class")) /\ stated = {} /\ strongest = CB
            BY <1>10, <1>1, <1>2, <1>3, <1>4, <1>6
        <2> QED BY <2>1, <1>10, <1>1, <1>5 DEF a, stated, strongest
    <1>11. CASE E = <<>> /\ CA = {} /\ CB = {} /\ CC # {}
        <2>1. a = Head(Level(CC, "prop")) /\ stated = {} /\ strongest = CC
            BY <1>11, <1>1, <1>2, <1>3, <1>4, <1>6
        <2> QED BY <2>1, <1>11, <1>1, <1>5 DEF a, stated, strongest
    <1>12. CASE E = <<>> /\ CA = {} /\ CB = {} /\ CC = {}
        <2>1. a = (IF fuzzy /\ G # <<>> THEN Head(G) ELSE Unmapped) /\ stated = {} /\ strongest = {}
            BY <1>12, <1>1, <1>2, <1>3, <1>4, <1>6
        <2>2. CASE fuzzy /\ G # <<>>
            <3>1. PICK codes \in SUBSET OwnProperties(index, n) : IsFiniteSet(codes) /\ G = Level(codes, "fuzzy")
                BY <2>2, <1>7
            <3>2. codes # {} /\ a = Head(Level(codes, "fuzzy"))
                BY <3>1, <2>1, <2>2, <1>6
            <3>3. /\ Codes(a) = codes /\ a.method = "fuzzy" /\ a.status \in {"normalized", "ambiguous"}
                  /\ a.status = "ambiguous" <=> Cardinality(Codes(a)) > 1
                BY <3>1, <3>2, <1>5
            <3> QED BY <3>1, <3>3, <2>1, <2>2 DEF a, stated, strongest
        <2>3. CASE ~ (fuzzy /\ G # <<>>)
            BY <2>1, <2>3 DEF a, stated, strongest, G
        <2> QED BY <2>2, <2>3
    <1> QED BY <1>8, <1>9, <1>10, <1>11, <1>12

(* No answer is a mismatch: for every dictionary, pair of profiles and          *)
(* occurrence, what the dictionary or the profile states is the answer, else    *)
(* the strongest level that knows the name decides, and only with one code, and *)
(* a guess is a property of the object's own class or set                       *)
(* (resolve_property_impl).                                                     *)
THEOREM EveryMatchIsEarned ==
    \A index, base, overlay, o :
        IsIndex(index) /\ IsProfile(base) /\ IsProfile(overlay) => EarnedMatch(index, base, overlay, o)
    <1> SUFFICES ASSUME NEW index, NEW base, NEW overlay, NEW o, IsIndex(index), IsProfile(base), IsProfile(overlay)
                 PROVE  EarnedMatch(index, base, overlay, o)
        OBVIOUS
    <1> DEFINE profile == MergeOverlay(base, overlay)
    <1> DEFINE n == Names(profile, o)
    <1> DEFINE a == Resolve(index, profile, n, TRUE)
    <1>1. IsProfile(profile)
        BY DEF IsProfile, MergeOverlay, Over
    <1>2. NamesAreLists(n)
        BY NamesAre
    <1> HIDE DEF profile, n
    <1> DEFINE stated == Stated(index, profile, n)
    <1> DEFINE strongest == StrongestLevel(Levels(index, n))
    <1> DEFINE own == OwnProperties(index, n)
    <1>3. \/ stated # {} /\ a.status = "matched" /\ a.code \in stated
          \/ /\ stated = {} /\ strongest # {} /\ Codes(a) = strongest /\ a.status \in {"normalized", "ambiguous"}
             /\ a.status = "ambiguous" <=> Cardinality(Codes(a)) > 1
          \/ /\ stated = {} /\ strongest = {} /\ Codes(a) \subseteq own /\ a.status \in {"normalized", "ambiguous"}
             /\ a.status = "ambiguous" <=> Cardinality(Codes(a)) > 1
          \/ stated = {} /\ strongest = {} /\ a = Unmapped
        <2> HIDE DEF a, stated, strongest, own
        <2> QED BY <1>1, <1>2, AnswerKinds DEF a, stated, strongest, own
    <1>4. Cardinality({}) = 0 /\ \A c : Cardinality({c}) = 1
        BY FS_EmptySet, FS_Singleton
    <1>5. Earned(a, Codes(a), stated, strongest, own)
        <2> HIDE DEF a, stated, strongest, own
        <2>1. CASE stated # {} /\ a.status = "matched" /\ a.code \in stated
            <3>1. Codes(a) = {a.code}
                BY <2>1 DEF Codes
            <3>2. ~ (Cardinality(Codes(a)) > 1)
                <4>1. Cardinality({a.code}) = 1
                    BY <1>4
                <4> QED BY <3>1, <4>1
            <3>3. Codes(a) \subseteq stated
                BY <3>1, <2>1
            <3> QED BY <3>2, <3>3, <2>1 DEF Earned
        <2>2. CASE stated = {} /\ strongest = {} /\ a = Unmapped
            <3>1. a.status = "unmapped"
                BY <2>2 DEF Unmapped, Answer
            <3>2. Codes(a) = {}
                BY <3>1 DEF Codes
            <3>3. ~ (Cardinality(Codes(a)) > 1)
                BY <3>2, <1>4
            <3> QED BY <3>1, <3>2, <3>3, <2>2 DEF Earned
        <2>3. CASE /\ stated = {} /\ strongest # {} /\ Codes(a) = strongest /\ a.status \in {"normalized", "ambiguous"}
                   /\ a.status = "ambiguous" <=> Cardinality(Codes(a)) > 1
            <3>1. a.status # "matched"
                BY <2>3
            <3> QED BY <3>1, <2>3 DEF Earned
        <2>4. CASE /\ stated = {} /\ strongest = {} /\ Codes(a) \subseteq own /\ a.status \in {"normalized", "ambiguous"}
                   /\ a.status = "ambiguous" <=> Cardinality(Codes(a)) > 1
            <3>1. a.status # "matched"
                BY <2>4
            <3> QED BY <3>1, <2>4 DEF Earned
        <2> QED BY <1>3, <2>1, <2>2, <2>3, <2>4
    <1> QED BY <1>5 DEF EarnedMatch, profile, n, a, stated, strongest, own

(* Without guesses nothing but the guesses is lost.                             *)
LEMMA Unguessed ==
    ASSUME NEW index, NEW profile, NEW n, IsIndex(index), IsProfile(profile), NamesAreLists(n)
    PROVE  LET a == Resolve(index, profile, n, TRUE)
           IN  Resolve(index, profile, n, FALSE) = IF a.method = "fuzzy" THEN Unmapped ELSE a
    <1> DEFINE E == Exact(index, profile, n)
    <1> DEFINE A == Level(Candidates(ToSet(n.sets) \X ToSet(n.props), index.bySet), "set")
    <1> DEFINE B == Level(Candidates(ToSet(n.classes) \X ToSet(n.props), index.byClass), "class")
    <1> DEFINE C == Level(Candidates(ToSet(n.props), index.byProp), "prop")
    <1> DEFINE G == Guesses(index, profile, n)
    <1> DEFINE a == Resolve(index, profile, n, TRUE)
    <1> DEFINE b == Resolve(index, profile, n, FALSE)
    <1>1. a = IF E # <<>> THEN Head(E) ELSE IF A # <<>> THEN Head(A) ELSE IF B # <<>> THEN Head(B)
              ELSE IF C # <<>> THEN Head(C) ELSE IF G # <<>> THEN Head(G) ELSE Unmapped
        BY ResolvedInOrder
    <1>2. b = IF E # <<>> THEN Head(E) ELSE IF A # <<>> THEN Head(A) ELSE IF B # <<>> THEN Head(B)
              ELSE IF C # <<>> THEN Head(C) ELSE Unmapped
        BY ResolvedInOrder
    <1>3. b.method # "fuzzy"
        <2>1. b.method \in {"hard", "exact", "set", "class", "prop"} \/ b = Unmapped
            <3> HIDE DEF b
            <3> QED BY AnswerKinds DEF b
        <2>2. Unmapped.method # "fuzzy"
            BY DEF Unmapped, Answer
        <2> HIDE DEF b
        <2> QED BY <2>1, <2>2
    <1>4. G # <<>> => Head(G).method = "fuzzy"
        <2> SUFFICES ASSUME G # <<>> PROVE Head(G).method = "fuzzy"
            OBVIOUS
        <2>1. PICK codes \in SUBSET OwnProperties(index, n) : IsFiniteSet(codes) /\ G = Level(codes, "fuzzy")
            BY GuessesAreOwn
        <2> HIDE DEF G
        <2>2. codes # {}
            BY <2>1, Levelled
        <2> QED BY <2>1, <2>2, Levelled
    <1> HIDE DEF E, A, B, C, G, a, b
    <1>5. b = IF a.method = "fuzzy" THEN Unmapped ELSE a
        BY <1>1, <1>2, <1>3, <1>4
    <1> QED BY <1>5 DEF a, b

(* The cache answers as the dictionary would: whatever the dictionary, the      *)
(* profiles and the occurrences, those that normalise alike get one answer, the *)
(* direct answer of one of them, and without the preprocess module nothing but  *)
(* guesses is lost (build_bsdd_match_cache, resolve_from_cache).                *)
THEOREM EveryCacheIsFaithful ==
    \A index, base, overlay, asked, occurrences :
        IsIndex(index) /\ IsProfile(base) /\ IsProfile(overlay) /\ IsList(occurrences)
            => FaithfulCache(index, base, overlay, asked, occurrences)
    <1> SUFFICES ASSUME NEW index, NEW base, NEW overlay, NEW asked, NEW occurrences, IsIndex(index), IsProfile(base), IsProfile(overlay),
                        IsList(occurrences)
                 PROVE  FaithfulCache(index, base, overlay, asked, occurrences)
        OBVIOUS
    <1> DEFINE profile == MergeOverlay(base, overlay)
    <1>1. IsProfile(profile)
        BY DEF IsProfile, MergeOverlay, Over
    <1> HIDE DEF profile
    <1> DEFINE N == Len(occurrences)
    <1> DEFINE names == [ i \in 1..N |-> Names(profile, occurrences[i]) ]
    <1>2. N \in Nat /\ DOMAIN occurrences = 1..N
        BY ListFacts
    <1> HIDE DEF N
    <1>3. ASSUME NEW f, f = [ i \in 1..N |-> f[i] ] PROVE <<>> \o f = f
        <2>1. f \in Seq({ f[i] : i \in 1..N })
            <3>1. f \in [ 1..N -> { f[i] : i \in 1..N } ]
                BY <1>3
            <3> QED BY <3>1, <1>2, SeqDef
        <2> QED BY <2>1, ConcatEmptySeq
    <1>4. DOMAIN names = 1..N /\ \A i \in 1..N : NamesAreLists(names[i])
        BY NamesAre
    <1>5. <<>> \o [ i \in DOMAIN occurrences |-> Names(profile, occurrences[i]) ] = names
        <2>1. names = [ i \in 1..N |-> names[i] ]
            OBVIOUS
        <2> HIDE DEF names
        <2>2. <<>> \o names = names
            BY <2>1, <1>3
        <2> QED BY <2>2, <1>2 DEF names
    <1> HIDE DEF names
    <1> DEFINE direct == [ i \in DOMAIN names |-> Resolve(index, profile, names[i], TRUE) ]
    <1> DEFINE cache == Cache(index, profile, names)
    <1> DEFINE emitted == [ i \in DOMAIN names |-> Cached(index, profile, cache, names[i]) ]
    <1> DEFINE unassisted == [ i \in DOMAIN names |-> Cached(index, profile, EmptyCache, names[i]) ]
    <1>6. <<>> \o direct = direct /\ <<>> \o emitted = emitted /\ <<>> \o unassisted = unassisted
        <2>1. direct = [ i \in 1..N |-> direct[i] ] /\ emitted = [ i \in 1..N |-> emitted[i] ]
              /\ unassisted = [ i \in 1..N |-> unassisted[i] ]
            BY <1>4
        <2> HIDE DEF direct, emitted, unassisted
        <2> QED BY <2>1, <1>3
    <1>7. \A m, k : Alike(m, k) <=> CacheKey(m) = CacheKey(k)
        BY DEF Alike, CacheKey
    <1>8. \A i \in 1..N : \E j \in 1..N : CacheKey(names[j]) = CacheKey(names[i]) /\ emitted[i] = direct[j]
        <2> SUFFICES ASSUME NEW i \in 1..N PROVE \E j \in 1..N : CacheKey(names[j]) = CacheKey(names[i]) /\ emitted[i] = direct[j]
            OBVIOUS
        <2> DEFINE key == CacheKey(names[i])
        <2> DEFINE same == { j \in DOMAIN names : CacheKey(names[j]) = key }
        <2> DEFINE first == CHOOSE j \in same : \A k \in same : j <= k
        <2>1. \E j \in same : \A k \in same : j <= k
            <3>1. same \in SUBSET Nat /\ same # {}
                BY <1>4
            <3> HIDE DEF same
            <3> QED BY <3>1, Least
        <2>2. first \in same
            BY <2>1
        <2>3. key \in DOMAIN cache.matches /\ cache.matches[key] = Resolve(index, profile, names[first], TRUE)
            <3>1. key \in { CacheKey(names[j]) : j \in DOMAIN names }
                BY <1>4
            <3> HIDE DEF key
            <3> QED BY <3>1 DEF Cache, Prepared
        <2>4. emitted[i] = cache.matches[key]
            BY <2>3, <1>4 DEF Cached
        <2> HIDE DEF first, cache, emitted
        <2> QED BY <2>2, <2>3, <2>4, <1>4
    <1>9. \A i, j \in 1..N : CacheKey(names[i]) = CacheKey(names[j]) => emitted[i] = emitted[j]
        <2> SUFFICES ASSUME NEW i \in 1..N, NEW j \in 1..N, CacheKey(names[i]) = CacheKey(names[j]) PROVE emitted[i] = emitted[j]
            OBVIOUS
        <2>1. \A k \in 1..N : CacheKey(names[k]) \in DOMAIN cache.matches
            BY <1>4 DEF Cache, Prepared
        <2>2. \A k \in 1..N : emitted[k] = cache.matches[CacheKey(names[k])]
            BY <2>1, <1>4 DEF Cached
        <2> HIDE DEF emitted, cache
        <2> QED BY <2>2
    <1>10. \A i \in 1..N : unassisted[i] = IF direct[i].method = "fuzzy" THEN Unmapped ELSE direct[i]
        <2> SUFFICES ASSUME NEW i \in 1..N PROVE unassisted[i] = IF direct[i].method = "fuzzy" THEN Unmapped ELSE direct[i]
            OBVIOUS
        <2>1. unassisted[i] = Resolve(index, profile, names[i], FALSE) /\ direct[i] = Resolve(index, profile, names[i], TRUE)
            BY <1>4 DEF Cached, EmptyCache
        <2> HIDE DEF unassisted, direct
        <2> QED BY <2>1, <1>1, <1>4, Unguessed
    <1>11. DOMAIN direct = 1..N /\ Taken(cache, asked) = IF asked \in {profile.id, "base"} THEN cache ELSE EmptyCache
        BY <1>4 DEF Taken, Cache
    <1> HIDE DEF direct, emitted, unassisted, cache
    <1>12. AnswersAlike(names, direct, emitted) /\ OnlyGuessesLost(direct, unassisted)
        BY <1>4, <1>7, <1>8, <1>9, <1>10, <1>11 DEF AnswersAlike, OnlyGuessesLost
    <1> DEFINE answers == [ i \in DOMAIN names |-> Cached(index, profile, Taken(cache, asked), names[i]) ]
    <1>13. answers = IF asked \in {profile.id, "base"} THEN emitted ELSE unassisted
        BY <1>11 DEF emitted, unassisted
    <1> HIDE DEF answers
    <1>14. <<>> \o answers = answers
        BY <1>6, <1>13
    <1>15. /\ IF asked \in {profile.id, "base"} THEN AnswersAlike(names, direct, answers) ELSE OnlyGuessesLost(direct, answers)
           /\ OnlyGuessesLost(direct, unassisted)
        BY <1>12, <1>13
    <1>16. ASSUME NEW pr, pr = profile, NEW ns, ns = names, NEW d, d = direct, NEW em, em = answers
           PROVE  /\ IF asked \in {pr.id, "base"} THEN AnswersAlike(ns, d, em) ELSE OnlyGuessesLost(d, em)
                  /\ OnlyGuessesLost(d, unassisted)
        BY <1>15, <1>16
    <1>17. /\ <<>> \o [ i \in DOMAIN names |-> Resolve(index, profile, names[i], TRUE) ] = direct
           /\ <<>> \o [ i \in DOMAIN names |-> Cached(index, profile, Taken(Cache(index, profile, names), asked), names[i]) ] = answers
           /\ <<>> \o [ i \in DOMAIN names |-> Cached(index, profile, EmptyCache, names[i]) ] = unassisted
        BY <1>6, <1>14 DEF direct, answers, unassisted, cache
    <1>18. <<>> \o [ i \in DOMAIN occurrences |-> Names(MergeOverlay(base, overlay), occurrences[i]) ] = names
           /\ profile = MergeOverlay(base, overlay)
        BY <1>5 DEF profile
    <1> HIDE DEF profile
    <1> QED BY <1>16, <1>17, <1>18 DEF FaithfulCache

------------------------------------------------------------------------------
(* Shared properties                                                        *)
ValueAt(level, x) == IF level = "L2" THEN SharedNode(x) ELSE SharedState(x)

LEMMA NodesTell ==
    ASSUME NEW x, NEW y, NEW level
    PROVE  /\ SharedNode(x) = SharedNode(y) => SharedState(x) = SharedState(y) /\ x.v = y.v /\ x.p.local = y.p.local
           /\ ValueAt(level, x) = ValueAt(level, y) => SharedNode(x) = SharedNode(y)
           /\ SharedNode(x)[2] = x.p.local
           /\ SharedNode(x) # SharedState(y)
           /\ SharedState(x) = SharedState(y) => SharedNode(x) = SharedNode(y)
    <1>1. "cp" # "cs"
        OBVIOUS
    <1> QED BY <1>1 DEF SharedNode, SharedState, ValueAt, Canonical, CanonicalState

LEMMA OccurrenceIs ==
    ASSUME NEW taken, NEW x
    PROVE  x \in Occurrences(taken) <=>
               \E i \in DOMAIN taken : \E j \in DOMAIN taken[i].sets : \E k \in DOMAIN taken[i].sets[j].props :
                   \E v \in BsddValues(taken[i].sets[j].props[k]) :
                       x = [ at |-> <<i, j, k>>, o |-> taken[i], set |-> taken[i].sets[j], p |-> taken[i].sets[j].props[k], v |-> v ]
    <1> DEFINE inProp(i, j, k) ==
            { [ at |-> <<i, j, k>>, o |-> taken[i], set |-> taken[i].sets[j], p |-> taken[i].sets[j].props[k], v |-> v ]
              : v \in BsddValues(taken[i].sets[j].props[k]) }
    <1> DEFINE inSet(i, j) == UNION { inProp(i, j, k) : k \in DOMAIN taken[i].sets[j].props }
    <1> DEFINE inObject(i) == UNION { inSet(i, j) : j \in DOMAIN taken[i].sets }
    <1>1. x \in Occurrences(taken) <=> \E i \in DOMAIN taken : x \in inObject(i)
        BY DEF Occurrences
    <1>2. \A i : x \in inObject(i) <=> \E j \in DOMAIN taken[i].sets : x \in inSet(i, j)
        OBVIOUS
    <1>3. \A i, j : x \in inSet(i, j) <=> \E k \in DOMAIN taken[i].sets[j].props : x \in inProp(i, j, k)
        OBVIOUS
    <1>4. \A i, j, k : x \in inProp(i, j, k) <=>
              \E v \in BsddValues(taken[i].sets[j].props[k]) :
                  x = [ at |-> <<i, j, k>>, o |-> taken[i], set |-> taken[i].sets[j], p |-> taken[i].sets[j].props[k], v |-> v ]
        OBVIOUS
    <1> HIDE DEF inProp, inSet, inObject
    <1> QED BY <1>1, <1>2, <1>3, <1>4

(* An occurrence stands at a place of its own in the file.                      *)
LEMMA OccurrenceParts ==
    ASSUME NEW taken, IsOrder(taken), NEW x \in Occurrences(taken)
    PROVE  x.at \in Nat \X Nat \X Nat
    <1>1. PICK i \in DOMAIN taken : \E j \in DOMAIN taken[i].sets : \E k \in DOMAIN taken[i].sets[j].props : x.at = <<i, j, k>>
        BY DEF Occurrences
    <1>2. PICK j \in DOMAIN taken[i].sets : \E k \in DOMAIN taken[i].sets[j].props : x.at = <<i, j, k>>
        BY <1>1
    <1>3. PICK k \in DOMAIN taken[i].sets[j].props : x.at = <<i, j, k>>
        BY <1>2
    <1> QED BY <1>3 DEF IsOrder

(* For each occurrence one has been the first to emit its node.                 *)
LEMMA SomeoneWasFirst ==
    ASSUME NEW taken, IsOrder(taken), NEW x \in Occurrences(taken)
    PROVE  \E y \in First(Occurrences(taken)) : SharedNode(y) = SharedNode(x)
    <1> DEFINE same == { y \in Occurrences(taken) : y.set.of = x.set.of /\ SharedNode(y) = SharedNode(x) }
    <1> DEFINE C == { y.at : y \in same }
    <1>1. C \in SUBSET (Nat \X Nat \X Nat) /\ C # {}
        BY OccurrenceParts
    <1>2. PICK c \in C : \A d \in C : Before(c, d)
        <2> HIDE DEF C
        <2> QED BY <1>1, FirstHit
    <1>3. PICK y \in same : y.at = c
        BY <1>2
    <1>4. ASSUME NEW z \in Occurrences(taken), Earlier(z.at, y.at), z.set.of = y.set.of, SharedNode(z) = SharedNode(y)
          PROVE  FALSE
        <2>1. z \in same
            BY <1>3, <1>4
        <2>2. Before(c, z.at)
            BY <2>1, <1>2
        <2>3. /\ c[1] \in Nat /\ c[2] \in Nat /\ c[3] \in Nat
              /\ z.at[1] \in Nat /\ z.at[2] \in Nat /\ z.at[3] \in Nat
            BY <1>1, OccurrenceParts
        <2> QED BY <2>2, <2>3, <1>3, <1>4 DEF Before, Earlier
    <1>5. y \in First(Occurrences(taken))
        BY <1>3, <1>4 DEF First
    <1> QED BY <1>3, <1>5

(* What the definition of an occurrence says.                                   *)
Telling(x, t) == \E told \in Told : \E m \in x.p.match[told] : t = <<SharedNode(x), told, <<m>>>>
Stating(level, x, t) ==
    \/ t = <<SharedNode(x), "a", <<"Property">>>>
    \/ t = <<SharedNode(x), "label", <<x.set.name, x.p.name>>>>
    \/ Telling(x, t)
    \/ t = <<ValueAt(level, x), "value", <<x.v>>>>
    \/ PropsUnit(x.p) # "" /\ t = <<ValueAt(level, x), "unit", <<PropsUnit(x.p)>>>>
    \/ level # "L2" /\ \/ t = <<SharedNode(x), "hasPropertyState", SharedState(x)>>
                       \/ t = <<SharedState(x), "a", <<"PropertyState">>>>
                       \/ t = <<SharedState(x), "a", <<"CurrentPropertyState">>>>

LEMMA DefinitionSays ==
    ASSUME NEW level, NEW x, NEW t
    PROVE  t \in Definition(level, x) <=> Stating(level, x, t)
    <1> DEFINE node == SharedNode(x)
    <1> DEFINE ofOne(told) == { <<node, told, <<m>>>> : m \in x.p.match[told] }
    <1>1. Matched(node, x.p.match) = UNION { ofOne(told) : told \in Told }
        BY DEF Matched
    <1>2. \A told : t \in ofOne(told) <=> \E m \in x.p.match[told] : t = <<node, told, <<m>>>>
        OBVIOUS
    <1> HIDE DEF ofOne
    <1>3. t \in Matched(node, x.p.match) <=> Telling(x, t)
        BY <1>1, <1>2 DEF Telling
    <1>4. t \in Valued(level, node, SharedState(x), x.v, PropsUnit(x.p)) <=>
              \/ t = <<ValueAt(level, x), "value", <<x.v>>>>
              \/ PropsUnit(x.p) # "" /\ t = <<ValueAt(level, x), "unit", <<PropsUnit(x.p)>>>>
              \/ level # "L2" /\ \/ t = <<node, "hasPropertyState", SharedState(x)>>
                                 \/ t = <<SharedState(x), "a", <<"PropertyState">>>>
                                 \/ t = <<SharedState(x), "a", <<"CurrentPropertyState">>>>
        BY DEF Valued, ValueAt
    <1>5. t \in Definition(level, x) <=>
              \/ t = <<node, "a", <<"Property">>>>
              \/ t = <<node, "label", <<x.set.name, x.p.name>>>>
              \/ t \in Matched(node, x.p.match)
              \/ t \in Valued(level, node, SharedState(x), x.v, PropsUnit(x.p))
        BY DEF Definition, Defined
    <1> QED BY <1>3, <1>4, <1>5 DEF Stating

LEMMA DefinitionsSay ==
    ASSUME NEW taken, NEW level, NEW t
    PROVE  /\ t \in Shared(taken, level).definitions <=> \E x \in First(Occurrences(taken)) : t \in Definition(level, x)
           /\ t \in Shared(taken, level).definitions <=> \E x \in First(Occurrences(taken)) : Stating(level, x, t)
    <1>1. t \in Shared(taken, level).definitions <=> \E x \in First(Occurrences(taken)) : t \in Definition(level, x)
        BY DEF Shared
    <1> QED BY <1>1, DefinitionSays

LEMMA SaidBy ==
    ASSUME NEW level, NEW x, NEW t, Stating(level, x, t)
    PROVE  /\ t[2] = "value" => t = <<ValueAt(level, x), "value", <<x.v>>>>
           /\ t[2] = "hasPropertyState" => t = <<SharedNode(x), "hasPropertyState", SharedState(x)>>
           /\ t[1] \in {SharedNode(x), SharedState(x)}
    <1>1. \A r, p, o : <<r, p, o>>[1] = r /\ <<r, p, o>>[2] = p
        OBVIOUS
    <1>2. "value" \notin Told \cup {"a", "label", "unit", "hasPropertyState"} /\ "hasPropertyState" \notin Told \cup {"a", "label", "unit"}
        BY DEF Told
    <1>0. ValueAt(level, x) \in {SharedNode(x), SharedState(x)}
        BY DEF ValueAt
    <1>3. CASE t = <<SharedNode(x), "a", <<"Property">>>>
        BY <1>1, <1>2, <1>3
    <1>4. CASE t = <<ValueAt(level, x), "value", <<x.v>>>>
        BY <1>0, <1>1, <1>2, <1>4
    <1>5. CASE PropsUnit(x.p) # "" /\ t = <<ValueAt(level, x), "unit", <<PropsUnit(x.p)>>>>
        BY <1>0, <1>1, <1>2, <1>5
    <1>6. CASE t = <<SharedNode(x), "hasPropertyState", SharedState(x)>>
        BY <1>1, <1>2, <1>6
    <1>7. CASE t = <<SharedState(x), "a", <<"PropertyState">>>>
        BY <1>1, <1>2, <1>7
    <1>8. CASE t = <<SharedState(x), "a", <<"CurrentPropertyState">>>>
        BY <1>1, <1>2, <1>8
    <1>9. CASE t = <<SharedNode(x), "label", <<x.set.name, x.p.name>>>>
        BY <1>1, <1>2, <1>9
    <1>10. CASE Telling(x, t)
        <2>1. PICK told \in Told : \E m \in x.p.match[told] : t = <<SharedNode(x), told, <<m>>>>
            BY <1>10 DEF Telling
        <2>2. PICK m \in x.p.match[told] : t = <<SharedNode(x), told, <<m>>>>
            BY <2>1
        <2> QED BY <2>2, <1>1, <1>2
    <1> QED BY <1>3, <1>4, <1>5, <1>6, <1>7, <1>8, <1>9, <1>10 DEF Stating

(* What a reader of the output makes of an occurrence.                          *)
Reading(x) == [ of |-> x.o.guid, name |-> x.p.local, value |-> x.v ]

LEMMA LinksRead ==
    ASSUME NEW taken, IsOrder(taken), NEW level
    PROVE  LET S == Shared(taken, level)
           IN  ReadAs(level, S.definitions, S.links) = { Reading(x) : x \in Occurrences(taken) }
    <1> DEFINE S == Shared(taken, level)
    <1> DEFINE G == S.definitions
    <1> DEFINE occ == Occurrences(taken)
    <1> DEFINE link(x) == <<<<x.o.guid>>, "hasProperty", SharedNode(x)>>
    <1> DEFINE read(l) == { [ of |-> l[1][1], name |-> l[3][2], value |-> t[3][1] ]
                            : t \in { x \in G : x[2] = "value" /\ x[1] \in ValueNode(level, G, l[3]) } }
    <1>1. S.links = { link(x) : x \in occ }
        BY DEF Shared
    <1>2. ReadAs(level, G, S.links) = UNION { read(l) : l \in { x \in S.links : x[2] = "hasProperty" } }
        BY DEF ReadAs
    <1>3. ASSUME NEW x \in occ PROVE ValueNode(level, G, SharedNode(x)) = {ValueAt(level, x)}
        <2>1. CASE level = "L2"
            BY <2>1 DEF ValueNode, ValueAt
        <2>2. CASE level # "L2"
            <3> DEFINE hps == { t \in G : t[1] = SharedNode(x) /\ t[2] = "hasPropertyState" }
            <3>1. PICK y \in First(occ) : SharedNode(y) = SharedNode(x)
                BY SomeoneWasFirst
            <3> DEFINE u == <<SharedNode(y), "hasPropertyState", SharedState(y)>>
            <3>2. u \in hps /\ u[3] = SharedState(x)
                <4>1. u[2] = "hasPropertyState" /\ u[1] = SharedNode(x) /\ u[3] = SharedState(y)
                    BY <3>1
                <4>2. SharedState(y) = SharedState(x)
                    BY <3>1, NodesTell
                <4>3. u \in G
                    <5>1. Stating(level, y, u)
                        BY <2>2 DEF Stating
                    <5> HIDE DEF u
                    <5> QED BY <5>1, <3>1, DefinitionsSay
                <4> QED BY <4>1, <4>2, <4>3
            <3>3. \A t \in hps : t[3] = SharedState(x)
                <4> SUFFICES ASSUME NEW t \in hps PROVE t[3] = SharedState(x)
                    OBVIOUS
                <4>0. PICK z \in First(occ) : Stating(level, z, t)
                    BY DefinitionsSay
                <4>1. t = <<SharedNode(z), "hasPropertyState", SharedState(z)>>
                    BY <4>0, SaidBy
                <4>2. SharedNode(z) = SharedNode(x)
                    BY <4>1
                <4> QED BY <4>1, <4>2, NodesTell
            <3>4. ValueNode(level, G, SharedNode(x)) = { t[3] : t \in hps }
                BY <2>2 DEF ValueNode
            <3> HIDE DEF hps, u
            <3> QED BY <3>2, <3>3, <3>4, <2>2 DEF ValueAt
        <2> QED BY <2>1, <2>2
    <1>4. ASSUME NEW x \in occ PROVE read(link(x)) = {Reading(x)}
        <2> DEFINE vals == { t \in G : t[2] = "value" /\ t[1] \in ValueNode(level, G, link(x)[3]) }
        <2> DEFINE rec(t) == [ of |-> link(x)[1][1], name |-> link(x)[3][2], value |-> t[3][1] ]
        <2> DEFINE v == <<ValueAt(level, x), "value", <<x.v>>>>
        <2>1. link(x)[3] = SharedNode(x) /\ link(x)[1][1] = x.o.guid /\ link(x)[3][2] = x.p.local
            BY NodesTell
        <2>2. \A t : t \in vals <=> t \in G /\ t[2] = "value" /\ t[1] = ValueAt(level, x)
            <3> HIDE DEF link
            <3> QED BY <2>1, <1>3
        <2>3. v \in G
            <3>1. PICK y \in First(occ) : SharedNode(y) = SharedNode(x)
                BY SomeoneWasFirst
            <3>2. v = <<ValueAt(level, y), "value", <<y.v>>>> /\ v[2] = "value"
                BY <3>1, NodesTell DEF ValueAt
            <3>3. Stating(level, y, v)
                BY <3>2 DEF Stating
            <3> HIDE DEF v
            <3> QED BY <3>1, <3>3, DefinitionsSay
        <2>4. \A t \in vals : t = v
            <3> SUFFICES ASSUME NEW t \in vals PROVE t = v
                OBVIOUS
            <3>1. t \in G /\ t[2] = "value" /\ t[1] = ValueAt(level, x)
                BY <2>2
            <3>0. PICK y \in First(occ) : Stating(level, y, t)
                BY <3>1, DefinitionsSay
            <3>2. t = <<ValueAt(level, y), "value", <<y.v>>>>
                BY <3>0, <3>1, SaidBy
            <3>3. ValueAt(level, y) = ValueAt(level, x)
                BY <3>1, <3>2
            <3>4. y.v = x.v
                BY <3>3, NodesTell
            <3> QED BY <3>2, <3>3, <3>4
        <2>5. v \in vals
            BY <2>2, <2>3
        <2>6. rec(v) = Reading(x)
            <3>1. v[3][1] = x.v /\ v[1] = ValueAt(level, x)
                OBVIOUS
            <3> HIDE DEF v, link
            <3> QED BY <3>1, <2>1 DEF Reading
        <2>7. read(link(x)) = { rec(t) : t \in vals }
            OBVIOUS
        <2> HIDE DEF v, vals, rec, read
        <2> QED BY <2>4, <2>5, <2>6, <2>7
    <1>5. \A x \in occ : link(x)[2] = "hasProperty"
        OBVIOUS
    <1> HIDE DEF S, read, link
    <1>6. { l \in S.links : l[2] = "hasProperty" } = { link(x) : x \in occ }
        BY <1>1, <1>5
    <1>7. ReadAs(level, G, S.links) = { Reading(x) : x \in occ }
        BY <1>2, <1>4, <1>6
    <1> QED BY <1>7 DEF S

(* What the file states, occurrence by occurrence.                              *)
LEMMA FileStates ==
    ASSUME NEW model, NEW taken, Elem(taken) = Elem(model)
    PROVE  InFile(model) = { Reading(x) : x \in Occurrences(taken) }
    <1> DEFINE ofProp(o, p) == { [ of |-> o.guid, name |-> p.local, value |-> v ] : v \in BsddValues(p) }
    <1> DEFINE ofSet(o, set) == UNION { ofProp(o, p) : p \in Elem(set.props) }
    <1> DEFINE ofObject(o) == UNION { ofSet(o, set) : set \in Elem(o.sets) }
    <1>i. InFile(model) = UNION { ofObject(o) : o \in Elem(model) }
        BY DEF InFile
    <1>o. \A o, s : s \in ofObject(o) <=> \E set \in Elem(o.sets) : s \in ofSet(o, set)
        OBVIOUS
    <1>s. \A o, set, s : s \in ofSet(o, set) <=> \E p \in Elem(set.props) : s \in ofProp(o, p)
        OBVIOUS
    <1>p. \A o, p, s : s \in ofProp(o, p) <=> \E v \in BsddValues(p) : s = [ of |-> o.guid, name |-> p.local, value |-> v ]
        OBVIOUS
    <1> HIDE DEF ofObject, ofSet, ofProp
    <1>1. ASSUME NEW s \in InFile(model) PROVE \E x \in Occurrences(taken) : s = Reading(x)
        <2>1. PICK o \in Elem(model) : s \in ofObject(o)
            BY <1>1, <1>i
        <2>a. PICK set \in Elem(o.sets) : s \in ofSet(o, set)
            BY <2>1, <1>o
        <2>b. PICK p \in Elem(set.props) : s \in ofProp(o, p)
            BY <2>a, <1>s
        <2>2. PICK v \in BsddValues(p) : s = [ of |-> o.guid, name |-> p.local, value |-> v ]
            BY <2>b, <1>p
        <2>3. PICK i \in DOMAIN taken : o = taken[i]
            BY DEF Elem
        <2>4. PICK j \in DOMAIN o.sets : set = o.sets[j]
            BY DEF Elem
        <2>5. PICK k \in DOMAIN set.props : p = set.props[k]
            BY DEF Elem
        <2> DEFINE x == [ at |-> <<i, j, k>>, o |-> o, set |-> set, p |-> p, v |-> v ]
        <2>6. x \in Occurrences(taken)
            <3>1. o = taken[i] /\ set = taken[i].sets[j] /\ p = taken[i].sets[j].props[k]
                BY <2>3, <2>4, <2>5
            <3>2. k \in DOMAIN taken[i].sets[j].props /\ j \in DOMAIN taken[i].sets /\ v \in BsddValues(taken[i].sets[j].props[k])
                BY <2>2, <2>3, <2>4, <2>5
            <3>3. x = [ at |-> <<i, j, k>>, o |-> taken[i], set |-> taken[i].sets[j], p |-> taken[i].sets[j].props[k], v |-> v ]
                BY <3>1
            <3> HIDE DEF x
            <3> QED BY <3>2, <3>3, OccurrenceIs
        <2>7. s = Reading(x)
            BY <2>2 DEF Reading
        <2> QED BY <2>6, <2>7
    <1>2. ASSUME NEW x \in Occurrences(taken) PROVE Reading(x) \in InFile(model)
        <2> DEFINE is(i, j, k, v) == x = [ at |-> <<i, j, k>>, o |-> taken[i], set |-> taken[i].sets[j], p |-> taken[i].sets[j].props[k], v |-> v ]
        <2>a. PICK i \in DOMAIN taken : \E j \in DOMAIN taken[i].sets : \E k \in DOMAIN taken[i].sets[j].props :
                  \E v \in BsddValues(taken[i].sets[j].props[k]) : is(i, j, k, v)
            BY <1>2, OccurrenceIs
        <2>b. PICK j \in DOMAIN taken[i].sets : \E k \in DOMAIN taken[i].sets[j].props :
                  \E v \in BsddValues(taken[i].sets[j].props[k]) : is(i, j, k, v)
            BY <2>a
        <2>1. PICK k \in DOMAIN taken[i].sets[j].props : \E v \in BsddValues(taken[i].sets[j].props[k]) : is(i, j, k, v)
            BY <2>b
        <2>2. x.o = taken[i] /\ x.set = x.o.sets[j] /\ x.p = x.set.props[k] /\ x.v \in BsddValues(x.p)
            BY <2>1
        <2>3. x.o \in Elem(model) /\ x.set \in Elem(x.o.sets) /\ x.p \in Elem(x.set.props)
            BY <2>1, <2>2 DEF Elem
        <2>4. Reading(x) \in ofProp(x.o, x.p)
            BY <2>2, <1>p DEF Reading
        <2>5. Reading(x) \in ofObject(x.o)
            BY <2>3, <2>4, <1>o, <1>s
        <2> QED BY <2>3, <2>5, <1>i
    <1> QED BY <1>1, <1>2

(* A node says what the first of those who share it says, and all that is said  *)
(* of it comes from some that share it.                                         *)
LEMMA NodesSay ==
    ASSUME NEW taken, IsOrder(taken), NEW level, NEW x \in Occurrences(taken)
    PROVE  LET G == Shared(taken, level).definitions
               occ == Occurrences(taken)
           IN  /\ \E y \in Sharers(occ, x) : Definition(level, y) \subseteq SaidOf(G, x)
               /\ SaidOf(G, x) \subseteq UNION { Definition(level, y) : y \in Sharers(occ, x) }
    <1> DEFINE G == Shared(taken, level).definitions
    <1> DEFINE occ == Occurrences(taken)
    <1>1. First(occ) \subseteq occ
        BY DEF First
    <1>2. PICK f \in First(occ) : SharedNode(f) = SharedNode(x)
        BY SomeoneWasFirst
    <1>3. f \in Sharers(occ, x) /\ SharedState(f) = SharedState(x)
        BY <1>1, <1>2, NodesTell DEF Sharers
    <1>4. ASSUME NEW t \in Definition(level, f) PROVE t \in SaidOf(G, x)
        <2>1. t \in G
            BY <1>4, DefinitionsSay
        <2>2. t[1] \in {SharedNode(f), SharedState(f)}
            BY DefinitionSays, SaidBy
        <2> HIDE DEF G
        <2> QED BY <2>1, <2>2, <1>2, <1>3 DEF SaidOf
    <1>5. ASSUME NEW t \in SaidOf(G, x) PROVE \E y \in Sharers(occ, x) : t \in Definition(level, y)
        <2>1. t \in G /\ t[1] \in {SharedNode(x), SharedState(x)}
            BY <1>5 DEF SaidOf
        <2>2. PICK y \in First(occ) : t \in Definition(level, y)
            BY <2>1, DefinitionsSay
        <2>3. t[1] \in {SharedNode(y), SharedState(y)}
            BY <2>2, DefinitionSays, SaidBy
        <2>4. SharedNode(y) = SharedNode(x)
            BY <2>1, <2>3, NodesTell
        <2>5. y \in Sharers(occ, x)
            BY <2>4, <1>1 DEF Sharers
        <2> QED BY <2>2, <2>5
    <1> HIDE DEF G, occ
    <1>6. Definition(level, f) \subseteq SaidOf(G, x)
        BY <1>4
    <1>7. SaidOf(G, x) \subseteq UNION { Definition(level, y) : y \in Sharers(occ, x) }
        BY <1>5
    <1> QED BY <1>3, <1>6, <1>7 DEF G, occ

(* Whichever thread comes first, sharing changes no value that the file states: *)
(* for every model, every order of its objects and either level, each object is *)
(* linked to its values, each is defined and contained in a set, and a node     *)
(* says all that one of those who share it would say and nothing that none of   *)
(* them would: unit, label and match are those of some, not of each             *)
(* (emit_property with dedup_properties).                                       *)
THEOREM SharingIsAlwaysNeutral ==
    \A model, taken, level :
        IsOrder(taken) /\ Elem(taken) = Elem(model) => SharingIsNeutral(model, taken, level)
    <1> SUFFICES ASSUME NEW model, NEW taken, NEW level, IsOrder(taken), Elem(taken) = Elem(model)
                 PROVE  SharingIsNeutral(model, taken, level)
        OBVIOUS
    <1> DEFINE S == Shared(taken, level)
    <1> DEFINE occ == Occurrences(taken)
    <1>1. ReadAs(level, S.definitions, S.links) = { Reading(x) : x \in occ }
        BY LinksRead
    <1>2. InFile(model) = { Reading(x) : x \in occ }
        BY FileStates
    <1>3. \A x \in occ : /\ \E y \in Sharers(occ, x) : Definition(level, y) \subseteq SaidOf(S.definitions, x)
                         /\ SaidOf(S.definitions, x) \subseteq UNION { Definition(level, y) : y \in Sharers(occ, x) }
        BY NodesSay
    <1>4. \A l \in S.links : \E c \in S.contained : c[3] = l[3]
        <2> SUFFICES ASSUME NEW l \in S.links PROVE \E c \in S.contained : c[3] = l[3]
            OBVIOUS
        <2>1. PICK x \in occ : l = <<<<x.o.guid>>, "hasProperty", SharedNode(x)>>
            BY DEF Shared
        <2> DEFINE c == <<<<"cps", x.set.name, Content(x.set)>>, Containing(x.set), SharedNode(x)>>
        <2>2. c \in S.contained
            BY <2>1 DEF Shared
        <2>3. c[3] = l[3]
            BY <2>1
        <2> HIDE DEF c, S
        <2> QED BY <2>2, <2>3
    <1> HIDE DEF S, occ
    <1> QED BY <1>1, <1>2, <1>3, <1>4 DEF SharingIsNeutral, S, occ

------------------------------------------------------------------------------
(* Two modules, one node                                                    *)
(* What a module states: a value, and its unit, of a node and its state.    *)
Statement(local, guid, scope, value, unit) ==
    [ property |-> PropertyNode(local, guid, scope), state |-> StateNode(local, guid, scope, value), value |-> value, unit |-> unit ]
IsStatement(s) == \E local, guid, scope, value, unit : s = Statement(local, guid, scope, value, unit)
AsTriples(level, s) == Valued(level, s.property, s.state, s.value, s.unit)
OfValues(G) == { t \in G : t[2] \in Predicates }
(* A graph has the values of statements, and no others.                     *)
Writes(G, X, level) == \A t : t \in OfValues(G) <=> t[2] \in Predicates /\ \E s \in X : t \in AsTriples(level, s)
(* What is stated of a value is also in Y, and so are the units of nodes.   *)
AlsoStated(X, Y, v) ==
    \A s \in X : /\ IsStatement(s)
                /\ (s.value = v => s \in Y)
                /\ (s.unit # "" => \E r \in Y : r.property = s.property /\ r.unit = s.unit)
OfProperty(o, set, p, v) == Statement(p.local, o.guid, Scope(set), v, PropsUnit(p))
OfAttribute(o, a, v) == Statement(PropsAttributeName(o, a), o.guid, Scoped, v, IF a \in LengthAttributes THEN o.length ELSE "")
Written(o) == { a \in DOMAIN o.attrs : PropsWrites(o, a) }
PropsStates(model) ==
    (UNION { UNION { UNION { { OfProperty(o, set, p, v) : v \in PropsValues(p) } : p \in Elem(set.props) } : set \in Elem(o.sets) }
            : o \in Elem(model) })
    \cup (UNION { { OfAttribute(o, a, PropsText(a, o.attrs[a])) : a \in Written(o) } : o \in Elem(model) })
BsddStates(model) ==
    (UNION { UNION { UNION { { OfProperty(o, set, p, v) : v \in BsddValues(p) } : p \in Elem(set.props) } : set \in Elem(o.sets) }
            : o \in Elem(model) })
    \cup (UNION { { OfAttribute(o, a, o.attrs[a].text) : a \in Written(o) } : o \in Elem(model) })

(* ----- statements as triples ---------------------------------------------- *)
LEMMA StatementParts ==
    ASSUME NEW s, NEW r, IsStatement(s), IsStatement(r)
    PROVE  /\ s.state = r.state => s.value = r.value
           /\ s.state # r.property
           /\ \A w : s.state # <<w>>
    <1>1. PICK local, guid, scope, value, unit : s = Statement(local, guid, scope, value, unit)
        BY DEF IsStatement
    <1>2. PICK local2, guid2, scope2, value2, unit2 : r = Statement(local2, guid2, scope2, value2, unit2)
        BY DEF IsStatement
    <1> DEFINE n == StateNode(local, guid, scope, value)
    <1> DEFINE m == StateNode(local2, guid2, scope2, value2)
    <1> DEFINE q == PropertyNode(local2, guid2, scope2)
    <1>3. s.state = n /\ s.value = value /\ r.state = m /\ r.value = value2 /\ r.property = q
        BY <1>1, <1>2 DEF Statement
    <1>4. n[1] = "s" /\ q[1] = "p" /\ n[5] = value /\ m[5] = value2 /\ Len(n) = 5
        BY DEF StateNode, PropertyNode
    <1>5. \A w : <<w>> # n
        <2> TAKE w
        <2> DEFINE one == <<w>>
        <2>1. Len(one) = 1
            OBVIOUS
        <2> HIDE DEF one, n, m, q
        <2>2. one # n
            BY <2>1, <1>4
        <2> QED BY <2>2 DEF one
    <1> HIDE DEF n, m, q
    <1>6. n # q /\ (n = m => value = value2)
        BY <1>4
    <1> QED BY <1>3, <1>5, <1>6

LEMMA PartsOfTriples ==
    ASSUME NEW level, NEW s, NEW t
    PROVE  t[2] \in Predicates /\ t \in AsTriples(level, s) <=>
              \/ t = <<IF level = "L2" THEN s.property ELSE s.state, "value", <<s.value>>>>
              \/ s.unit # "" /\ t = <<IF level = "L2" THEN s.property ELSE s.state, "unit", <<s.unit>>>>
              \/ level # "L2" /\ t = <<s.property, "hasPropertyState", s.state>>
    <1> DEFINE node == IF level = "L2" THEN s.property ELSE s.state
    <1>1. \A x, y : <<x, "value", y>>[2] \in Predicates /\ <<x, "unit", y>>[2] \in Predicates
                    /\ <<x, "hasPropertyState", y>>[2] \in Predicates /\ <<x, "a", y>>[2] \notin Predicates
        BY DEF Predicates
    <1>2. t \in AsTriples(level, s) <=>
              \/ t = <<node, "value", <<s.value>>>>
              \/ s.unit # "" /\ t = <<node, "unit", <<s.unit>>>>
              \/ level # "L2" /\ \/ t = <<s.property, "hasPropertyState", s.state>>
                                 \/ t = <<s.state, "a", <<"PropertyState">>>>
                                 \/ t = <<s.state, "a", <<"CurrentPropertyState">>>>
        BY DEF AsTriples, Valued
    <1> HIDE DEF node
    <1>3. t[2] \in Predicates /\ t \in AsTriples(level, s) <=>
              \/ t = <<node, "value", <<s.value>>>>
              \/ s.unit # "" /\ t = <<node, "unit", <<s.unit>>>>
              \/ level # "L2" /\ t = <<s.property, "hasPropertyState", s.state>>
        BY <1>1, <1>2
    <1> QED BY <1>3 DEF node

(* A value all of whose statements in X are in Y is told by the graph of Y  *)
(* as by that of X, where what Y says of a node has the units X gives it.   *)
LEMMA AboutWritten ==
    ASSUME NEW X, NEW Y, NEW level, NEW G, NEW H, NEW v, Writes(G, X, level), Writes(H, Y, level), AlsoStated(X, Y, v)
    PROVE  About(G, v) \subseteq About(H, v)
    <1> DEFINE at(s) == IF level = "L2" THEN s.property ELSE s.state
    <1> DEFINE Tells(s, t) ==
              \/ t = <<at(s), "value", <<s.value>>>>
              \/ s.unit # "" /\ t = <<at(s), "unit", <<s.unit>>>>
              \/ level # "L2" /\ t = <<s.property, "hasPropertyState", s.state>>
    <1>1. \A s, t : t[2] \in Predicates /\ t \in AsTriples(level, s) <=> Tells(s, t)
        BY PartsOfTriples
    <1>2. \A t : t \in OfValues(G) <=> \E s \in X : Tells(s, t)
        <2> HIDE DEF Tells
        <2> QED BY <1>1 DEF Writes
    <1>3. \A t : t \in OfValues(H) <=> \E s \in Y : Tells(s, t)
        <2> HIDE DEF Tells
        <2> QED BY <1>1 DEF Writes
    <1>4. \A K, t : t \in OfValues(K) <=> t \in K /\ t[2] \in Predicates
        BY DEF OfValues
    <1>5. \A s, r \in X : s.state # r.property /\ (s.state = r.state => s.value = r.value)
        BY StatementParts DEF AlsoStated
    <1>6. \A s \in X : \A w : s.state # <<w>>
        BY StatementParts DEF AlsoStated
    <1>7. SUFFICES ASSUME NEW t \in About(G, v) PROVE t \in About(H, v)
        OBVIOUS
    <1>8. /\ t \in OfValues(G)
          /\ \/ t[2] = "value" /\ t[3] = <<v>>
             \/ t[2] # "value" /\ \E u \in G : u[2] = "value" /\ u[3] = <<v>> /\ u[1] \in {t[1], t[3]}
        BY <1>7 DEF About, OfValues, Predicates
    <1>9. \A u : u \in G /\ u[2] = "value" /\ u[3] = <<v>> => \E s \in Y : s \in X /\ s.value = v /\ u = <<at(s), "value", <<v>>>> /\ u \in OfValues(H)
        <2> SUFFICES ASSUME NEW u \in G, u[2] = "value", u[3] = <<v>>
                     PROVE  \E s \in Y : s \in X /\ s.value = v /\ u = <<at(s), "value", <<v>>>> /\ u \in OfValues(H)
            OBVIOUS
        <2>1. u \in OfValues(G)
            BY DEF OfValues, Predicates
        <2>2. PICK s \in X : Tells(s, u)
            <3> HIDE DEF Tells
            <3> QED BY <2>1, <1>2
        <2>3. u = <<at(s), "value", <<s.value>>>>
            <3> HIDE DEF at
            <3> DEFINE ofUnit == <<at(s), "unit", <<s.unit>>>>
            <3> DEFINE ofState == <<s.property, "hasPropertyState", s.state>>
            <3>1. ofUnit[2] # "value" /\ ofState[2] # "value"
                OBVIOUS
            <3>2. u # ofUnit /\ u # ofState
                <4> HIDE DEF ofUnit, ofState
                <4> QED BY <3>1
            <3> QED BY <2>2, <3>2
        <2>4. s.value = v
            <3> HIDE DEF at
            <3> QED BY <2>3
        <2>5. Tells(s, u) /\ s \in Y
            BY <2>3, <2>4 DEF AlsoStated
        <2>6. u \in OfValues(H)
            <3> HIDE DEF Tells
            <3> QED BY <2>5, <1>3
        <2> QED BY <2>3, <2>4, <2>5, <2>6
    <1>10. CASE t[2] = "value"
        <2>1. t \in OfValues(H)
            BY <1>8, <1>9, <1>4, <1>10
        <2> QED BY <2>1, <1>8, <1>10 DEF About, OfValues, Predicates
    <1>11. CASE t[2] # "value"
        <2>1. PICK u \in G : u[2] = "value" /\ u[3] = <<v>> /\ u[1] \in {t[1], t[3]}
            BY <1>8, <1>11
        <2>2. PICK s \in Y : s \in X /\ s.value = v /\ u = <<at(s), "value", <<v>>>> /\ u \in OfValues(H)
            BY <2>1, <1>9
        <2>3. u[1] = at(s)
            <3> HIDE DEF at
            <3> QED BY <2>2
        <2>4. PICK r \in X : Tells(r, t)
            <3> HIDE DEF Tells
            <3> QED BY <1>8, <1>2
        <2>5. t # <<at(r), "value", <<r.value>>>>
            <3> DEFINE ofValue == <<at(r), "value", <<r.value>>>>
            <3>1. ofValue[2] = "value"
                OBVIOUS
            <3> HIDE DEF ofValue
            <3>2. t # ofValue
                BY <3>1, <1>11
            <3> QED BY <3>2 DEF ofValue
        <2>6. t \in OfValues(H)
            <3>1. CASE level = "L2"
                <4>1. r.unit # "" /\ t = <<r.property, "unit", <<r.unit>>>>
                    BY <2>4, <2>5, <3>1
                <4>2. PICK q \in Y : q.property = r.property /\ q.unit = r.unit
                    BY <4>1 DEF AlsoStated
                <4>3. Tells(q, t)
                    BY <4>1, <4>2, <3>1
                <4> HIDE DEF Tells
                <4> QED BY <4>3, <1>3
            <3>2. CASE level # "L2"
                <4>1. s.state \in {t[1], t[3]}
                    BY <2>1, <2>3, <3>2
                <4>2. r.state = s.state
                    <5>1. CASE t = <<r.state, "unit", <<r.unit>>>>
                        <6>1. t[1] = r.state /\ t[3] = <<r.unit>>
                            BY <5>1
                        <6> QED BY <6>1, <4>1, <1>6, <2>2
                    <5>2. CASE t = <<r.property, "hasPropertyState", r.state>>
                        <6>1. t[1] = r.property /\ t[3] = r.state
                            BY <5>2
                        <6> QED BY <6>1, <4>1, <1>5, <2>2
                    <5> QED BY <5>1, <5>2, <2>4, <2>5, <3>2
                <4>3. r \in Y
                    BY <4>2, <1>5, <2>2 DEF AlsoStated
                <4> HIDE DEF Tells
                <4> QED BY <4>3, <2>4, <1>3
            <3> QED BY <3>1, <3>2
        <2>7. u \in H /\ t \in H /\ t[2] \in Predicates
            BY <2>2, <2>6, <1>4
        <2> QED BY <2>1, <2>7, <1>11 DEF About, Predicates
    <1> QED BY <1>10, <1>11

(* ----- the statements of each module -------------------------------------- *)
LEMMA AsOfValues ==
    ASSUME NEW level, NEW local, NEW guid, NEW scope, NEW value, NEW unit
    PROVE  AsTriples(level, Statement(local, guid, scope, value, unit)) =
           Valued(level, PropertyNode(local, guid, scope), StateNode(local, guid, scope, value), value, unit)
    BY DEF AsTriples, Statement

LEMMA PropertyTriples ==
    ASSUME NEW level, NEW o, NEW set, NEW p, NEW t
    PROVE  /\ t \in OfValues(PropsOf(level, o, set, p)) <=>
                  t[2] \in Predicates /\ \E v \in PropsValues(p) : t \in AsTriples(level, OfProperty(o, set, p, v))
           /\ t \in OfValues(BsddOf(level, o, set, p)) <=>
                  t[2] \in Predicates /\ \E v \in BsddValues(p) : t \in AsTriples(level, OfProperty(o, set, p, v))
    <1> DEFINE node == PropertyNode(p.local, o.guid, Scope(set))
    <1> DEFINE setNode == <<set.of, BsddScope(set), o.guid>>
    <1> DEFINE linked == { <<<<o.guid>>, "props", node>>, <<node, "a", <<"Property">>>>, <<node, "label", PropsLabel(set, p)>> }
    <1> DEFINE contained == { <<<<o.guid>>, "hasProperty", node>>, <<setNode, Containing(set), node>> }
    <1> DEFINE typed == { <<node, "a", <<"Property">>>>, <<node, "label", <<set.name, p.name>>>> } \cup Matched(node, p.match)
    <1> DEFINE of(v) == AsTriples(level, OfProperty(o, set, p, v))
    <1>1. \A v : of(v) = Valued(level, node, StateNode(p.local, o.guid, Scope(set), v), v, PropsUnit(p))
        BY AsOfValues DEF OfProperty
    <1>2. \A x \in linked : x[2] \notin Predicates
        <2>1. "a" \notin Predicates /\ "label" \notin Predicates /\ "props" \notin Predicates
            BY DEF Predicates
        <2> HIDE DEF node
        <2> QED BY <2>1
    <1>3. \A x \in contained \cup typed : x[2] \notin Predicates
        <2>1. "a" \notin Predicates /\ "label" \notin Predicates /\ "hasProperty" \notin Predicates /\ Containing(set) \notin Predicates
            BY DEF Containing, Predicates
        <2>2. \A told \in Told : told \notin Predicates
            BY DEF Told, Predicates
        <2> HIDE DEF node, setNode
        <2>3. \A x \in Matched(node, p.match) : x[2] \in Told
            BY DEF Matched
        <2> QED BY <2>1, <2>2, <2>3
    <1>4. PropsOf(level, o, set, p) = UNION { linked \cup of(v) : v \in PropsValues(p) }
        <2> HIDE DEF of
        <2> QED BY <1>1 DEF PropsOf
    <1>5. BsddOf(level, o, set, p) = UNION { contained \cup (typed \cup of(v)) : v \in BsddValues(p) }
        <2> HIDE DEF of
        <2> QED BY <1>1 DEF BsddOf, Defined, BsddScope
    <1> HIDE DEF linked, contained, typed, of
    <1>6. t \in OfValues(PropsOf(level, o, set, p)) <=> t[2] \in Predicates /\ \E v \in PropsValues(p) : t \in of(v)
        BY <1>2, <1>4 DEF OfValues
    <1>7. t \in OfValues(BsddOf(level, o, set, p)) <=> t[2] \in Predicates /\ \E v \in BsddValues(p) : t \in of(v)
        BY <1>3, <1>5 DEF OfValues
    <1> QED BY <1>6, <1>7 DEF of

LEMMA AttributeTriples ==
    ASSUME NEW level, NEW o, NEW a, NEW t
    PROVE  /\ t \in OfValues(PropsAttribute(level, o, a)) <=>
                  t[2] \in Predicates /\ t \in AsTriples(level, OfAttribute(o, a, PropsText(a, o.attrs[a])))
           /\ t \in OfValues(BsddAttribute(level, o, a)) <=>
                  t[2] \in Predicates /\ t \in AsTriples(level, OfAttribute(o, a, o.attrs[a].text))
    <1> DEFINE local == PropsAttributeName(o, a)
    <1> DEFINE node == PropertyNode(local, o.guid, Scoped)
    <1> DEFINE of(v) == AsTriples(level, OfAttribute(o, a, v))
    <1> DEFINE ofProps == { <<<<local>>, "a", <<"owl:ObjectProperty">>>>, <<<<local>>, "comment", <<local>>>>,
                            <<<<o.guid>>, "props", node>>, <<node, "a", <<"Property">>>> }
    <1> DEFINE ofBsdd == { <<<<o.guid>>, "hasProperty", node>>, <<node, "a", <<"Property">>>>, <<node, "a", <<"StandardAttribute">>>>,
                           <<node, "label", <<local>>>> }
    <1>1. \A v : of(v) = Valued(level, node, StateNode(local, o.guid, Scoped, v), v, IF a \in LengthAttributes THEN o.length ELSE "")
        <2> DEFINE unit == IF a \in LengthAttributes THEN o.length ELSE ""
        <2>1. \A v : OfAttribute(o, a, v) = Statement(local, o.guid, Scoped, v, unit)
            BY DEF OfAttribute
        <2> HIDE DEF local, unit
        <2>2. \A v : of(v) = Valued(level, PropertyNode(local, o.guid, Scoped), StateNode(local, o.guid, Scoped, v), v, unit)
            BY <2>1, AsOfValues
        <2> QED BY <2>2 DEF unit
    <1>2. BsddAttributeName(o, a) = local
        BY DEF BsddAttributeName, PropsAttributeName
    <1>3. PropsAttribute(level, o, a) = ofProps \cup of(PropsText(a, o.attrs[a]))
        <2> HIDE DEF of
        <2> QED BY <1>1 DEF PropsAttribute
    <1>4. BsddAttribute(level, o, a) = ofBsdd \cup of(o.attrs[a].text)
        <2> HIDE DEF of
        <2> QED BY <1>1, <1>2 DEF BsddAttribute
    <1> HIDE DEF local, node, of
    <1>5. \A x \in ofProps \cup ofBsdd : x[2] \notin Predicates
        <2>1. "a" \notin Predicates /\ "hasProperty" \notin Predicates /\ "label" \notin Predicates /\ "comment" \notin Predicates
              /\ "props" \notin Predicates
            BY DEF Predicates
        <2> QED BY <2>1
    <1> HIDE DEF ofProps, ofBsdd
    <1>6. t \in OfValues(PropsAttribute(level, o, a)) <=> t[2] \in Predicates /\ t \in of(PropsText(a, o.attrs[a]))
        BY <1>3, <1>5 DEF OfValues
    <1>7. t \in OfValues(BsddAttribute(level, o, a)) <=> t[2] \in Predicates /\ t \in of(o.attrs[a].text)
        BY <1>4, <1>5 DEF OfValues
    <1> QED BY <1>6, <1>7 DEF of

LEMMA SameAttributes ==
    ASSUME NEW o
    PROVE  (IF o.kind = "spatial" THEN BsddSpatial(o) ELSE BsddElement(o)) = Written(o)
    <1>1. BsddSpatial(o) \subseteq DOMAIN o.attrs /\ BsddElement(o) \subseteq DOMAIN o.attrs /\ Written(o) \subseteq DOMAIN o.attrs
        BY DEF BsddSpatial, BsddElement, Written
    <1>2. ASSUME NEW a \in DOMAIN o.attrs
          PROVE  a \in (IF o.kind = "spatial" THEN BsddSpatial(o) ELSE BsddElement(o)) <=> a \in Written(o)
        BY DEF Written, PropsWrites, BsddSpatial, BsddElement
    <1> QED BY <1>1, <1>2

LEMMA SameValues ==
    ASSUME NEW p, NEW v, \A x \in Elem(p.values) : v \in {x.raw, x.text} \/ PropsUnit(p) # "" => AsItIs(p, x)
    PROVE  /\ v \in PropsValues(p) <=> v \in BsddValues(p)
           /\ PropsUnit(p) # "" => PropsValues(p) = BsddValues(p)
    <1>1. CASE p.form = "single"
        BY <1>1 DEF AsItIs, PropsValues, BsddValues, PropsUnit
    <1>2. CASE p.form # "single"
        <2>1. \A x \in Elem(p.values) : v \in {x.raw, x.text} => x.raw = x.text /\ x.raw # ""
            BY <1>2 DEF AsItIs
        <2>2. v \in PropsValues(p) <=> \E x \in Elem(p.values) : x.text # "" /\ v = x.text
            BY <1>2 DEF PropsValues
        <2>3. v \in BsddValues(p) <=> \E x \in Elem(p.values) : v = x.raw
            BY <1>2 DEF BsddValues
        <2> QED BY <2>1, <2>2, <2>3, <1>2 DEF PropsUnit
    <1> QED BY <1>1, <1>2

LEMMA ElementsStated ==
    ASSUME NEW model, NEW s
    PROVE  /\ s \in PropsStates(model) <=>
                  \/ \E o \in Elem(model) : \E set \in Elem(o.sets) : \E p \in Elem(set.props) : \E v \in PropsValues(p) :
                        s = OfProperty(o, set, p, v)
                  \/ \E o \in Elem(model) : \E a \in Written(o) : s = OfAttribute(o, a, PropsText(a, o.attrs[a]))
           /\ s \in BsddStates(model) <=>
                  \/ \E o \in Elem(model) : \E set \in Elem(o.sets) : \E p \in Elem(set.props) : \E v \in BsddValues(p) :
                        s = OfProperty(o, set, p, v)
                  \/ \E o \in Elem(model) : \E a \in Written(o) : s = OfAttribute(o, a, o.attrs[a].text)
    <1>1. s \in PropsStates(model) <=>
              \/ \E o \in Elem(model) : \E set \in Elem(o.sets) : \E p \in Elem(set.props) : \E v \in PropsValues(p) :
                    s = OfProperty(o, set, p, v)
              \/ \E o \in Elem(model) : \E a \in Written(o) : s = OfAttribute(o, a, PropsText(a, o.attrs[a]))
        <2> DEFINE ofProperty(o, set, p) == { OfProperty(o, set, p, v) : v \in PropsValues(p) }
        <2> DEFINE ofSet(o, set) == UNION { ofProperty(o, set, p) : p \in Elem(set.props) }
        <2> DEFINE ofSets(o) == UNION { ofSet(o, set) : set \in Elem(o.sets) }
        <2> DEFINE ofAttributes(o) == { OfAttribute(o, a, PropsText(a, o.attrs[a])) : a \in Written(o) }
        <2>1. PropsStates(model) = (UNION { ofSets(o) : o \in Elem(model) }) \cup (UNION { ofAttributes(o) : o \in Elem(model) })
            BY DEF PropsStates
        <2>2. \A o, set, p : s \in ofProperty(o, set, p) <=> \E v \in PropsValues(p) : s = OfProperty(o, set, p, v)
            OBVIOUS
        <2>3. \A o : s \in ofAttributes(o) <=> \E a \in Written(o) : s = OfAttribute(o, a, PropsText(a, o.attrs[a]))
            OBVIOUS
        <2> HIDE DEF ofProperty, ofAttributes
        <2>4. \A o, set : s \in ofSet(o, set) <=> \E p \in Elem(set.props) : s \in ofProperty(o, set, p)
            OBVIOUS
        <2> HIDE DEF ofSet
        <2>5. \A o : s \in ofSets(o) <=> \E set \in Elem(o.sets) : s \in ofSet(o, set)
            OBVIOUS
        <2> HIDE DEF ofSets
        <2>6. s \in PropsStates(model) <=> (\E o \in Elem(model) : s \in ofSets(o)) \/ (\E o \in Elem(model) : s \in ofAttributes(o))
            BY <2>1
        <2>7. \A o : s \in ofSets(o) <=> \E set \in Elem(o.sets) : \E p \in Elem(set.props) : s \in ofProperty(o, set, p)
            BY <2>4, <2>5
        <2>8. \A o : s \in ofSets(o) <=>
                  \E set \in Elem(o.sets) : \E p \in Elem(set.props) : \E v \in PropsValues(p) : s = OfProperty(o, set, p, v)
            BY <2>2, <2>7
        <2> QED BY <2>3, <2>6, <2>8
    <1>2. s \in BsddStates(model) <=>
              \/ \E o \in Elem(model) : \E set \in Elem(o.sets) : \E p \in Elem(set.props) : \E v \in BsddValues(p) :
                    s = OfProperty(o, set, p, v)
              \/ \E o \in Elem(model) : \E a \in Written(o) : s = OfAttribute(o, a, o.attrs[a].text)
        <2> DEFINE ofProperty(o, set, p) == { OfProperty(o, set, p, v) : v \in BsddValues(p) }
        <2> DEFINE ofSet(o, set) == UNION { ofProperty(o, set, p) : p \in Elem(set.props) }
        <2> DEFINE ofSets(o) == UNION { ofSet(o, set) : set \in Elem(o.sets) }
        <2> DEFINE ofAttributes(o) == { OfAttribute(o, a, o.attrs[a].text) : a \in Written(o) }
        <2>1. BsddStates(model) = (UNION { ofSets(o) : o \in Elem(model) }) \cup (UNION { ofAttributes(o) : o \in Elem(model) })
            BY DEF BsddStates
        <2>2. \A o, set, p : s \in ofProperty(o, set, p) <=> \E v \in BsddValues(p) : s = OfProperty(o, set, p, v)
            OBVIOUS
        <2>3. \A o : s \in ofAttributes(o) <=> \E a \in Written(o) : s = OfAttribute(o, a, o.attrs[a].text)
            OBVIOUS
        <2> HIDE DEF ofProperty, ofAttributes
        <2>4. \A o, set : s \in ofSet(o, set) <=> \E p \in Elem(set.props) : s \in ofProperty(o, set, p)
            OBVIOUS
        <2> HIDE DEF ofSet
        <2>5. \A o : s \in ofSets(o) <=> \E set \in Elem(o.sets) : s \in ofSet(o, set)
            OBVIOUS
        <2> HIDE DEF ofSets
        <2>6. s \in BsddStates(model) <=> (\E o \in Elem(model) : s \in ofSets(o)) \/ (\E o \in Elem(model) : s \in ofAttributes(o))
            BY <2>1
        <2>7. \A o : s \in ofSets(o) <=> \E set \in Elem(o.sets) : \E p \in Elem(set.props) : s \in ofProperty(o, set, p)
            BY <2>4, <2>5
        <2>8. \A o : s \in ofSets(o) <=>
                  \E set \in Elem(o.sets) : \E p \in Elem(set.props) : \E v \in BsddValues(p) : s = OfProperty(o, set, p, v)
            BY <2>2, <2>7
        <2> QED BY <2>3, <2>6, <2>8
    <1> QED BY <1>1, <1>2

(* The values of the two modules, in terms of their statements.             *)
LEMMA GraphsOfStatements ==
    ASSUME NEW model, NEW level, NEW t
    PROVE  /\ t \in OfValues(Props(model, level) \cup PropsAttributes(model, level)) <=>
                  t[2] \in Predicates /\ \E s \in PropsStates(model) : t \in AsTriples(level, s)
           /\ t \in OfValues(Bsdd(model, level) \cup BsddAttributes(model, level)) <=>
                  t[2] \in Predicates /\ \E s \in BsddStates(model) : t \in AsTriples(level, s)
    <1> DEFINE props == Props(model, level)
    <1> DEFINE bsdd == Bsdd(model, level)
    <1> DEFINE ofProps(o, set, p) == \E v \in PropsValues(p) : t \in AsTriples(level, OfProperty(o, set, p, v))
    <1> DEFINE ofBsdd(o, set, p) == \E v \in BsddValues(p) : t \in AsTriples(level, OfProperty(o, set, p, v))
    <1> DEFINE written(o, a) == t \in AsTriples(level, OfAttribute(o, a, PropsText(a, o.attrs[a])))
    <1> DEFINE taken(o, a) == t \in AsTriples(level, OfAttribute(o, a, o.attrs[a].text))
    <1>3. t \in OfValues(props) <=>
              t[2] \in Predicates /\ \E o \in Elem(model) : \E set \in Elem(o.sets) : \E p \in Elem(set.props) : ofProps(o, set, p)
        <2>1. t \in OfValues(props) <=> \E o \in Elem(model) : \E set \in Elem(o.sets) : \E p \in Elem(set.props) :
                                            t \in OfValues(PropsOf(level, o, set, p))
            BY DEF Props, OfValues
        <2> QED BY <2>1, PropertyTriples
    <1>4. t \in OfValues(bsdd) <=>
              t[2] \in Predicates /\ \E o \in Elem(model) : \E set \in Elem(o.sets) : \E p \in Elem(set.props) : ofBsdd(o, set, p)
        <2> DEFINE about(o, set) == { <<<<o.guid>>, "hasSet", <<set.of, BsddScope(set), o.guid>>>>,
                                      <<<<set.of, BsddScope(set), o.guid>>, "a", <<"Set">>>> }
        <2>1. \A o, set : \A x \in about(o, set) : x[2] \notin Predicates
            BY DEF Predicates
        <2>2. bsdd = UNION { UNION { about(o, set) \cup (UNION { BsddOf(level, o, set, p) : p \in Elem(set.props) })
                                     : set \in Elem(o.sets) } : o \in Elem(model) }
            BY DEF Bsdd
        <2> HIDE DEF about, bsdd
        <2>3. t \in OfValues(bsdd) <=> \E o \in Elem(model) : \E set \in Elem(o.sets) : \E p \in Elem(set.props) :
                                           t \in OfValues(BsddOf(level, o, set, p))
            BY <2>1, <2>2 DEF OfValues
        <2> QED BY <2>3, PropertyTriples
    <1>5. t \in OfValues(PropsAttributes(model, level)) <=>
              t[2] \in Predicates /\ \E o \in Elem(model) : \E a \in Written(o) : written(o, a)
        <2>1. t \in OfValues(PropsAttributes(model, level)) <=>
                  \E o \in Elem(model) : \E a \in Written(o) : t \in OfValues(PropsAttribute(level, o, a))
            BY DEF PropsAttributes, OfValues, Written
        <2> QED BY <2>1, AttributeTriples
    <1>6. t \in OfValues(BsddAttributes(model, level)) <=>
              t[2] \in Predicates /\ \E o \in Elem(model) : \E a \in Written(o) : taken(o, a)
        <2> DEFINE attributes(o) == IF o.kind = "spatial" THEN BsddSpatial(o) ELSE BsddElement(o)
        <2>1. t \in OfValues(BsddAttributes(model, level)) <=>
                  \E o \in Elem(model) : \E a \in attributes(o) : t \in OfValues(BsddAttribute(level, o, a))
            BY DEF BsddAttributes, OfValues
        <2>2. \A o \in Elem(model) : attributes(o) = Written(o)
            BY SameAttributes
        <2> HIDE DEF attributes
        <2> QED BY <2>1, <2>2, AttributeTriples
    <1>7. (\E s \in PropsStates(model) : t \in AsTriples(level, s)) <=>
              \/ \E o \in Elem(model) : \E set \in Elem(o.sets) : \E p \in Elem(set.props) : ofProps(o, set, p)
              \/ \E o \in Elem(model) : \E a \in Written(o) : written(o, a)
        BY ElementsStated
    <1>8. (\E s \in BsddStates(model) : t \in AsTriples(level, s)) <=>
              \/ \E o \in Elem(model) : \E set \in Elem(o.sets) : \E p \in Elem(set.props) : ofBsdd(o, set, p)
              \/ \E o \in Elem(model) : \E a \in Written(o) : taken(o, a)
        BY ElementsStated
    <1>9. \A G, H : t \in OfValues(G \cup H) <=> t \in OfValues(G) \/ t \in OfValues(H)
        BY DEF OfValues
    <1> HIDE DEF props, bsdd, ofProps, ofBsdd, written, taken
    <1> QED BY <1>3, <1>4, <1>5, <1>6, <1>7, <1>8, <1>9 DEF props, bsdd

LEMMA OfPropertyParts ==
    ASSUME NEW o, NEW set, NEW p, NEW v
    PROVE  LET s == OfProperty(o, set, p, v) IN IsStatement(s) /\ s.value = v /\ s.unit = PropsUnit(p)
    BY DEF OfProperty, Statement, IsStatement

LEMMA OfAttributeParts ==
    ASSUME NEW o, NEW a, NEW v, NEW w
    PROVE  LET s == OfAttribute(o, a, v)
               r == OfAttribute(o, a, w)
           IN  IsStatement(s) /\ s.value = v /\ r.property = s.property /\ r.unit = s.unit
    BY DEF OfAttribute, Statement, IsStatement

(* The modules state the same of a value that both write as it is, and of   *)
(* one node the same units.                                                 *)
LEMMA StatementsAgree ==
    ASSUME NEW model, NEW v, WrittenAlike(model, v)
    PROVE  AlsoStated(PropsStates(model), BsddStates(model), v) /\ AlsoStated(BsddStates(model), PropsStates(model), v)
    <1>1. \A o \in Elem(model) : \A set \in Elem(o.sets) : \A p \in Elem(set.props) :
              /\ v \in PropsValues(p) <=> v \in BsddValues(p)
              /\ PropsUnit(p) # "" => PropsValues(p) = BsddValues(p)
        BY SameValues DEF WrittenAlike
    <1>2. \A o \in Elem(model) : \A a \in Written(o) :
              v \in {PropsText(a, o.attrs[a]), o.attrs[a].text} => PropsText(a, o.attrs[a]) = o.attrs[a].text
        <2> SUFFICES ASSUME NEW o \in Elem(model), NEW a \in Written(o), a = "treadLength", v \in {o.attrs[a].raw, o.attrs[a].text}
                     PROVE  o.attrs[a].raw = o.attrs[a].text
            BY DEF PropsText
        <2>1. a \in DOMAIN o.attrs \cap {"treadLength"}
            BY DEF Written
        <2> QED BY <2>1 DEF WrittenAlike
    <1>4. \A s \in PropsStates(model) : IsStatement(s) /\ (s.value = v => s \in BsddStates(model))
                                        /\ (s.unit # "" => \E r \in BsddStates(model) : r.property = s.property /\ r.unit = s.unit)
        <2> TAKE s \in PropsStates(model)
        <2>1. CASE \E o \in Elem(model) : \E set \in Elem(o.sets) : \E p \in Elem(set.props) : \E w \in PropsValues(p) :
                      s = OfProperty(o, set, p, w)
            <3>1. PICK o, set, p, w : o \in Elem(model) /\ set \in Elem(o.sets) /\ p \in Elem(set.props) /\ w \in PropsValues(p) /\ s = OfProperty(o, set, p, w)
                BY <2>1
            <3>2. IsStatement(s) /\ s.value = w /\ s.unit = PropsUnit(p)
                BY <3>1, OfPropertyParts
            <3>3. w \in BsddValues(p) => s \in BsddStates(model)
                BY <3>1, ElementsStated
            <3> QED BY <3>1, <3>2, <3>3, <1>1
        <2>2. CASE \E o \in Elem(model) : \E a \in Written(o) : s = OfAttribute(o, a, PropsText(a, o.attrs[a]))
            <3>1. PICK o, a : o \in Elem(model) /\ a \in Written(o) /\ s = OfAttribute(o, a, PropsText(a, o.attrs[a]))
                BY <2>2
            <3> DEFINE r == OfAttribute(o, a, o.attrs[a].text)
            <3>2. IsStatement(s) /\ s.value = PropsText(a, o.attrs[a]) /\ r.property = s.property /\ r.unit = s.unit
                BY <3>1, OfAttributeParts
            <3>3. r \in BsddStates(model)
                BY <3>1, ElementsStated
            <3>4. s.value = v => s = r
                BY <3>1, <3>2, <1>2
            <3> HIDE DEF r
            <3> QED BY <3>2, <3>3, <3>4
        <2> QED BY <2>1, <2>2, ElementsStated
    <1>5. \A s \in BsddStates(model) : IsStatement(s) /\ (s.value = v => s \in PropsStates(model))
                                       /\ (s.unit # "" => \E r \in PropsStates(model) : r.property = s.property /\ r.unit = s.unit)
        <2> TAKE s \in BsddStates(model)
        <2>1. CASE \E o \in Elem(model) : \E set \in Elem(o.sets) : \E p \in Elem(set.props) : \E w \in BsddValues(p) :
                      s = OfProperty(o, set, p, w)
            <3>1. PICK o, set, p, w : o \in Elem(model) /\ set \in Elem(o.sets) /\ p \in Elem(set.props) /\ w \in BsddValues(p) /\ s = OfProperty(o, set, p, w)
                BY <2>1
            <3>2. IsStatement(s) /\ s.value = w /\ s.unit = PropsUnit(p)
                BY <3>1, OfPropertyParts
            <3>3. w \in PropsValues(p) => s \in PropsStates(model)
                BY <3>1, ElementsStated
            <3> QED BY <3>1, <3>2, <3>3, <1>1
        <2>2. CASE \E o \in Elem(model) : \E a \in Written(o) : s = OfAttribute(o, a, o.attrs[a].text)
            <3>1. PICK o, a : o \in Elem(model) /\ a \in Written(o) /\ s = OfAttribute(o, a, o.attrs[a].text)
                BY <2>2
            <3> DEFINE r == OfAttribute(o, a, PropsText(a, o.attrs[a]))
            <3>2. IsStatement(s) /\ s.value = o.attrs[a].text /\ r.property = s.property /\ r.unit = s.unit
                BY <3>1, OfAttributeParts
            <3>3. r \in PropsStates(model)
                BY <3>1, ElementsStated
            <3>4. s.value = v => s = r
                BY <3>1, <3>2, <1>2
            <3> HIDE DEF r
            <3> QED BY <3>2, <3>3, <3>4
        <2> QED BY <2>1, <2>2, ElementsStated
    <1> QED BY <1>4, <1>5 DEF AlsoStated

(* For every model and each value of it that both modules write as it is:   *)
(* they write it with one node, one state and one unit, also next to values *)
(* that one of them leaves out or rewrites (the comments at lbd-converter   *)
(* lib.rs 2446-2448 and 2620-2622, bsdd.rs 2341-2343).                      *)
THEOREM NodesAreAlwaysShared ==
    \A model, level : SharesNodes(model, level)
    <1> SUFFICES ASSUME NEW model, NEW level, NEW v \in ValuesIn(model), WrittenAlike(model, v)
                 PROVE  About(Props(model, level) \cup PropsAttributes(model, level), v) =
                        About(Bsdd(model, level) \cup BsddAttributes(model, level), v)
        BY DEF SharesNodes
    <1> DEFINE G == Props(model, level) \cup PropsAttributes(model, level)
    <1> DEFINE H == Bsdd(model, level) \cup BsddAttributes(model, level)
    <1> DEFINE X == PropsStates(model)
    <1> DEFINE Y == BsddStates(model)
    <1>1. Writes(G, X, level) /\ Writes(H, Y, level)
        BY GraphsOfStatements DEF Writes
    <1>2. AlsoStated(X, Y, v) /\ AlsoStated(Y, X, v)
        BY StatementsAgree
    <1> HIDE DEF G, H, X, Y
    <1>3. About(G, v) \subseteq About(H, v)
        BY <1>1, <1>2, AboutWritten
    <1>4. About(H, v) \subseteq About(G, v)
        BY <1>1, <1>2, AboutWritten
    <1>5. About(G, v) = About(H, v)
        BY <1>3, <1>4
    <1> QED BY <1>5 DEF G, H

------------------------------------------------------------------------------
(* The quantity take-off                                                    *)
(* What is true of every figure of some figures is true of those laid over      *)
(* others of which it is true.                                                  *)
AreOf(o, figures) ==
    /\ IsFiniteSet(DOMAIN figures)
    /\ \A k \in DOMAIN figures :
          /\ figures[k].of = o.id
          /\ figures[k].items \in { ItemIds(Body(o)), ItemIds(Measured(o, BestSolid(o))) }
          /\ k = "GrossVolume" => ~HasOpenings(o)

LEMMA NoFigures ==
    ASSUME NEW o
    PROVE  AreOf(o, <<>>)
    <1>1. DOMAIN <<>> = {}
        OBVIOUS
    <1> QED BY <1>1, FS_EmptySet DEF AreOf

LEMMA Overlaid ==
    ASSUME NEW o, NEW f, NEW g, AreOf(o, f), AreOf(o, g)
    PROVE  AreOf(o, OrElse(f, g))
    <1>1. DOMAIN OrElse(f, g) = DOMAIN f \cup DOMAIN g
        BY DEF OrElse
    <1>2. \A k \in DOMAIN OrElse(f, g) : OrElse(f, g)[k] = IF k \in DOMAIN f THEN f[k] ELSE g[k]
        BY DEF OrElse
    <1>3. IsFiniteSet(DOMAIN f \cup DOMAIN g)
        BY FS_Union DEF AreOf
    <1> QED BY <1>1, <1>2, <1>3 DEF AreOf

LEMMA AllAlike ==
    ASSUME NEW o, NEW kinds, NEW items, NEW value, IsFiniteSet(kinds),
           items \in { Body(o), Measured(o, BestSolid(o)) }, "GrossVolume" \in kinds => ~HasOpenings(o)
    PROVE  AreOf(o, All(kinds, Figure(o, items, value)))
    <1>1. DOMAIN All(kinds, Figure(o, items, value)) = kinds
        BY DEF All
    <1>2. \A k \in kinds : All(kinds, Figure(o, items, value))[k] = [ of |-> o.id, items |-> ItemIds(items), value |-> value ]
        BY DEF All, Figure, ItemIds
    <1> QED BY <1>1, <1>2 DEF AreOf

LEMMA FewKinds ==
    /\ \A a : IsFiniteSet({a})
    /\ \A a, b : IsFiniteSet({a, b})
    /\ \A a, b, c : IsFiniteSet({a, b, c})
    /\ \A S, c : IsFiniteSet(S) => IsFiniteSet(Given(c, S))
    /\ \A S, T : IsFiniteSet(S) /\ IsFiniteSet(T) => IsFiniteSet(S \cup T)
    <1>1. \A a : IsFiniteSet({a})
        BY FS_Singleton
    <1>2. \A a, b : IsFiniteSet({a, b})
        <2> TAKE a, b
        <2>1. IsFiniteSet({a} \cup {b})
            BY <1>1, FS_AddElement
        <2>2. {a} \cup {b} = {a, b}
            OBVIOUS
        <2> QED BY <2>1, <2>2
    <1>3. \A a, b, c : IsFiniteSet({a, b, c})
        <2> TAKE a, b, c
        <2>1. IsFiniteSet({a, b} \cup {c})
            BY <1>2, FS_AddElement
        <2>2. {a, b} \cup {c} = {a, b, c}
            OBVIOUS
        <2> QED BY <2>1, <2>2
    <1>4. \A S, c : IsFiniteSet(S) => IsFiniteSet(Given(c, S))
        BY FS_EmptySet DEF Given
    <1>5. \A S, T : IsFiniteSet(S) /\ IsFiniteSet(T) => IsFiniteSet(S \cup T)
        BY FS_Union
    <1> QED BY <1>1, <1>2, <1>3, <1>4, <1>5

LEMMA MeshIsOf ==
    ASSUME NEW o
    PROVE  AreOf(o, FromMesh(o))
    <1>1. ASSUME o.mesh # <<>> PROVE AreOf(o, FromMesh(o))
        <2> DEFINE mesh == o.mesh[1]
        <2> DEFINE plan == PlanReferenced(o.class) /\ o.mesh[1].footprint
        <2> DEFINE uncut == ~HasOpenings(o)
        <2> DEFINE solid == Given(mesh.solid /\ mesh.sound /\ uncut, Volumes)
        <2> DEFINE flat == {"NetSurfaceArea"} \cup Given(plan, {"NetFootprintArea", "NetArea"})
                   \cup Given(plan /\ uncut, {"GrossFootprintArea", "GrossArea"})
                   \cup Given(plan /\ mesh.flat, {"Width"}) \cup Given(plan /\ mesh.outline, {"Perimeter"})
                   \cup Given(o.class \in Walls, {"Height"}) \cup Given(mesh.box, {"Depth"})
        <2>1. FromMesh(o) = OrElse(All(solid, Figure(o, Body(o), mesh.volume)), All(flat, Figure(o, Body(o), 1)))
            BY <1>1 DEF FromMesh, MeshFigures
        <2>2. IsFiniteSet(solid) /\ IsFiniteSet(flat)
            <3>1. IsFiniteSet(Volumes)
                BY FewKinds DEF Volumes
            <3> QED BY <3>1, FewKinds
        <2>3. "GrossVolume" \in solid => ~HasOpenings(o)
            BY DEF Given
        <2>4. "GrossVolume" \notin flat
            BY DEF Given
        <2> HIDE DEF solid, flat, mesh
        <2>5. AreOf(o, All(solid, Figure(o, Body(o), mesh.volume))) /\ AreOf(o, All(flat, Figure(o, Body(o), 1)))
            BY <2>2, <2>3, <2>4, AllAlike
        <2> QED BY <2>1, <2>5, Overlaid
    <1>2. o.mesh = <<>> => FromMesh(o) = <<>>
        BY DEF FromMesh
    <1> QED BY <1>1, <1>2, NoFigures

LEMMA SweepIsOf ==
    ASSUME NEW o, BestSolid(o) = <<"sweep">>
    PROVE  AreOf(o, FromSweep(o))
    <1> DEFINE parts == Measurable(Sweeps(o))
    <1> DEFINE uncut == ~HasOpenings(o)
    <1> DEFINE one == Given(Len(parts) = 1, OfOneSweep(o, parts[1], uncut))
    <1>1. parts = Measured(o, BestSolid(o))
        BY DEF Measured
    <1>2. ASSUME parts # <<>> PROVE AreOf(o, FromSweep(o))
        <2>1. FromSweep(o) = OrElse(All(one, Figure(o, parts, 1)), All(Given(uncut, Volumes), Figure(o, parts, Total(parts))))
            BY <1>2 DEF FromSweep, SweepFigures
        <2>2. \A sweep : IsFiniteSet(OfOneSweep(o, sweep, uncut)) /\ "GrossVolume" \notin OfOneSweep(o, sweep, uncut)
            <3> TAKE sweep
            <3>1. IsFiniteSet({"Length", "GrossSurfaceArea"}) /\ IsFiniteSet({"Depth", "GrossArea", "Perimeter"})
                  /\ IsFiniteSet({"Height", "GrossFloorArea", "GrossPerimeter"}) /\ IsFiniteSet({})
                BY FewKinds, FS_EmptySet
            <3>2. IsFiniteSet({"Height", "GrossFootprintArea"} \cup Given(uncut, {"NetFootprintArea"})
                              \cup Given(sweep.rectangular, {"GrossSideArea"}))
                BY FewKinds
            <3>3. "GrossVolume" \notin ({"Height", "GrossFootprintArea"} \cup Given(uncut, {"NetFootprintArea"})
                              \cup Given(sweep.rectangular, {"GrossSideArea"}))
                BY DEF Given
            <3> DEFINE walls == {"Height", "GrossFootprintArea"} \cup Given(uncut, {"NetFootprintArea"})
                              \cup Given(sweep.rectangular, {"GrossSideArea"})
            <3>4. OfOneSweep(o, sweep, uncut) \in { {"Length", "GrossSurfaceArea"}, walls, {"Depth", "GrossArea", "Perimeter"},
                                                   {"Height", "GrossFloorArea", "GrossPerimeter"}, {} }
                <4> HIDE DEF walls
                <4>1. OfOneSweep(o, sweep, uncut) =
                          CASE o.class \in Linear -> {"Length", "GrossSurfaceArea"}
                            [] o.class \in Walls -> walls
                            [] o.class \in Flat -> {"Depth", "GrossArea", "Perimeter"}
                            [] o.class = <<"space", "">> -> {"Height", "GrossFloorArea", "GrossPerimeter"}
                            [] OTHER -> {}
                    BY DEF OfOneSweep, walls
                <4> QED BY <4>1
            <3> HIDE DEF walls
            <3> QED BY <3>1, <3>2, <3>3, <3>4 DEF walls
        <2>3. IsFiniteSet(one) /\ "GrossVolume" \notin one
            BY <2>2, FewKinds DEF Given
        <2>4. IsFiniteSet(Given(uncut, Volumes)) /\ ("GrossVolume" \in Given(uncut, Volumes) => ~HasOpenings(o))
            <3>1. IsFiniteSet(Volumes)
                BY FewKinds DEF Volumes
            <3> QED BY <3>1, FewKinds DEF Given
        <2> HIDE DEF one, parts
        <2>5. AreOf(o, All(one, Figure(o, parts, 1))) /\ AreOf(o, All(Given(uncut, Volumes), Figure(o, parts, Total(parts))))
            BY <2>3, <2>4, <1>1, AllAlike
        <2> QED BY <2>1, <2>5, Overlaid
    <1>3. parts = <<>> => FromSweep(o) = <<>>
        BY DEF FromSweep, SweepFigures
    <1> QED BY <1>2, <1>3, NoFigures

LEMMA PolyhedraAreOf ==
    ASSUME NEW o, BestSolid(o) = <<"brep">>
    PROVE  AreOf(o, FromPolyhedra(o))
    <1> DEFINE parts == Polyhedra(o)
    <1> DEFINE none == parts = <<>> \/ \E i \in DOMAIN parts : ~parts[i].ok
    <1> DEFINE kinds == {"NetVolume"} \cup Given(~HasOpenings(o), {"GrossVolume"})
    <1>1. parts = Measured(o, BestSolid(o))
        BY DEF Measured
    <1>2. FromPolyhedra(o) = IF none THEN <<>> ELSE All(kinds, Figure(o, parts, Total(parts)))
        BY DEF FromPolyhedra, PolyhedraFigures
    <1>3. IsFiniteSet(kinds)
        BY FewKinds
    <1>4. "GrossVolume" \in kinds => ~HasOpenings(o)
        BY DEF Given
    <1> HIDE DEF kinds, parts, none
    <1>5. AreOf(o, All(kinds, Figure(o, parts, Total(parts))))
        BY <1>1, <1>3, <1>4, AllAlike
    <1> QED BY <1>2, <1>5, NoFigures

(* Every figure of an object was measured on it: on its body or on the parts    *)
(* of it that are measured, and no gross volume of an object with openings.     *)
LEMMA ComputedAreOf ==
    ASSUME NEW o
    PROVE  AreOf(o, Computed(o))
    <1> DEFINE best == BestSolid(o)
    <1> DEFINE solid == CASE best = <<"sweep">> -> FromSweep(o) [] best = <<"brep">> -> FromPolyhedra(o) [] OTHER -> <<>>
    <1>1. Computed(o) = OrElse(solid, FromMesh(o))
        BY DEF Computed, ComputedBy
    <1>2. AreOf(o, solid)
        <2>1. CASE best = <<"sweep">>
            <3>1. <<"sweep">> # <<"brep">>
                OBVIOUS
            <3>2. solid = FromSweep(o)
                BY <2>1, <3>1
            <3> QED BY <2>1, <3>2, SweepIsOf
        <2>2. CASE best = <<"brep">>
            <3>1. <<"sweep">> # <<"brep">>
                OBVIOUS
            <3>2. solid = FromPolyhedra(o)
                BY <2>2, <3>1
            <3> QED BY <2>2, <3>2, PolyhedraAreOf
        <2>3. CASE best # <<"sweep">> /\ best # <<"brep">>
            <3>1. solid = <<>>
                BY <2>3
            <3> QED BY <3>1, NoFigures
        <2> QED BY <2>1, <2>2, <2>3
    <1> HIDE DEF solid
    <1> QED BY <1>1, <1>2, MeshIsOf, Overlaid

(* ----- what an object gains -------------------------------------------------- *)
Figures(m, o) == Only(Computed(o), Missing(m, o))
Gained(m, o) == Consistent(Figures(m, o))
FoundFor(m, o) == Quantities(Figures(m, o), SetToSeq(Gained(m, o)), m.units)
Gain(m, o, q) == \E k \in Gained(m, o) : q = Quantity(k, Figures(m, o), m.units)

LEMMA GainedKinds ==
    ASSUME NEW m, NEW o
    PROVE  /\ IsFiniteSet(Gained(m, o))
           /\ \A k \in Gained(m, o) :
                 /\ k \in DOMAIN Computed(o) /\ k \in Missing(m, o)
                 /\ Figures(m, o)[k] = Computed(o)[k] /\ Computed(o)[k].value > 0
    <1>1. \A k \in Gained(m, o) :
                 /\ k \in DOMAIN Computed(o) /\ k \in Missing(m, o)
                 /\ Figures(m, o)[k] = Computed(o)[k] /\ Computed(o)[k].value > 0
        BY DEF Gained, Consistent, Accepted, Figures, Only
    <1>2. Gained(m, o) \subseteq DOMAIN Computed(o)
        BY <1>1
    <1>3. IsFiniteSet(DOMAIN Computed(o))
        BY ComputedAreOf DEF AreOf
    <1> QED BY <1>1, <1>2, <1>3, FS_Subset

(* What is found is one quantity for each kind an object gains.                 *)
LEMMA FoundIs ==
    ASSUME NEW m, NEW o
    PROVE  /\ IsList(FoundFor(m, o))
           /\ \A i \in 1..Len(FoundFor(m, o)) : Gain(m, o, FoundFor(m, o)[i])
           /\ \A i, j \in 1..Len(FoundFor(m, o)) : FoundFor(m, o)[i].name = FoundFor(m, o)[j].name => i = j
    <1> DEFINE S == Gained(m, o)
    <1> DEFINE n == Cardinality(S)
    <1> DEFINE f == SetToSeq(S)
    <1>1. IsFiniteSet(S)
        BY GainedKinds
    <1>2. n \in Nat /\ \E g \in [1..n -> S] : IsInjective(g)
        BY <1>1, FS_CardinalityType DEF ExistsBijection, Bijection, Injection
    <1>3. f \in [1..n -> S] /\ IsInjective(f)
        BY <1>2 DEF SetToSeq
    <1> HIDE DEF f, n
    <1>4. FoundFor(m, o) = [ i \in 1..n |-> Quantity(f[i], Figures(m, o), m.units) ]
        BY <1>3 DEF FoundFor, Quantities, f
    <1> HIDE DEF S
    <1>5. DOMAIN FoundFor(m, o) = 1..n
        BY <1>4
    <1>6. \A i \in 1..n : FoundFor(m, o)[i] = Quantity(f[i], Figures(m, o), m.units)
        BY <1>4
    <1>7. FoundFor(m, o) \in Seq({ Quantity(k, Figures(m, o), m.units) : k \in S })
        <2>1. \A i \in 1..n : Quantity(f[i], Figures(m, o), m.units) \in { Quantity(k, Figures(m, o), m.units) : k \in S }
            BY <1>3
        <2> QED BY <2>1, <1>2, <1>4
    <1>8. Len(FoundFor(m, o)) = n
        BY <1>7, <1>5, <1>2, LenProperties
    <1>9. \A i \in 1..n : Gain(m, o, FoundFor(m, o)[i])
        BY <1>6, <1>3 DEF Gain, S
    <1>10. ASSUME NEW i \in 1..n, NEW j \in 1..n, FoundFor(m, o)[i].name = FoundFor(m, o)[j].name PROVE i = j
        <2>0. \A k : Quantity(k, Figures(m, o), m.units).name = <<k, "">>
            BY DEF Quantity
        <2>1. <<f[i], "">> = <<f[j], "">>
            BY <2>0, <1>6, <1>10
        <2>2. f[i] = f[j]
            BY <2>1
        <2> QED BY <2>2, <1>3 DEF IsInjective
    <1> QED BY <1>7, <1>8, <1>9, <1>10 DEF IsList

LEMMA OneScale ==
    ASSUME NEW units, units \in Seq(ToSet(units)), HasScales(units), NEW n \in 1..3, NEW p \in Powers(units, n)
    PROVE  Scale(units, n) = p
    <1> DEFINE P == Powers(units, n)
    <1> DEFINE U == { x \in ToSet(units) : x.type \in DOMAIN Dimension /\ Dimension[x.type] = n }
    <1>1. IsFiniteSet(U)
        <2>1. IsFiniteSet(ToSet(units))
            BY ListFacts DEF IsList
        <2> QED BY <2>1, FS_Subset
    <1>2. [ u \in U |-> n * u.power ] \in Surjection(U, P)
        BY DEF Powers, Surjection
    <1>3. IsFiniteSet(P)
        <2> HIDE DEF P, U
        <2> QED BY <1>1, <1>2, FS_Surjection
    <1>4. Cardinality(P) <= 1
        BY DEF HasScales
    <1>5. ASSUME NEW q \in P PROVE q = p
        <2>1. Cardinality({p, q}) <= 1
            <3>1. {p, q} \subseteq P
                OBVIOUS
            <3>2. Cardinality({p, q}) <= Cardinality(P)
                BY <3>1, <1>3, FS_Subset
            <3>3. Cardinality({p, q}) \in Nat /\ Cardinality(P) \in Nat
                BY <3>1, <1>3, FS_Subset, FS_CardinalityType
            <3> QED BY <3>2, <3>3, <1>4
        <2>2. CASE p # q
            <3>1. IsFiniteSet({p}) /\ Cardinality({p}) = 1
                BY FS_Singleton
            <3> DEFINE both == Cardinality({p, q})
            <3> DEFINE joined == Cardinality({p} \cup {q})
            <3>2. joined = 1 + 1
                BY <3>1, <2>2, FS_AddElement
            <3>3. joined = both
                <4>1. {p} \cup {q} = {p, q}
                    OBVIOUS
                <4> QED BY <4>1
            <3>4. both <= 1
                BY <2>1
            <3> HIDE DEF both, joined
            <3> QED BY <3>2, <3>3, <3>4
        <2> QED BY <2>2
    <1>6. P # {}
        OBVIOUS
    <1>7. Scale(units, n) = CHOOSE x \in P : TRUE
        BY <1>6 DEF Scale
    <1> QED BY <1>5, <1>6, <1>7

(* A gain was measured on the object, in the unit that is declared, and is      *)
(* called what no quantity of the object was.                                   *)
LEMMA GainIsEarned ==
    ASSUME NEW m, m.units \in Seq(ToSet(m.units)), HasScales(m.units), NEW o, NEW q, Gain(m, o, q)
    PROVE  /\ EarnedBy(m, o, q, q.figure[1], Power(q.name[1]))
           /\ q.figure # <<>> /\ q.figure[1].of = o.id
           /\ q.name = <<q.name[1], "">>
           /\ \A name \in Existing(m, o) : name[1] # q.name[1]
    <1>1. PICK k \in Gained(m, o) : q = Quantity(k, Figures(m, o), m.units)
        BY DEF Gain
    <1> DEFINE f == Computed(o)[k]
    <1>2. k \in DOMAIN Computed(o) /\ k \in Missing(m, o) /\ Figures(m, o)[k] = f /\ f.value > 0
        BY GainedKinds
    <1>3. q.name = <<k, "">> /\ q.figure = <<f>> /\ q.scale = ToDeclaredUnit(m.units, k)
        BY <1>1, <1>2 DEF Quantity
    <1>4. q.name[1] = k /\ q.figure[1] = f /\ q.figure # <<>>
        <2> HIDE DEF f
        <2>1. \A x : <<x>>[1] = x /\ <<x>> # <<>>
            OBVIOUS
        <2>2. <<k, "">>[1] = k
            OBVIOUS
        <2> QED BY <1>3, <2>1, <2>2
    <1>5. f.of = o.id /\ f.items \in { ItemIds(Body(o)), ItemIds(Measured(o, BestSolid(o))) } /\ (k = "GrossVolume" => ~HasOpenings(o))
        BY <1>2, ComputedAreOf DEF AreOf
    <1>7. ASSUME Power(k) > 1, NEW l \in Powers(m.units, 1), NEW p \in Powers(m.units, Power(k))
          PROVE  q.scale = Power(k) * l - p
        <2>1. Power(k) \in 1..3
            BY DEF Power
        <2>2. Scale(m.units, 1) = l /\ Scale(m.units, Power(k)) = p
            BY <2>1, OneScale
        <2>3. Power(k) # 1
            BY <1>7, <2>1
        <2> HIDE DEF f
        <2> QED BY <2>2, <2>3, <1>3 DEF ToDeclaredUnit
    <1>8. \A name \in Existing(m, o) : name[1] # k
        BY <1>2 DEF Missing, Same
    <1> HIDE DEF f
    <1>9. EarnedBy(m, o, q, q.figure[1], Power(q.name[1]))
        BY <1>2, <1>4, <1>5, <1>7 DEF EarnedBy
    <1> QED BY <1>3, <1>4, <1>5, <1>8, <1>9

LEMMA GainIsItsOwners ==
    ASSUME NEW m, m.units \in Seq(ToSet(m.units)), HasScales(m.units), NEW o, NEW q, Gain(m, o, q)
    PROVE  q.figure # <<>> /\ q.figure[1].of = o.id /\ q.name = <<q.name[1], "">>
    BY GainIsEarned

(* ----- one object after the other -------------------------------------------- *)
LEMMA ListsJoined ==
    ASSUME NEW s, NEW t, IsList(s), IsList(t)
    PROVE  /\ IsList(s \o t) /\ Len(s \o t) = Len(s) + Len(t)
           /\ \A i \in 1..Len(s) : (s \o t)[i] = s[i]
           /\ \A i \in 1..(Len(s) + Len(t)) :
                 i \in 1..Len(s) \/ (i - Len(s) \in 1..Len(t) /\ (s \o t)[i] = t[i - Len(s)])
    <1>1. PICK S, T : s \in Seq(S) /\ t \in Seq(T)
        BY DEF IsList
    <1>2. s \in Seq(S \cup T) /\ t \in Seq(S \cup T)
        <2>1. S \subseteq S \cup T /\ T \subseteq S \cup T
            OBVIOUS
        <2> QED BY <1>1, <2>1, SeqMonotonic
    <1>3. /\ s \o t \in Seq(S \cup T) /\ Len(s \o t) = Len(s) + Len(t)
          /\ \A i \in 1..(Len(s) + Len(t)) : (s \o t)[i] = IF i <= Len(s) THEN s[i] ELSE t[i - Len(s)]
        BY <1>2, ConcatProperties
    <1>4. Len(s) \in Nat /\ Len(t) \in Nat
        BY ListFacts
    <1> QED BY <1>3, <1>4 DEF IsList

LEMMA Lengthened ==
    ASSUME NEW s, NEW x, IsList(s)
    PROVE  /\ IsList(Append(s, x)) /\ Len(Append(s, x)) = Len(s) + 1
           /\ \A i \in 1..Len(s) : Append(s, x)[i] = s[i]
           /\ Append(s, x)[Len(s) + 1] = x
           /\ ToSet(Append(s, x)) = ToSet(s) \cup {x}
    <1>1. PICK S : s \in Seq(S)
        BY DEF IsList
    <1> DEFINE T == S \cup {x}
    <1>2. s \in Seq(T) /\ x \in T
        <2>1. S \subseteq T
            OBVIOUS
        <2> QED BY <1>1, <2>1, SeqMonotonic
    <1> HIDE DEF T
    <1>3. /\ Append(s, x) \in Seq(T) /\ Len(Append(s, x)) = Len(s) + 1
          /\ \A i \in 1..(Len(s) + 1) : Append(s, x)[i] = IF i <= Len(s) THEN s[i] ELSE x
        BY <1>2, AppendProperties
    <1>4. Len(s) \in Nat /\ DOMAIN s = 1..Len(s) /\ DOMAIN Append(s, x) = 1..(Len(s) + 1)
        BY <1>2, <1>3, LenProperties
    <1>5. ToSet(Append(s, x)) = ToSet(s) \cup {x}
        <2>1. ASSUME NEW y \in ToSet(Append(s, x)) PROVE y \in ToSet(s) \cup {x}
            <3>1. PICK i \in 1..(Len(s) + 1) : y = Append(s, x)[i]
                BY <2>1, <1>4 DEF ToSet
            <3> QED BY <3>1, <1>3, <1>4 DEF ToSet
        <2>2. ASSUME NEW y \in ToSet(s) \cup {x} PROVE y \in ToSet(Append(s, x))
            <3>1. CASE y = x
                <4>1. Len(s) + 1 \in 1..(Len(s) + 1) /\ Append(s, x)[Len(s) + 1] = x
                    BY <1>3, <1>4
                <4> QED BY <3>1, <4>1, <1>4 DEF ToSet
            <3>2. CASE y \in ToSet(s)
                <4>1. PICK i \in 1..Len(s) : y = s[i]
                    BY <3>2, <1>4 DEF ToSet
                <4>2. i \in 1..(Len(s) + 1) /\ Append(s, x)[i] = y
                    BY <4>1, <1>3, <1>4
                <4> QED BY <4>2, <1>4 DEF ToSet
            <3> QED BY <2>2, <3>1, <3>2
        <2> QED BY <2>1, <2>2
    <1> QED BY <1>3, <1>4, <1>5 DEF IsList

LEMMA Greatest ==
    ASSUME NEW n \in Nat, NEW T \in SUBSET (1..n), T # {}
    PROVE  \E x \in T : \A y \in T : x >= y
    <1> DEFINE U == { n - x : x \in T }
    <1>1. U \in SUBSET Nat /\ U # {}
        <2>1. \A x \in T : n - x \in Nat
            OBVIOUS
        <2> QED BY <2>1
    <1>2. PICK u \in U : \A v \in U : u <= v
        <2> HIDE DEF U
        <2> QED BY <1>1, Least
    <1>3. PICK x \in T : u = n - x
        BY <1>2
    <1>4. \A y \in T : x >= y
        <2> TAKE y \in T
        <2>1. n - x <= n - y
            BY <1>2, <1>3
        <2> QED BY <2>1
    <1> QED BY <1>4

(* The set that is extended is one of the object's.                             *)
LEMMA ExtendsItsOwn ==
    ASSUME NEW m, NEW o, IsList(o.sets), NEW name
    PROVE  ExistingSet(m, o, name) # 0 => ExistingSet(m, o, name) \in ToSet(o.sets)
    <1> DEFINE called(n) == { i \in DOMAIN o.sets : Same(m.sets[o.sets[i]].name, n) }
    <1>1. Len(o.sets) \in Nat /\ DOMAIN o.sets = 1..Len(o.sets)
        BY ListFacts
    <1>2. \A n : called(n) \in SUBSET (1..Len(o.sets))
        BY <1>1
    <1>3. \A n : \A i \in called(n) : o.sets[i] \in ToSet(o.sets)
        BY DEF ToSet
    <1>4. ExistingSet(m, o, name) = IF called(name) # {} THEN o.sets[Max(called(name))]
                                    ELSE IF called(SetName) # {} THEN o.sets[Min(called(SetName))] ELSE 0
        BY DEF ExistingSet
    <1> HIDE DEF called
    <1>5. called(name) # {} => Max(called(name)) \in called(name)
        <2>1. called(name) # {} => \E x \in called(name) : \A y \in called(name) : x >= y
            BY <1>1, <1>2, Greatest
        <2> QED BY <2>1 DEF Max
    <1>6. called(SetName) # {} => Min(called(SetName)) \in called(SetName)
        <2>1. called(SetName) \in SUBSET Nat
            BY <1>1, <1>2
        <2>2. called(SetName) # {} => \E x \in called(SetName) : \A y \in called(SetName) : x <= y
            BY <2>1, Least
        <2> QED BY <2>2 DEF Min
    <1> QED BY <1>3, <1>4, <1>5, <1>6

Fields == {"id", "class", "voided", "reps", "mesh", "sets"}
Shaped(at) ==
    /\ IsRecord(at, {"objects", "sets", "units"}) /\ IsList(at.sets)
    /\ \A s \in 1..Len(at.sets) : IsRecord(at.sets[s], {"name", "quantities"}) /\ IsList(at.sets[s].quantities)
    /\ \A j \in DOMAIN at.objects : IsRecord(at.objects[j], Fields) /\ IsList(at.objects[j].sets)
Spot(at) == UNION { {s} \X (1..Len(at.sets[s].quantities)) : s \in 1..Len(at.sets) }
AtSpot(at, x) == at.sets[x[1]].quantities[x[2]]
SameBody(o, p) == o.id = p.id /\ o.voided = p.voided /\ o.reps = p.reps

(* What is found for object i is put after the first b quantities of set g, one *)
(* of the object's, and nothing else changes.                                   *)
Grown(at, next, i, g, b, found) ==
    /\ Shaped(next) /\ Len(at.sets) <= Len(next.sets) /\ DOMAIN next.objects = DOMAIN at.objects
    /\ \A j \in DOMAIN at.objects :
          /\ SameBody(next.objects[j], at.objects[j])
          /\ ToSet(at.objects[j].sets) \subseteq ToSet(next.objects[j].sets)
          /\ \A s \in ToSet(next.objects[j].sets) :
                s \in ToSet(at.objects[j].sets) \/ (s = Len(at.sets) + 1 /\ s \in 1..Len(next.sets))
    /\ g \in ToSet(next.objects[i].sets) /\ b \in Nat
    /\ \A s \in 1..Len(at.sets) :
          next.sets[s].name = at.sets[s].name /\ Len(at.sets[s].quantities) <= Len(next.sets[s].quantities)
    /\ \A x \in Spot(at) : AtSpot(next, x) = AtSpot(at, x)
    /\ \A x \in Spot(next) :
          x \in Spot(at) \/ (x[1] = g /\ x[2] - b \in 1..Len(found) /\ AtSpot(next, x) = found[x[2] - b])

LEMMA SpotIs ==
    ASSUME NEW at, Shaped(at)
    PROVE  /\ Spot(at) \subseteq Nat \X Nat
           /\ \A s, y : <<s, y>> \in Spot(at) <=> s \in 1..Len(at.sets) /\ y \in 1..Len(at.sets[s].quantities)
    <1>1. Len(at.sets) \in Nat
        BY ListFacts DEF Shaped
    <1>2. \A s \in 1..Len(at.sets) : Len(at.sets[s].quantities) \in Nat
        BY ListFacts DEF Shaped
    <1>3. \A s, y : <<s, y>> \in Spot(at) <=> s \in 1..Len(at.sets) /\ y \in 1..Len(at.sets[s].quantities)
        BY DEF Spot
    <1>4. ASSUME NEW x \in Spot(at) PROVE x \in Nat \X Nat
        <2>1. PICK s \in 1..Len(at.sets) : x \in {s} \X (1..Len(at.sets[s].quantities))
            BY DEF Spot
        <2>2. PICK y \in 1..Len(at.sets[s].quantities) : x = <<s, y>>
            BY <2>1
        <2> QED BY <2>2, <1>1, <1>2
    <1> QED BY <1>3, <1>4

LEMMA SetExtended ==
    ASSUME NEW at, Shaped(at), NEW i \in DOMAIN at.objects, NEW o, NEW found, IsList(found), found # <<>>,
           NEW g \in ToSet(at.objects[i].sets), g \in 1..Len(at.sets), NEW name
    PROVE  Grown(at, Extended(at, o, found, g, name), i, g, Len(at.sets[g].quantities), found)
    <1> DEFINE old == at.sets[g].quantities
    <1> DEFINE next == [ at EXCEPT !.sets[g].quantities = @ \o found ]
    <1> DEFINE b == Len(old)
    <1>0. Len(at.sets) \in Nat /\ g # 0 /\ DOMAIN at.sets = 1..Len(at.sets)
        BY ListFacts DEF Shaped
    <1>1. Extended(at, o, found, g, name) = next
        BY <1>0 DEF Extended
    <1>2. next.objects = at.objects /\ IsRecord(next, {"objects", "sets", "units"})
          /\ next.sets = [ at.sets EXCEPT ![g] = [ at.sets[g] EXCEPT !.quantities = old \o found ] ]
        BY DEF Shaped, IsRecord
    <1>3. IsList(old) /\ IsList(old \o found) /\ b \in Nat /\ Len(found) \in Nat /\ Len(old \o found) = b + Len(found)
          /\ (\A x \in 1..b : (old \o found)[x] = old[x])
          /\ \A x \in 1..(b + Len(found)) : x \in 1..b \/ (x - b \in 1..Len(found) /\ (old \o found)[x] = found[x - b])
        <2>1. IsList(old)
            BY DEF Shaped
        <2> HIDE DEF old
        <2> QED BY <2>1, ListsJoined, ListFacts
    <1> DEFINE set == [ at.sets[g] EXCEPT !.quantities = old \o found ]
    <1>4. IsRecord(set, {"name", "quantities"}) /\ set.name = at.sets[g].name /\ set.quantities = old \o found
        <2>1. IsRecord(at.sets[g], {"name", "quantities"})
            BY DEF Shaped
        <2> HIDE DEF old
        <2> QED BY <2>1 DEF IsRecord
    <1> HIDE DEF next, set
    <1>5. DOMAIN next.sets = 1..Len(at.sets) /\ \A s \in 1..Len(at.sets) : next.sets[s] = IF s = g THEN set ELSE at.sets[s]
        BY <1>0, <1>2 DEF set
    <1>6. IsList(next.sets) /\ Len(next.sets) = Len(at.sets)
        <2>1. PICK S : at.sets \in Seq(S)
            BY DEF Shaped, IsList
        <2>2. next.sets \in Seq(S \cup {set})
            <3>1. \A s \in 1..Len(at.sets) : next.sets[s] \in S \cup {set}
                BY <2>1, <1>5, ElementOfSeq
            <3>2. next.sets = [ s \in 1..Len(at.sets) |-> next.sets[s] ]
                BY <1>0, <1>2
            <3> QED BY <3>1, <3>2, <1>0
        <2>3. Len(next.sets) = Len(at.sets)
            BY <2>2, <1>5, <1>0, LenProperties
        <2> QED BY <2>2, <2>3 DEF IsList
    <1>7. Shaped(next)
        BY <1>2, <1>3, <1>4, <1>5, <1>6 DEF Shaped
    <1>8. \A s \in 1..Len(at.sets) :
              next.sets[s].name = at.sets[s].name /\ Len(at.sets[s].quantities) <= Len(next.sets[s].quantities)
        <2>1. \A s \in 1..Len(at.sets) : Len(at.sets[s].quantities) \in Nat
            BY ListFacts DEF Shaped
        <2>2. b <= Len(old \o found)
            BY <1>3
        <2> HIDE DEF b
        <2>3. Len(at.sets[g].quantities) <= Len(old \o found)
            BY <2>2 DEF b
        <2> HIDE DEF old
        <2> QED BY <2>1, <2>3, <1>4, <1>5
    <1>9. ASSUME NEW x \in Spot(at) PROVE AtSpot(next, x) = AtSpot(at, x)
        <2>1. PICK s, y : x = <<s, y>>
            BY SpotIs
        <2>2. s \in 1..Len(at.sets) /\ y \in 1..Len(at.sets[s].quantities)
            BY <2>1, SpotIs
        <2>3. next.sets[s].quantities[y] = at.sets[s].quantities[y]
            BY <2>2, <1>3, <1>4, <1>5
        <2> QED BY <2>1, <2>3 DEF AtSpot
    <1>10. ASSUME NEW x \in Spot(next)
           PROVE  x \in Spot(at) \/ (x[1] = g /\ x[2] - b \in 1..Len(found) /\ AtSpot(next, x) = found[x[2] - b])
        <2>1. PICK s, y : x = <<s, y>>
            BY <1>7, SpotIs
        <2>2. s \in 1..Len(at.sets) /\ y \in 1..Len(next.sets[s].quantities)
            BY <2>1, <1>6, <1>7, SpotIs
        <2>3. CASE s # g
            BY <2>1, <2>2, <2>3, <1>5, SpotIs
        <2>4. CASE s = g
            <3>1. y \in 1..(b + Len(found)) /\ next.sets[s].quantities = old \o found
                BY <2>2, <2>4, <1>3, <1>4, <1>5
            <3>2. CASE y \in 1..b
                BY <2>1, <2>2, <2>4, <3>2, SpotIs
            <3>3. CASE y - b \in 1..Len(found) /\ (old \o found)[y] = found[y - b]
                BY <2>1, <2>4, <3>1, <3>3 DEF AtSpot
            <3> QED BY <3>1, <3>2, <3>3, <1>3
        <2> QED BY <2>3, <2>4
    <1>11. \A j \in DOMAIN at.objects :
              /\ SameBody(next.objects[j], at.objects[j])
              /\ ToSet(at.objects[j].sets) \subseteq ToSet(next.objects[j].sets)
              /\ \A s \in ToSet(next.objects[j].sets) : s \in ToSet(at.objects[j].sets)
        BY <1>2 DEF SameBody
    <1>12. g \in ToSet(next.objects[i].sets)
        BY <1>2
    <1> HIDE DEF old, b
    <1>13. Grown(at, next, i, g, b, found)
        BY <1>2, <1>3, <1>6, <1>7, <1>8, <1>9, <1>10, <1>11, <1>12, <1>0 DEF Grown
    <1> QED BY <1>1, <1>13 DEF old, b

LEMMA SetAdded ==
    ASSUME NEW at, Shaped(at), NEW i \in DOMAIN at.objects, NEW o, NEW found, IsList(found), found # <<>>, NEW name,
           o.id = at.objects[i].id, \A j \in DOMAIN at.objects : at.objects[j].id = o.id => j = i
    PROVE  Grown(at, Extended(at, o, found, 0, name), i, Len(at.sets) + 1, 0, found)
    <1> DEFINE g == Len(at.sets) + 1
    <1> DEFINE set == [ name |-> name, quantities |-> found ]
    <1> DEFINE objects == HavingSet(at.objects, o, g)
    <1> DEFINE next == [ at EXCEPT !.sets = Append(@, set), !.objects = objects ]
    <1>0. Len(at.sets) \in Nat /\ DOMAIN at.sets = 1..Len(at.sets) /\ Len(found) \in Nat
        BY ListFacts DEF Shaped
    <1>1. Extended(at, o, found, 0, name) = next
        BY DEF Extended
    <1>2. IsRecord(next, {"objects", "sets", "units"}) /\ next.sets = Append(at.sets, set) /\ next.objects = objects
        <2> HIDE DEF objects, set
        <2> QED BY DEF Shaped, IsRecord
    <1>3. DOMAIN next.objects = DOMAIN at.objects
        BY <1>2 DEF HavingSet
    <1>4. ASSUME NEW j \in DOMAIN at.objects, j # i PROVE next.objects[j] = at.objects[j]
        BY <1>2, <1>4 DEF HavingSet
    <1>5. next.objects[i] = [ at.objects[i] EXCEPT !.sets = Append(at.objects[i].sets, g) ]
        BY <1>2 DEF HavingSet
    <1> HIDE DEF next, objects
    <1>6. /\ IsList(next.sets) /\ Len(next.sets) = g /\ next.sets[g] = set
          /\ \A s \in 1..Len(at.sets) : next.sets[s] = at.sets[s]
        <2> HIDE DEF set
        <2> QED BY <1>2, Lengthened DEF Shaped
    <1>7. IsRecord(set, {"name", "quantities"}) /\ set.quantities = found
        BY DEF IsRecord
    <1> HIDE DEF set
    <1>8. /\ IsRecord(next.objects[i], Fields) /\ SameBody(next.objects[i], at.objects[i])
          /\ next.objects[i].sets = Append(at.objects[i].sets, g)
        BY <1>5 DEF Shaped, IsRecord, Fields, SameBody
    <1>9. IsList(next.objects[i].sets) /\ ToSet(next.objects[i].sets) = ToSet(at.objects[i].sets) \cup {g}
        <2>1. IsList(at.objects[i].sets)
            BY DEF Shaped
        <2> HIDE DEF g
        <2> QED BY <1>8, <2>1, Lengthened
    <1>10. \A s \in 1..g : s \in 1..Len(at.sets) \/ s = g
        BY <1>0
    <1>11. Shaped(next)
        <2>1. \A s \in 1..g : IsRecord(next.sets[s], {"name", "quantities"}) /\ IsList(next.sets[s].quantities)
            BY <1>6, <1>7, <1>10 DEF Shaped
        <2>2. \A j \in DOMAIN at.objects : IsRecord(next.objects[j], Fields) /\ IsList(next.objects[j].sets)
            BY <1>4, <1>8, <1>9 DEF Shaped
        <2> HIDE DEF g
        <2> QED BY <2>1, <2>2, <1>2, <1>3, <1>6 DEF Shaped
    <1>12. \A j \in DOMAIN at.objects :
              /\ SameBody(next.objects[j], at.objects[j])
              /\ ToSet(at.objects[j].sets) \subseteq ToSet(next.objects[j].sets)
              /\ \A s \in ToSet(next.objects[j].sets) : s \in ToSet(at.objects[j].sets) \/ (s = g /\ s \in 1..g)
        <2>1. g \in 1..g
            BY <1>0
        <2>2. \A p : SameBody(p, p)
            BY DEF SameBody
        <2> HIDE DEF g
        <2> QED BY <2>1, <2>2, <1>4, <1>8, <1>9
    <1>13. g \in ToSet(next.objects[i].sets)
        BY <1>9
    <1>14. \A s \in 1..Len(at.sets) :
              next.sets[s].name = at.sets[s].name /\ Len(at.sets[s].quantities) <= Len(next.sets[s].quantities)
        <2>1. \A s \in 1..Len(at.sets) : Len(at.sets[s].quantities) \in Nat
            BY ListFacts DEF Shaped
        <2> QED BY <2>1, <1>6
    <1>15. ASSUME NEW x \in Spot(at) PROVE AtSpot(next, x) = AtSpot(at, x)
        <2>1. PICK s, y : x = <<s, y>>
            BY SpotIs
        <2>2. s \in 1..Len(at.sets)
            BY <2>1, SpotIs
        <2> QED BY <2>1, <2>2, <1>6 DEF AtSpot
    <1>16. ASSUME NEW x \in Spot(next)
           PROVE  x \in Spot(at) \/ (x[1] = g /\ x[2] - 0 \in 1..Len(found) /\ AtSpot(next, x) = found[x[2] - 0])
        <2>1. PICK s, y : x = <<s, y>> /\ y \in Nat
            BY <1>11, SpotIs
        <2>2. s \in 1..g /\ y \in 1..Len(next.sets[s].quantities)
            BY <2>1, <1>6, <1>11, SpotIs
        <2>3. CASE s \in 1..Len(at.sets)
            BY <2>1, <2>2, <2>3, <1>6, SpotIs
        <2>4. CASE s = g
            <3>1. next.sets[s].quantities = found
                BY <2>4, <1>6, <1>7
            <3>2. x[1] = g /\ x[2] = y /\ x[2] - 0 = y
                BY <2>1, <2>4
            <3> HIDE DEF g
            <3> QED BY <2>2, <3>1, <3>2, <2>4, <2>1 DEF AtSpot
        <2> QED BY <2>2, <2>3, <2>4, <1>10
    <1>17. Len(at.sets) <= Len(next.sets) /\ 0 \in Nat
        BY <1>0, <1>6
    <1>18. Grown(at, next, i, g, 0, found)
        BY <1>3, <1>6, <1>11, <1>12, <1>13, <1>14, <1>15, <1>16, <1>17 DEF Grown
    <1> QED BY <1>1, <1>18

(* ----- what holds after every object ------------------------------------------ *)
StillThere(m, at) ==
    /\ Shaped(at) /\ Len(m.sets) <= Len(at.sets) /\ DOMAIN at.objects = DOMAIN m.objects
    /\ \A j \in DOMAIN m.objects :
          /\ SameBody(at.objects[j], m.objects[j])
          /\ ToSet(m.objects[j].sets) \subseteq ToSet(at.objects[j].sets)
          /\ \A s \in ToSet(at.objects[j].sets) :
                s \in 1..Len(at.sets) /\ (s \in ToSet(m.objects[j].sets) \/ s > Len(m.sets))
    /\ \A s \in 1..Len(m.sets) :
          at.sets[s].name = m.sets[s].name /\ Len(m.sets[s].quantities) <= Len(at.sets[s].quantities)
    /\ \A x \in Spot(m) : AtSpot(at, x) = AtSpot(m, x)
SpotsAreKnown(m, at, i) ==
    \A x \in Spot(at) :
        IF AtSpot(at, x).figure = <<>> THEN x \in Spot(m)
        ELSE \E p \in 1..i : x[1] \in ToSet(at.objects[p].sets) /\ Gain(m, m.objects[p], AtSpot(at, x))
GainedOnce(at) ==
    \A x, y \in Spot(at) :
        /\ AtSpot(at, x).figure # <<>> /\ AtSpot(at, y).figure # <<>>
        /\ AtSpot(at, x).figure[1].of = AtSpot(at, y).figure[1].of
        /\ AtSpot(at, x).name = AtSpot(at, y).name
        => x = y
TakenOff(m, at, i) == StillThere(m, at) /\ SpotsAreKnown(m, at, i) /\ GainedOnce(at)

LEMMA AuthoredFacts ==
    ASSUME NEW m, IsAuthored(m)
    PROVE  /\ Shaped(m) /\ Len(m.objects) \in Nat /\ DOMAIN m.objects = 1..Len(m.objects)
           /\ Len(m.sets) \in Nat /\ DOMAIN m.sets = 1..Len(m.sets) /\ m.units \in Seq(ToSet(m.units))
           /\ \A j \in DOMAIN m.objects : m.objects[j] \in ToSet(m.objects)
           /\ \A j \in DOMAIN m.objects : ToSet(m.objects[j].sets) \subseteq 1..Len(m.sets)
           /\ \A i, j \in DOMAIN m.objects : m.objects[i].id = m.objects[j].id => i = j
           /\ \A x \in Spot(m) : AtSpot(m, x).figure = <<>>
    <1>1. IsList(m.objects) /\ IsList(m.sets)
        BY DEF IsAuthored, IsList
    <1>2. Len(m.objects) \in Nat /\ DOMAIN m.objects = 1..Len(m.objects) /\ Len(m.sets) \in Nat /\ DOMAIN m.sets = 1..Len(m.sets)
        BY <1>1, ListFacts
    <1>3. m.units \in Seq(ToSet(m.units))
        BY DEF IsAuthored
    <1>4. (\A j \in DOMAIN m.objects : m.objects[j] \in ToSet(m.objects)) /\ \A s \in DOMAIN m.sets : m.sets[s] \in ToSet(m.sets)
        BY DEF ToSet
    <1>5. \A j \in DOMAIN m.objects : IsRecord(m.objects[j], Fields) /\ m.objects[j].sets \in Seq(1..Len(m.sets))
        BY <1>2, <1>4 DEF IsAuthored, Fields
    <1>6. \A s \in DOMAIN m.sets : IsRecord(m.sets[s], {"name", "quantities"}) /\ IsList(m.sets[s].quantities)
        BY <1>4 DEF IsAuthored, IsList
    <1>7. Shaped(m)
        BY <1>1, <1>2, <1>5, <1>6 DEF Shaped, IsAuthored, IsList
    <1>8. ASSUME NEW j \in DOMAIN m.objects PROVE ToSet(m.objects[j].sets) \subseteq 1..Len(m.sets)
        <2>1. IsList(m.objects[j].sets) /\ DOMAIN m.objects[j].sets = 1..Len(m.objects[j].sets)
            BY <1>5, ListFacts DEF IsList
        <2> QED BY <1>5, <2>1, ElementOfSeq DEF ToSet
    <1>9. ASSUME NEW x \in Spot(m) PROVE AtSpot(m, x).figure = <<>>
        <2>1. PICK s, y : x = <<s, y>>
            BY <1>7, SpotIs
        <2>2. s \in 1..Len(m.sets) /\ y \in 1..Len(m.sets[s].quantities)
            BY <2>1, <1>7, SpotIs
        <2>3. DOMAIN m.sets[s].quantities = 1..Len(m.sets[s].quantities)
            BY <2>2, <1>2, <1>6, ListFacts
        <2>4. m.sets[s].quantities[y] \in ToSet(m.sets[s].quantities)
            BY <2>2, <2>3 DEF ToSet
        <2>5. m.sets[s].quantities[y].figure = <<>>
            BY <2>2, <2>4, <1>2, <1>4 DEF IsAuthored
        <2> QED BY <2>1, <2>5 DEF AtSpot
    <1>10. \A i, j \in DOMAIN m.objects : m.objects[i].id = m.objects[j].id => i = j
        BY DEF IsAuthored
    <1> QED BY <1>2, <1>3, <1>4, <1>7, <1>8, <1>9, <1>10

LEMMA TakesOffNothing ==
    ASSUME NEW m, IsAuthored(m)
    PROVE  TakenOff(m, m, 0)
    <1>1. StillThere(m, m)
        <2>1. \A j \in DOMAIN m.objects : SameBody(m.objects[j], m.objects[j])
            BY DEF SameBody
        <2>2. \A s \in 1..Len(m.sets) : Len(m.sets[s].quantities) <= Len(m.sets[s].quantities)
            <3>1. \A s \in 1..Len(m.sets) : Len(m.sets[s].quantities) \in Nat
                BY AuthoredFacts, ListFacts DEF Shaped
            <3> QED BY <3>1
        <2>3. Len(m.sets) <= Len(m.sets)
            BY AuthoredFacts
        <2> QED BY <2>1, <2>2, <2>3, AuthoredFacts DEF StillThere
    <1>2. SpotsAreKnown(m, m, 0) /\ GainedOnce(m)
        BY AuthoredFacts DEF SpotsAreKnown, GainedOnce
    <1> QED BY <1>1, <1>2 DEF TakenOff

LEMMA SpotsStay ==
    ASSUME NEW m, NEW at, Shaped(m), Shaped(at), Len(m.sets) <= Len(at.sets),
           \A s \in 1..Len(m.sets) : Len(m.sets[s].quantities) <= Len(at.sets[s].quantities)
    PROVE  Spot(m) \subseteq Spot(at)
    <1> SUFFICES ASSUME NEW x \in Spot(m) PROVE x \in Spot(at)
        OBVIOUS
    <1>1. PICK s, y : x = <<s, y>>
        BY SpotIs
    <1>2. s \in 1..Len(m.sets) /\ y \in 1..Len(m.sets[s].quantities)
        BY <1>1, SpotIs
    <1>3. Len(m.sets) \in Nat /\ Len(at.sets) \in Nat /\ s \in 1..Len(at.sets)
        BY <1>2, ListFacts DEF Shaped
    <1>4. Len(m.sets[s].quantities) \in Nat /\ Len(at.sets[s].quantities) \in Nat
        BY <1>2, <1>3, ListFacts DEF Shaped
    <1>5. y \in 1..Len(at.sets[s].quantities)
        <2>1. Len(m.sets[s].quantities) <= Len(at.sets[s].quantities)
            BY <1>2
        <2> QED BY <2>1, <1>2, <1>4
    <1> QED BY <1>1, <1>3, <1>5, SpotIs

LEMMA GrowthKeeps ==
    ASSUME NEW m, IsAuthored(m), NEW at, StillThere(m, at), NEW next, NEW i \in DOMAIN m.objects,
           NEW g, NEW b, NEW found, Grown(at, next, i, g, b, found)
    PROVE  StillThere(m, next)
    <1>1. /\ Shaped(m) /\ Shaped(at) /\ Shaped(next) /\ Len(m.sets) <= Len(at.sets) /\ Len(at.sets) <= Len(next.sets)
          /\ DOMAIN next.objects = DOMAIN m.objects
        BY AuthoredFacts DEF StillThere, Grown
    <1>2. Len(m.sets) \in Nat /\ Len(at.sets) \in Nat /\ Len(next.sets) \in Nat
        BY <1>1, ListFacts DEF Shaped
    <1>3. ASSUME NEW j \in DOMAIN m.objects
          PROVE  /\ SameBody(next.objects[j], m.objects[j])
                 /\ ToSet(m.objects[j].sets) \subseteq ToSet(next.objects[j].sets)
                 /\ \A s \in ToSet(next.objects[j].sets) :
                       s \in 1..Len(next.sets) /\ (s \in ToSet(m.objects[j].sets) \/ s > Len(m.sets))
        <2>1. SameBody(next.objects[j], at.objects[j]) /\ SameBody(at.objects[j], m.objects[j])
            BY DEF StillThere, Grown
        <2>2. SameBody(next.objects[j], m.objects[j])
            BY <2>1 DEF SameBody
        <2>3. ToSet(m.objects[j].sets) \subseteq ToSet(at.objects[j].sets) /\ ToSet(at.objects[j].sets) \subseteq ToSet(next.objects[j].sets)
            BY DEF StillThere, Grown
        <2>4. ASSUME NEW s \in ToSet(next.objects[j].sets)
              PROVE  s \in 1..Len(next.sets) /\ (s \in ToSet(m.objects[j].sets) \/ s > Len(m.sets))
            <3>1. s \in ToSet(at.objects[j].sets) \/ (s = Len(at.sets) + 1 /\ s \in 1..Len(next.sets))
                BY DEF StillThere, Grown
            <3>2. s \in ToSet(at.objects[j].sets) => s \in 1..Len(at.sets) /\ (s \in ToSet(m.objects[j].sets) \/ s > Len(m.sets))
                BY DEF StillThere
            <3>3. CASE s \in ToSet(at.objects[j].sets)
                BY <3>2, <3>3, <1>1, <1>2
            <3>4. CASE s = Len(at.sets) + 1 /\ s \in 1..Len(next.sets)
                BY <3>4, <1>1, <1>2
            <3> QED BY <3>1, <3>3, <3>4
        <2> QED BY <2>2, <2>3, <2>4
    <1>4. ASSUME NEW s \in 1..Len(m.sets)
          PROVE  /\ next.sets[s].name = m.sets[s].name
                 /\ Len(m.sets[s].quantities) <= Len(at.sets[s].quantities)
                 /\ Len(m.sets[s].quantities) <= Len(next.sets[s].quantities)
        <2>1. s \in 1..Len(at.sets) /\ s \in 1..Len(next.sets)
            BY <1>1, <1>2
        <2>2. Len(m.sets[s].quantities) \in Nat /\ Len(at.sets[s].quantities) \in Nat /\ Len(next.sets[s].quantities) \in Nat
            BY <2>1, <1>1, ListFacts DEF Shaped
        <2>3. next.sets[s].name = at.sets[s].name /\ Len(at.sets[s].quantities) <= Len(next.sets[s].quantities)
            BY <2>1 DEF Grown
        <2>4. at.sets[s].name = m.sets[s].name /\ Len(m.sets[s].quantities) <= Len(at.sets[s].quantities)
            BY <1>4 DEF StillThere
        <2>5. \A u, v, w \in Nat : u <= v /\ v <= w => u <= w
            OBVIOUS
        <2>6. Len(m.sets[s].quantities) <= Len(next.sets[s].quantities)
            BY <2>2, <2>3, <2>4, <2>5
        <2> QED BY <2>3, <2>4, <2>6
    <1>5. Spot(m) \subseteq Spot(at)
        BY <1>1, <1>4, SpotsStay
    <1>6. \A x \in Spot(m) : AtSpot(next, x) = AtSpot(m, x)
        BY <1>5 DEF StillThere, Grown
    <1>7. Len(m.sets) <= Len(next.sets)
        BY <1>1, <1>2
    <1> QED BY <1>1, <1>3, <1>4, <1>6, <1>7 DEF StillThere

LEMMA GrowthIsGain ==
    ASSUME NEW m, IsAuthored(m), HasScales(m.units), NEW i \in DOMAIN m.objects,
           NEW at, TakenOff(m, at, i - 1), NEW next, NEW g, NEW b,
           Grown(at, next, i, g, b, FoundFor(m, m.objects[i]))
    PROVE  TakenOff(m, next, i)
    <1> DEFINE o == m.objects[i]
    <1> DEFINE found == FoundFor(m, o)
    <1>1. StillThere(m, at) /\ SpotsAreKnown(m, at, i - 1) /\ GainedOnce(at)
        BY DEF TakenOff
    <1>2. StillThere(m, next)
        BY <1>1, GrowthKeeps
    <1>3. i \in 1..Len(m.objects) /\ Len(m.objects) \in Nat /\ 1..(i - 1) \subseteq DOMAIN m.objects /\ 1..(i - 1) \subseteq 1..i
          /\ i \in 1..i /\ i \notin 1..(i - 1)
        BY AuthoredFacts
    <1>4. \A n \in 1..Len(found) :
              /\ Gain(m, o, found[n]) /\ found[n].figure # <<>> /\ found[n].figure[1].of = o.id
        <2>1. m.units \in Seq(ToSet(m.units))
            BY AuthoredFacts
        <2>2. \A n \in 1..Len(found) : Gain(m, o, found[n])
            BY FoundIs
        <2> HIDE DEF found, o
        <2> TAKE n \in 1..Len(found)
        <2> DEFINE q == found[n]
        <2>3. HasScales(m.units) /\ Gain(m, o, q)
            BY <2>2
        <2> HIDE DEF q
        <2>4. q.figure # <<>> /\ q.figure[1].of = o.id
            BY <2>1, <2>3, GainIsItsOwners
        <2> QED BY <2>3, <2>4 DEF q
    <1>5. \A n, k \in 1..Len(found) : found[n].name = found[k].name => n = k
        BY FoundIs
    <1> HIDE DEF found
    <1> DEFINE Fresh(x) == x[1] = g /\ x[2] - b \in 1..Len(found) /\ AtSpot(next, x) = found[x[2] - b]
    <1>6. \A x \in Spot(next) : x \in Spot(at) \/ Fresh(x)
        BY DEF Grown, found
    <1>7. \A x \in Spot(at) : AtSpot(next, x) = AtSpot(at, x)
        BY DEF Grown
    <1>8. \A x \in Spot(next) : Fresh(x) =>
              AtSpot(next, x).figure # <<>> /\ AtSpot(next, x).figure[1].of = o.id /\ Gain(m, o, AtSpot(next, x))
        BY <1>4
    <1>9. \A x \in Spot(at) : AtSpot(at, x).figure # <<>> =>
              \E p \in 1..(i - 1) : x[1] \in ToSet(at.objects[p].sets) /\ Gain(m, m.objects[p], AtSpot(at, x))
        BY <1>1 DEF SpotsAreKnown
    <1>10. ASSUME NEW x \in Spot(at), AtSpot(at, x).figure # <<>> PROVE AtSpot(at, x).figure[1].of # o.id
        <2>1. PICK p \in 1..(i - 1) : Gain(m, m.objects[p], AtSpot(at, x))
            BY <1>9, <1>10
        <2>2. m.units \in Seq(ToSet(m.units))
            BY AuthoredFacts
        <2>3. AtSpot(at, x).figure[1].of = m.objects[p].id
            <3> DEFINE q == AtSpot(at, x)
            <3> DEFINE owner == m.objects[p]
            <3>1. HasScales(m.units) /\ Gain(m, owner, q)
                BY <2>1
            <3> HIDE DEF q, owner
            <3>2. q.figure[1].of = owner.id
                BY <2>2, <3>1, GainIsItsOwners
            <3> QED BY <3>2 DEF q, owner
        <2>4. m.objects[p].id # m.objects[i].id
            BY <1>3, AuthoredFacts
        <2> QED BY <2>3, <2>4
    <1>11. SpotsAreKnown(m, next, i)
        <2> SUFFICES ASSUME NEW x \in Spot(next)
                     PROVE  IF AtSpot(next, x).figure = <<>> THEN x \in Spot(m)
                            ELSE \E p \in 1..i : x[1] \in ToSet(next.objects[p].sets) /\ Gain(m, m.objects[p], AtSpot(next, x))
            BY DEF SpotsAreKnown
        <2>1. CASE x \in Spot(at)
            <3>1. AtSpot(next, x) = AtSpot(at, x)
                BY <2>1, <1>7
            <3>2. AtSpot(at, x).figure = <<>> => x \in Spot(m)
                BY <2>1, <1>1 DEF SpotsAreKnown
            <3>3. ASSUME AtSpot(at, x).figure # <<>>
                  PROVE \E p \in 1..i : x[1] \in ToSet(next.objects[p].sets) /\ Gain(m, m.objects[p], AtSpot(next, x))
                <4>1. PICK p \in 1..(i - 1) : x[1] \in ToSet(at.objects[p].sets) /\ Gain(m, m.objects[p], AtSpot(at, x))
                    BY <1>9, <2>1, <3>3
                <4>2. p \in DOMAIN at.objects /\ p \in 1..i
                    BY <1>1, <1>3 DEF StillThere
                <4>3. x[1] \in ToSet(next.objects[p].sets)
                    BY <4>1, <4>2 DEF Grown
                <4> QED BY <4>1, <4>2, <4>3, <3>1
            <3> QED BY <3>1, <3>2, <3>3
        <2>2. CASE Fresh(x)
            <3>1. x[1] \in ToSet(next.objects[i].sets)
                BY <2>2 DEF Grown
            <3> QED BY <2>2, <3>1, <1>3, <1>8
        <2> QED BY <2>1, <2>2, <1>6
    <1>12. GainedOnce(next)
        <2> SUFFICES ASSUME NEW x \in Spot(next), NEW y \in Spot(next),
                            AtSpot(next, x).figure # <<>>, AtSpot(next, y).figure # <<>>,
                            AtSpot(next, x).figure[1].of = AtSpot(next, y).figure[1].of,
                            AtSpot(next, x).name = AtSpot(next, y).name
                     PROVE  x = y
            BY DEF GainedOnce
        <2>1. CASE x \in Spot(at) /\ y \in Spot(at)
            BY <2>1, <1>1, <1>7 DEF GainedOnce
        <2>2. CASE x \in Spot(at) /\ Fresh(y)
            BY <2>2, <1>7, <1>8, <1>10
        <2>3. CASE Fresh(x) /\ y \in Spot(at)
            BY <2>3, <1>7, <1>8, <1>10
        <2>4. CASE Fresh(x) /\ Fresh(y)
            <3>1. x[2] - b = y[2] - b /\ x[1] = y[1]
                BY <2>4, <1>5
            <3>2. b \in Nat /\ x \in Nat \X Nat /\ y \in Nat \X Nat
                BY SpotIs DEF Grown
            <3>3. x[2] = y[2] /\ x = <<x[1], x[2]>> /\ y = <<y[1], y[2]>>
                BY <3>1, <3>2
            <3> QED BY <3>1, <3>3
        <2> HIDE DEF Fresh
        <2> QED BY <2>1, <2>2, <2>3, <2>4, <1>6
    <1> QED BY <1>2, <1>11, <1>12 DEF TakenOff

(* One more object: nothing, one of its sets is extended, or it gets a new one. *)
LEMMA OneMoreObject ==
    ASSUME NEW m, IsAuthored(m), HasScales(m.units), NEW i \in DOMAIN m.objects, NEW at, TakenOff(m, at, i - 1)
    PROVE  TakenOff(m, IF Audited(m, m.objects[i]) THEN Inject(m, at, m.objects[i]) ELSE at, i)
    <1> DEFINE o == m.objects[i]
    <1> DEFINE found == FoundFor(m, o)
    <1> DEFINE name == SpecFor(o.class)[1].set
    <1> DEFINE g == ExistingSet(m, o, name)
    <1>1. TakenOff(m, at, i)
        <2>1. i \in Nat /\ 1..(i - 1) \subseteq 1..i
            BY AuthoredFacts
        <2>2. SpotsAreKnown(m, at, i)
            BY <2>1 DEF TakenOff, SpotsAreKnown
        <2> QED BY <2>2 DEF TakenOff
    <1>2. Inject(m, at, o) = Extended(at, o, found, g, name)
        BY DEF Inject, InjectFigures, FoundFor, Figures, Gained
    <1>3. IsList(found) /\ StillThere(m, at) /\ Shaped(at) /\ i \in DOMAIN at.objects
        BY FoundIs DEF TakenOff, StillThere
    <1>4. ToSet(o.sets) \subseteq ToSet(at.objects[i].sets) /\ IsList(o.sets) /\ o.id = at.objects[i].id
          /\ \A j \in DOMAIN at.objects : at.objects[j].id = o.id => j = i
        <2>1. \A j \in DOMAIN m.objects : at.objects[j].id = m.objects[j].id
            BY <1>3 DEF StillThere, SameBody
        <2>2. DOMAIN at.objects = DOMAIN m.objects
            BY <1>3 DEF StillThere
        <2> QED BY <2>1, <2>2, <1>3, AuthoredFacts DEF StillThere, Shaped
    <1>5. CASE found = <<>>
        <2>1. Inject(m, at, o) = at
            BY <1>2, <1>5 DEF Extended
        <2> QED BY <2>1, <1>1
    <1>6. CASE found # <<>> /\ g # 0
        <2>1. g \in ToSet(at.objects[i].sets)
            BY <1>4, <1>6, ExtendsItsOwn
        <2>2. g \in 1..Len(at.sets)
            BY <2>1, <1>3 DEF StillThere
        <2> HIDE DEF found, g, name
        <2>3. Grown(at, Inject(m, at, o), i, g, Len(at.sets[g].quantities), found)
            BY <2>1, <2>2, <1>2, <1>3, <1>6, SetExtended
        <2>4. TakenOff(m, Inject(m, at, o), i)
            BY <2>3, GrowthIsGain DEF found
        <2> QED BY <2>4, <1>1
    <1>7. CASE found # <<>> /\ g = 0
        <2> HIDE DEF found, g, name
        <2>1. Grown(at, Inject(m, at, o), i, Len(at.sets) + 1, 0, found)
            BY <1>2, <1>3, <1>4, <1>7, SetAdded
        <2>2. TakenOff(m, Inject(m, at, o), i)
            BY <2>1, GrowthIsGain DEF found
        <2> QED BY <2>2, <1>1
    <1> QED BY <1>5, <1>6, <1>7

(* The objects are taken one after the other. *)
PreprocessRun(m, f) ==
    /\ f[0] = m
    /\ \A i \in 1..Len(m.objects) : f[i] = IF Audited(m, m.objects[i]) THEN Inject(m, f[i - 1], m.objects[i]) ELSE f[i - 1]

LEMMA PreprocessRuns ==
    ASSUME NEW m, Len(m.objects) \in Nat, HasScales(m.units)
    PROVE  \E out : PreprocessRun(m, out) /\ Preprocess(m) = out[Len(m.objects)]
    <1> DEFINE base == m
    <1> DEFINE more(v, i) == IF Audited(m, m.objects[i]) THEN Inject(m, v, m.objects[i]) ELSE v
    <1> DEFINE N == Len(m.objects)
    <1> DEFINE Rule(f) == [ i \in 0..N |-> IF i = 0 THEN base ELSE more(f[i - 1], i) ]
    <1> DEFINE RunUpTo(n, f) == /\ f = [ i \in 0..n |-> f[i] ]
                             /\ f[0] = base
                             /\ \A i \in 1..n : f[i] = more(f[i - 1], i)
    <1> DEFINE out == CHOOSE g : g = Rule(g)
    <1>0. N \in Nat
        OBVIOUS
    <1>1. Preprocess(m) = out[N]
        BY DEF Preprocess
    <1>2. \A v, i : more(v, i) = IF Audited(m, m.objects[i]) THEN Inject(m, v, m.objects[i]) ELSE v
        OBVIOUS
    <1>3. base = m
        OBVIOUS
    <1> HIDE DEF more, base, N
    <1>4. \E g : RunUpTo(N, g)
        <2> DEFINE T == { n \in Nat : \E g : RunUpTo(n, g) }
        <2>1. 0 \in T
            <3>1. RunUpTo(0, [ i \in 0..0 |-> base ])
                OBVIOUS
            <3> QED BY <3>1
        <2>2. ASSUME NEW n \in Nat, n \in T PROVE n + 1 \in T
            <3>1. PICK f : RunUpTo(n, f)
                BY <2>2
            <3> DEFINE g == [ i \in 0..(n + 1) |-> IF i = n + 1 THEN more(f[n], n + 1) ELSE f[i] ]
            <3>2. g[0] = base
                BY <3>1
            <3>3. ASSUME NEW i \in 1..(n + 1) PROVE g[i] = more(g[i - 1], i)
                <4>1. CASE i = n + 1
                    <5>1. i \in 0..(n + 1) /\ i - 1 \in 0..(n + 1) /\ i - 1 = n /\ n # n + 1
                        BY <4>1
                    <5>2. g[i] = more(f[n], n + 1) /\ g[i - 1] = f[n]
                        BY <5>1, <4>1
                    <5> QED BY <5>2, <4>1
                <4>2. CASE i # n + 1
                    <5>1. i \in 1..n /\ i - 1 \in 0..(n + 1) /\ i - 1 # n + 1
                        BY <4>2
                    <5>2. g[i] = f[i] /\ g[i - 1] = f[i - 1]
                        BY <5>1, <4>2
                    <5>3. f[i] = more(f[i - 1], i)
                        BY <5>1, <3>1
                    <5> QED BY <5>2, <5>3
                <4> QED BY <4>1, <4>2
            <3>4. g = [ i \in 0..(n + 1) |-> g[i] ]
                OBVIOUS
            <3> HIDE DEF g
            <3>5. RunUpTo(n + 1, g)
                BY <3>2, <3>3, <3>4
            <3> HIDE DEF RunUpTo
            <3>6. \E h : RunUpTo(n + 1, h)
                BY <3>5
            <3> QED BY <3>6
        <2> HIDE DEF T
        <2>3. Nat \subseteq T
            BY <2>1, <2>2, Induction
        <2> QED BY <2>3, <1>0 DEF T
    <1>5. PICK g : RunUpTo(N, g)
        BY <1>4
    <1>6. g = Rule(g)
        <2>1. \A i \in 0..N : g[i] = Rule(g)[i]
            <3> TAKE i \in 0..N
            <3>1. i = 0 \/ i \in 1..N
                BY <1>0
            <3>2. Rule(g)[i] = IF i = 0 THEN base ELSE more(g[i - 1], i)
                OBVIOUS
            <3> HIDE DEF Rule
            <3> QED BY <3>1, <3>2, <1>5
        <2>2. g = [ i \in 0..N |-> g[i] ]
            BY <1>5
        <2> QED BY <2>1, <2>2
    <1>7. out = Rule(out)
        BY <1>6
    <1>8. out[0] = base /\ \A i \in 1..N : out[i] = more(out[i - 1], i)
        <2> HIDE DEF out
        <2>1. \A i \in 0..N : Rule(out)[i] = IF i = 0 THEN base ELSE more(out[i - 1], i)
            OBVIOUS
        <2> HIDE DEF Rule
        <2>2. \A i \in 0..N : out[i] = IF i = 0 THEN base ELSE more(out[i - 1], i)
            BY <2>1, <1>7
        <2>3. 0 \in 0..N /\ \A i \in 1..N : i \in 0..N /\ i # 0
            BY <1>0
        <2> QED BY <2>2, <2>3
    <1> HIDE DEF out
    <1>9. PreprocessRun(m, out)
        BY <1>2, <1>3, <1>8 DEF N, PreprocessRun
    <1>10. Preprocess(m) = out[Len(m.objects)]
        BY <1>1 DEF N
    <1> QED BY <1>9, <1>10

LEMMA SameBodySameFigures ==
    ASSUME NEW o, NEW p, SameBody(o, p)
    PROVE  Body(o) = Body(p) /\ HasOpenings(o) = HasOpenings(p) /\ ItemIds(Measured(o, BestSolid(o))) = ItemIds(Measured(p, BestSolid(p)))
    <1>1. o.reps = p.reps /\ o.voided = p.voided
        BY DEF SameBody
    <1>2. Body(o) = Body(p)
        BY <1>1 DEF Body
    <1>3. HasOpenings(o) = HasOpenings(p)
        BY <1>1 DEF HasOpenings
    <1>4. BestSolid(o) = BestSolid(p) /\ Sweeps(o) = Sweeps(p) /\ Polyhedra(o) = Polyhedra(p)
        BY <1>1 DEF BestSolid, Sweeps, Polyhedra
    <1>5. ItemIds(Measured(o, BestSolid(o))) = ItemIds(Measured(p, BestSolid(p)))
        BY <1>4 DEF Measured
    <1> QED BY <1>2, <1>3, <1>5

LEMMA GainsOfWhatIsTakenOff ==
    ASSUME NEW m, IsAuthored(m), NEW i \in 0..Len(m.objects), i # 0 => HasScales(m.units), NEW after, TakenOff(m, after, i)
    PROVE  GainsAreEarned(m, after)
    <1>1. StillThere(m, after) /\ SpotsAreKnown(m, after, i) /\ GainedOnce(after) /\ Shaped(after) /\ Shaped(m)
        BY AuthoredFacts DEF TakenOff, StillThere
    <1>2. ASSUME NEW s \in DOMAIN m.sets
          PROVE  m.sets[s].name = after.sets[s].name /\ IsPrefix(m.sets[s].quantities, after.sets[s].quantities)
        <2> DEFINE u == m.sets[s].quantities
        <2> DEFINE v == after.sets[s].quantities
        <2>1. s \in 1..Len(m.sets) /\ s \in 1..Len(after.sets)
            <3>1. Len(m.sets) \in Nat /\ Len(after.sets) \in Nat /\ Len(m.sets) <= Len(after.sets) /\ s \in 1..Len(m.sets)
                BY <1>1, AuthoredFacts, ListFacts DEF StillThere, Shaped
            <3> QED BY <3>1
        <2>2. m.sets[s].name = after.sets[s].name /\ Len(u) <= Len(v)
            BY <2>1, <1>1 DEF StillThere
        <2>3. IsList(u) /\ IsList(v)
            BY <2>1, <1>1 DEF Shaped
        <2>4. \A y \in 1..Len(u) : v[y] = u[y]
            <3> TAKE y \in 1..Len(u)
            <3>1. <<s, y>> \in Spot(m)
                BY <2>1, <1>1, SpotIs
            <3>2. AtSpot(after, <<s, y>>) = AtSpot(m, <<s, y>>)
                BY <3>1, <1>1 DEF StillThere
            <3> QED BY <3>2 DEF AtSpot
        <2> HIDE DEF u, v
        <2>5. IsPrefix(u, v)
            <3>1. Len(u) \in Nat /\ Len(v) \in Nat
                BY <2>3, ListFacts
            <3>2. PICK S : u \in Seq(S)
                BY <2>3 DEF IsList
            <3>3. PICK T : v \in Seq(T)
                BY <2>3 DEF IsList
            <3>4. SubSeq(u, 1, Len(u)) = [ y \in 1..Len(u) |-> u[y] ]
                BY <3>1, <3>2
            <3>5. SubSeq(v, 1, Len(u)) = [ y \in 1..Len(u) |-> v[y] ]
                BY <3>1, <3>3, <2>2
            <3>6. SubSeq(u, 1, Len(u)) = SubSeq(v, 1, Len(u))
                BY <3>4, <3>5, <2>4
            <3> QED BY <3>6, <2>2 DEF IsPrefix
        <2> QED BY <2>2, <2>5 DEF u, v
    <1>3. ASSUME NEW j \in DOMAIN m.objects, UnsharedSets(after, after.objects[j]) = ToSet(after.objects[j].sets),
                 NEW s \in ToSet(after.objects[j].sets), NEW y \in 1..Len(after.sets[s].quantities),
                 after.sets[s].quantities[y].figure # <<>>
          PROVE  HasScales(m.units) /\ Gain(m, m.objects[j], after.sets[s].quantities[y])
        <2>1. <<s, y>> \in Spot(after)
            BY <1>1, SpotIs DEF StillThere
        <2>2. AtSpot(after, <<s, y>>) = after.sets[s].quantities[y]
            BY DEF AtSpot
        <2>3. PICK p \in 1..i : s \in ToSet(after.objects[p].sets) /\ Gain(m, m.objects[p], after.sets[s].quantities[y])
            BY <2>1, <2>2, <1>1, <1>3 DEF SpotsAreKnown
        <2>4. p \in DOMAIN m.objects /\ p \in DOMAIN after.objects /\ i # 0
            BY <1>1, AuthoredFacts DEF StillThere
        <2>5. after.objects[p].id = after.objects[j].id
            <3>1. s \in UnsharedSets(after, after.objects[j])
                BY <1>3
            <3>2. after.objects[p] \in ToSet(after.objects)
                BY <2>4 DEF ToSet
            <3> QED BY <3>1, <3>2, <2>3 DEF UnsharedSets
        <2>6. m.objects[p].id = m.objects[j].id
            BY <2>4, <2>5, <1>1 DEF StillThere, SameBody
        <2>7. p = j
            BY <2>6, <2>4, AuthoredFacts
        <2> QED BY <2>3, <2>4, <2>7
    <1>4. ASSUME NEW j \in DOMAIN m.objects, UnsharedSets(after, after.objects[j]) = ToSet(after.objects[j].sets),
                 NEW s \in ToSet(after.objects[j].sets), NEW y \in 1..Len(after.sets[s].quantities),
                 after.sets[s].quantities[y].figure # <<>>
          PROVE  LET q == after.sets[s].quantities[y]
                 IN  /\ EarnedBy(m, after.objects[j], q, q.figure[1], Power(q.name[1]))
                     /\ Cardinality(Named(after, after.objects[j], q.name[1])) = 1
        <2> DEFINE o == m.objects[j]
        <2> DEFINE q == after.sets[s].quantities[y]
        <2>1. HasScales(m.units) /\ Gain(m, o, q) /\ m.units \in Seq(ToSet(m.units))
            BY <1>3, <1>4, AuthoredFacts
        <2>2. SameBody(after.objects[j], o)
            BY <1>1 DEF StillThere
        <2>3. /\ EarnedBy(m, o, q, q.figure[1], Power(q.name[1]))
              /\ q.figure[1].of = o.id /\ q.name = <<q.name[1], "">>
              /\ \A name \in Existing(m, o) : name[1] # q.name[1]
            <3> HIDE DEF o, q
            <3> QED BY <2>1, GainIsEarned
        <2>4. EarnedBy(m, after.objects[j], q, q.figure[1], Power(q.name[1]))
            <3>1. after.objects[j].id = o.id
                BY <2>2 DEF SameBody
            <3>2. Body(after.objects[j]) = Body(o) /\ HasOpenings(after.objects[j]) = HasOpenings(o)
                  /\ ItemIds(Measured(after.objects[j], BestSolid(after.objects[j]))) = ItemIds(Measured(o, BestSolid(o)))
                <4> HIDE DEF o
                <4> QED BY <2>2, SameBodySameFigures
            <3> HIDE DEF o, q
            <3> QED BY <2>3, <3>1, <3>2 DEF EarnedBy
        <2> DEFINE x == <<s, y>>
        <2> DEFINE N == Named(after, after.objects[j], q.name[1])
        <2>5. DOMAIN after.sets[s].quantities = 1..Len(after.sets[s].quantities) /\ x \in N
            <3>1. s \in 1..Len(after.sets)
                BY <1>1 DEF StillThere
            <3>2. DOMAIN after.sets[s].quantities = 1..Len(after.sets[s].quantities)
                BY <3>1, <1>1, ListFacts DEF Shaped
            <3>3. x \in UNION { {t} \X DOMAIN after.sets[t].quantities : t \in ToSet(after.objects[j].sets) }
                BY <3>2
            <3> QED BY <3>2, <3>3 DEF Named
        <2>6. ASSUME NEW z \in N PROVE z = x
            <3>1. PICK t \in ToSet(after.objects[j].sets) :
                      z \in {t} \X DOMAIN after.sets[t].quantities /\ after.sets[z[1]].quantities[z[2]].name[1] = q.name[1]
                BY DEF Named
            <3>2. PICK w \in DOMAIN after.sets[t].quantities : z = <<t, w>>
                BY <3>1
            <3> DEFINE r == after.sets[t].quantities[w]
            <3>3. z[1] = t /\ z[2] = w /\ r.name[1] = q.name[1]
                BY <3>1, <3>2
            <3>4. t \in 1..Len(after.sets) /\ w \in 1..Len(after.sets[t].quantities)
                <4>1. t \in 1..Len(after.sets)
                    BY <1>1 DEF StillThere
                <4> QED BY <4>1, <1>1, ListFacts DEF Shaped
            <3>5. z \in Spot(after) /\ x \in Spot(after) /\ AtSpot(after, z) = r /\ AtSpot(after, x) = q
                <4>1. s \in 1..Len(after.sets)
                    BY <1>1 DEF StillThere
                <4> QED BY <4>1, <3>2, <3>4, <1>1, SpotIs DEF AtSpot
            <3>6. CASE r.figure = <<>>
                <4>1. z \in Spot(m) /\ AtSpot(m, z) = r
                    BY <3>5, <3>6, <1>1 DEF SpotsAreKnown, StillThere
                <4>2. t \in 1..Len(m.sets) /\ w \in 1..Len(m.sets[t].quantities) /\ m.sets[t].quantities[w] = r
                    BY <4>1, <3>2, <1>1, SpotIs DEF AtSpot
                <4>3. t \in ToSet(o.sets)
                    <5>1. t \in ToSet(o.sets) \/ t > Len(m.sets)
                        BY <1>1 DEF StillThere
                    <5>2. Len(m.sets) \in Nat
                        BY AuthoredFacts
                    <5> QED BY <5>1, <5>2, <4>2
                <4>4. r.name \in Existing(m, o)
                    <5>1. r \in ToSet(m.sets[t].quantities)
                        <6>1. DOMAIN m.sets[t].quantities = 1..Len(m.sets[t].quantities)
                            BY <4>2, <1>1, ListFacts DEF Shaped
                        <6> QED BY <6>1, <4>2 DEF ToSet
                    <5>2. r.name \in { k.name : k \in ToSet(m.sets[t].quantities) }
                        BY <5>1
                    <5> HIDE DEF o, r
                    <5> QED BY <5>2, <4>3 DEF Existing
                <4> HIDE DEF r, o, q
                <4> QED BY <4>4, <3>3, <2>3
            <3>7. CASE r.figure # <<>>
                <4>1. Gain(m, o, r)
                    BY <3>4, <3>7, <1>3, <1>4
                <4>2. r.figure[1].of = o.id /\ r.name = <<r.name[1], "">>
                    <5> HIDE DEF o, r
                    <5> QED BY <4>1, <2>1, GainIsItsOwners
                <4>3. r.name = q.name /\ r.figure[1].of = q.figure[1].of
                    BY <4>2, <2>3, <3>3
                <4>4. q.figure # <<>>
                    BY <1>4
                <4> HIDE DEF r, q, x
                <4> QED BY <4>3, <4>4, <3>5, <3>7, <1>1 DEF GainedOnce
            <3> QED BY <3>6, <3>7
        <2>7. N = {x}
            <3> HIDE DEF N, x
            <3> QED BY <2>5, <2>6
        <2>8. Cardinality(N) = 1
            BY <2>7, FS_Singleton
        <2> QED BY <2>4, <2>8
    <1>5. ASSUME NEW o \in ToSet(after.objects), UnsharedSets(after, o) = ToSet(o.sets),
                 NEW s \in ToSet(o.sets), NEW q \in ToSet(after.sets[s].quantities), q.figure # <<>>
          PROVE  EarnedBy(m, o, q, q.figure[1], Power(q.name[1])) /\ Cardinality(Named(after, o, q.name[1])) = 1
        <2>1. PICK j \in DOMAIN m.objects : o = after.objects[j]
            BY <1>1 DEF ToSet, StillThere
        <2>2. s \in 1..Len(after.sets)
            BY <2>1, <1>1 DEF StillThere
        <2>3. DOMAIN after.sets[s].quantities = 1..Len(after.sets[s].quantities)
            BY <2>2, <1>1, ListFacts DEF Shaped
        <2>4. PICK y \in 1..Len(after.sets[s].quantities) : q = after.sets[s].quantities[y]
            BY <2>3 DEF ToSet
        <2> QED BY <2>1, <2>4, <1>4, <1>5
    <1> QED BY <1>2, <1>5 DEF GainsAreEarned

(* plugin-qto-preprocess: whatever a file declares, lacks and contains, what an *)
(* object of it gains was measured on it, on its whole body or on exactly the   *)
(* items closed forms are taken of, in the unit the file states and under a     *)
(* name it did not have, once; what was authored stays (lib.rs 27-30, gate.rs   *)
(* 3-6).                                                                        *)
THEOREM EveryTakeOffIsEarned == \A m : IsAuthored(m) => EarnedTakeOff(m)
    <1> SUFFICES ASSUME NEW m, IsAuthored(m) PROVE GainsAreEarned(m, Preprocess(m))
        BY DEF EarnedTakeOff
    <1> DEFINE N == Len(m.objects)
    <1>1. N \in Nat /\ DOMAIN m.objects = 1..N
        BY AuthoredFacts
    <1>2. CASE ~HasScales(m.units)
        <2>1. Preprocess(m) = m
            BY <1>2 DEF Preprocess
        <2>2. 0 \in 0..N
            BY <1>1
        <2> QED BY <2>1, <2>2, TakesOffNothing, GainsOfWhatIsTakenOff
    <1>3. CASE HasScales(m.units)
        <2>1. PICK out : PreprocessRun(m, out) /\ Preprocess(m) = out[N]
            BY <1>1, <1>3, PreprocessRuns
        <2> DEFINE T == { n \in Nat : n <= N => TakenOff(m, out[n], n) }
        <2>2. 0 \in T
            BY <2>1, TakesOffNothing DEF PreprocessRun
        <2>3. ASSUME NEW n \in Nat, n \in T PROVE n + 1 \in T
            <3>1. ASSUME n + 1 <= N PROVE TakenOff(m, out[n + 1], n + 1)
                <4>1. n + 1 \in DOMAIN m.objects /\ (n + 1) - 1 = n /\ TakenOff(m, out[n], n)
                    BY <1>1, <2>3, <3>1
                <4>2. out[n + 1] = IF Audited(m, m.objects[n + 1]) THEN Inject(m, out[n], m.objects[n + 1]) ELSE out[n]
                    <5>1. n + 1 \in 1..N
                        BY <4>1, <1>1
                    <5> QED BY <5>1, <4>1, <2>1 DEF PreprocessRun
                <4>3. TakenOff(m, IF Audited(m, m.objects[n + 1]) THEN Inject(m, out[n], m.objects[n + 1]) ELSE out[n], n + 1)
                    <5> DEFINE k == n + 1
                    <5> DEFINE at == out[n]
                    <5>1. k \in DOMAIN m.objects /\ TakenOff(m, at, k - 1)
                        BY <4>1
                    <5> HIDE DEF k, at
                    <5>2. TakenOff(m, IF Audited(m, m.objects[k]) THEN Inject(m, at, m.objects[k]) ELSE at, k)
                        BY <5>1, <1>3, OneMoreObject
                    <5> QED BY <5>2 DEF k, at
                <4> QED BY <4>2, <4>3
            <3> QED BY <3>1
        <2> HIDE DEF T
        <2>4. Nat \subseteq T
            BY <2>2, <2>3, Induction
        <2>5. TakenOff(m, out[N], N) /\ N \in 0..N
            BY <2>4, <1>1 DEF T
        <2> HIDE DEF N
        <2> QED BY <2>1, <2>5, <1>3, GainsOfWhatIsTakenOff DEF N
    <1> QED BY <1>2, <1>3

------------------------------------------------------------------------------
(* Calls                                                                    *)
(* A call has an input of its algorithm.                                    *)
InputOf(t, inputs) == topic = t /\ input # <<>> => input[1] \in inputs
CallsInv ==
    /\ InputOf("topology", BuildingInputs)
    /\ InputOf("model", FileInputs)
    /\ InputOf("properties", PropertyInputs)
    /\ InputOf("dictionary", DictionaryInputs)
    /\ InputOf("quantities", QuantityInputs)

LEMMA CallsStart == CallsInit => CallsInv
    BY DEF CallsInit, CallsInv, InputOf

LEMMA CallsKeep == CallsInv /\ [CallsNext]_callVars => CallsInv'
    <1> SUFFICES ASSUME CallsInv, [CallsNext]_callVars PROVE CallsInv'
        OBVIOUS
    <1>1. ASSUME NEW x PROVE <<x>>[1] = x
        OBVIOUS
    <1>2. CASE GiveTopology
        BY <1>1, <1>2 DEF GiveTopology, Asked, Give, CallsInv, InputOf
    <1>3. CASE GiveModel
        BY <1>1, <1>3 DEF GiveModel, Asked, Give, CallsInv, InputOf
    <1>4. CASE GiveProperties
        BY <1>1, <1>4 DEF GiveProperties, Asked, Give, CallsInv, InputOf
    <1>5. CASE GiveDictionary
        BY <1>1, <1>5 DEF GiveDictionary, Asked, Give, CallsInv, InputOf
    <1>6. CASE GiveQuantities
        BY <1>1, <1>6 DEF GiveQuantities, Asked, Give, CallsInv, InputOf
    <1>7. CASE UNCHANGED callVars
        BY <1>7 DEF callVars, CallsInv, InputOf
    <1> QED BY <1>2, <1>3, <1>4, <1>5, <1>6, <1>7 DEF CallsNext

(* Whatever is called, with whatever input, gets an input of its kind.      *)
THEOREM CallsInvariant == Calls => []CallsInv
    BY CallsStart, CallsKeep, PTL DEF Calls

(* A zone is said to be adjacent to, or to intersect, an element exactly on *)
(* the strongest evidence of the element or of its parts at any depth       *)
(* (lbd-converter build_topology and emit_bot, lbd-topology).               *)
THEOREM BotIsAlwaysConsistent == Calls => []BotIsConsistent
    <1>1. CallsInv => BotIsConsistent
        BY InputAssumption, EveryBotIsConsistent DEF CallsInv, InputOf, BotIsConsistent, Promised
    <1> QED BY <1>1, CallsInvariant, PTL

(* The modular path and emit_lbd say the same of any model, and emit_lbd as *)
(* the hosts call it, without a topology, loses no containment.             *)
THEOREM PathsAlwaysAgree == Calls => []PathsAgree
    <1>1. CallsInv => PathsAgree
        BY InputAssumption, AllPathsAgree DEF CallsInv, InputOf, PathsAgree, Promised
    <1> QED BY <1>1, CallsInvariant, PTL

(* In any order of any file an object of one type has its own sets and      *)
(* those of its type that no own set shadows, and stands in a structure     *)
(* that claims it (the comment at ifc-model lib.rs 371-378).                *)
THEOREM SetsAreAlwaysInherited == Calls => []SetsAreInherited
    <1>1. CallsInv => SetsAreInherited
        BY InputAssumption, EveryObjectInherits DEF CallsInv, InputOf, SetsAreInherited, Promised
    <1> QED BY <1>1, CallsInvariant, PTL

(* The props and the bSDD module tell alike each value that both write as   *)
(* it is, next to values that they do not (the comments at lib.rs 2446-2448 *)
(* and 2620-2622).                                                          *)
THEOREM ModulesAlwaysShareNodes == Calls => []ModulesShareNodes
    <1>1. CallsInv => ModulesShareNodes
        BY NodesAreAlwaysShared DEF ModulesShareNodes, Promised
    <1> QED BY <1>1, CallsInvariant, PTL

(* Whichever thread converts an object first, sharing nodes keeps every     *)
(* value that the file states (lib.rs 107-109), and a node says what one of *)
(* those who share it would say: its unit, label and match are of one of    *)
(* them.                                                                    *)
THEOREM SharingNeverChangesAnything == Calls => []SharingChangesNothing
    <1>1. CallsInv => SharingChangesNothing
        BY InputAssumption, SharingIsAlwaysNeutral DEF CallsInv, InputOf, SharingChangesNothing, Promised
    <1> QED BY <1>1, CallsInvariant, PTL

(* The strongest level with an answer gives it to every property, ambiguity *)
(* is told, and the cache answers as the dictionary would (bsdd.rs          *)
(* resolve_mapping and BsddMatchCache).                                     *)
THEOREM MatchesAreAlwaysEarned == Calls => []MatchesAreEarned
    <1>1. CallsInv => MatchesAreEarned
        <2> SUFFICES ASSUME CallsInv, topic = "dictionary", input # <<>>, NEW x, x = input[1]
                     PROVE  /\ \A i \in DOMAIN x.occurrences : EarnedMatch(x.index, x.base, x.overlay, x.occurrences[i])
                            /\ FaithfulCache(x.index, x.base, x.overlay, x.asked, x.occurrences)
            BY DEF MatchesAreEarned, Promised
        <2>1. IsIndex(x.index) /\ IsProfile(x.base) /\ IsProfile(x.overlay) /\ IsList(x.occurrences)
            BY InputAssumption DEF CallsInv, InputOf, IsList
        <2> QED BY <2>1, EveryMatchIsEarned, EveryCacheIsFaithful
    <1> QED BY <1>1, CallsInvariant, PTL

(* Every figure an object gains was measured on it, on its whole body or on *)
(* exactly the items of it closed forms are taken of, in the unit of the    *)
(* file, under a name none of its sets had; what was authored stays         *)
(* (plugin-qto-preprocess).                                                 *)
THEOREM TakeOffIsAlwaysEarned == Calls => []TakeOffIsEarned
    <1>1. CallsInv => TakeOffIsEarned
        BY InputAssumption, EveryTakeOffIsEarned DEF CallsInv, InputOf, TakeOffIsEarned, Promised
    <1> QED BY <1>1, CallsInvariant, PTL
==============================================================================
