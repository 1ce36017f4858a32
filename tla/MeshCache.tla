------------------------------ MODULE MeshCache -----------------------------
(* The verdict phase of the extended BOT topology when the prepared meshes  *)
(* do not all fit in memory (plugin-topology-full, BoundedMeshCache): the   *)
(* workers of the Rayon pool take candidate pairs, fetch the two meshes of  *)
(* a pair through a cache with a budget, and judge the pair.  The lock is   *)
(* held for the look-up and for the insertion, never while a mesh is built. *)
EXTENDS Naturals, FiniteSets, Sequences

CONSTANTS Threads,    \* workers of the Rayon pool
          Meshes,     \* express ids of the meshes
          Pairs,      \* candidate pairs, <<left, right>>
          Bytes,      \* mesh_byte_estimate of each mesh
          Prepares,   \* the meshes prepare_flat_mesh succeeds on
          Budget      \* budget_bytes

ASSUME CacheAssumption ==
    /\ IsFiniteSet(Meshes)
    /\ Bytes \in [Meshes -> Nat]
    /\ Budget \in Nat
    /\ Prepares \subseteq Meshes
    /\ Pairs \subseteq Meshes \X Meshes

VARIABLES order,    \* CacheState.order: cached ids, oldest first
          copy,     \* CacheState.meshes: the copy cached for an id, 0 for none
          total,    \* CacheState.total_bytes
          made,     \* copies handed out so far; a copy is named by its number
          todo,     \* pairs no worker has taken yet
          work,     \* what each worker is doing
          verdicts  \* verdict of each judged pair

vars == <<order, copy, total, made, todo, work, verdicts>>

Idle == [ at |-> "idle", pair |-> <<>>, held |-> <<>> ]

Init ==
    /\ order = <<>>
    /\ copy = [ m \in Meshes |-> 0 ]
    /\ total = 0
    /\ made = 0
    /\ todo = Pairs
    /\ work = [ t \in Threads |-> Idle ]
    /\ verdicts = [ p \in Pairs |-> "none" ]

(* The mesh a worker wants: the left one of its pair, then the right one.   *)
Wanted(t) == work[t].pair[Len(work[t].held) + 1]

(* get_or_prepare returns copy c (0 for None); with both meshes, judge.     *)
Got(t, c) ==
    work' = [ work EXCEPT ![t].held = Append(@, c),
                          ![t].at = IF Len(work[t].held) = 1 THEN "judge" ELSE "fetch" ]

Take(t) ==
    /\ work[t].at = "idle"
    /\ \E p \in todo :
          /\ todo' = todo \ {p}
          /\ work' = [ work EXCEPT ![t] = [ at |-> "fetch", pair |-> p, held |-> <<>> ] ]
    /\ UNCHANGED <<order, copy, total, made, verdicts>>

Hit(t) ==
    /\ work[t].at = "fetch"
    /\ copy[Wanted(t)] # 0
    /\ Got(t, copy[Wanted(t)])
    /\ UNCHANGED <<order, copy, total, made, todo, verdicts>>

Miss(t) ==
    /\ work[t].at = "fetch"
    /\ copy[Wanted(t)] = 0
    /\ work' = [ work EXCEPT ![t].at = "build" ]
    /\ UNCHANGED <<order, copy, total, made, todo, verdicts>>

Build(t) ==
    /\ work[t].at = "build"
    /\ IF Wanted(t) \in Prepares
       THEN work' = [ work EXCEPT ![t].at = "insert" ]
       ELSE Got(t, 0)
    /\ UNCHANGED <<order, copy, total, made, todo, verdicts>>

(* The cache's lock is free, but while a worker makes room and inserts.     *)
Unlocked == \A t \in Threads : work[t].at # "evict"

(* A mesh larger than the whole budget is handed back uncached.             *)
TooLarge(m) == Bytes[m] > Budget

(* Mutation: the worker that lost the race returns the copy it built.       *)
OwnCopy(m) == made + 1
WinnersCopy(m) == copy[m]

(* The second locked section: another worker was faster, and both share its *)
(* copy; the mesh is too large to be cached; or it is going to be inserted. *)
LoseRace(t) ==
    /\ work[t].at = "insert"
    /\ Unlocked
    /\ copy[Wanted(t)] # 0
    /\ Got(t, WinnersCopy(Wanted(t)))
    /\ UNCHANGED <<order, copy, total, made, todo, verdicts>>

(* Mutation: the worker does not look whether another one was faster.       *)
NoSecondLook(t) == work[t].at = "insert"
FirstToInsert(t) == work[t].at = "insert" /\ copy[Wanted(t)] = 0

HandBack(t) ==
    /\ FirstToInsert(t)
    /\ Unlocked
    /\ TooLarge(Wanted(t))
    /\ made' = made + 1
    /\ Got(t, made + 1)
    /\ UNCHANGED <<order, copy, total, todo, verdicts>>

Lock(t) ==
    /\ FirstToInsert(t)
    /\ Unlocked
    /\ ~ TooLarge(Wanted(t))
    /\ work' = [ work EXCEPT ![t].at = "evict" ]
    /\ UNCHANGED <<order, copy, total, made, todo, verdicts>>

(* Oldest first, until the mesh fits or nothing is left to evict.           *)
Fits(t) == total + Bytes[Wanted(t)] <= Budget \/ order = <<>>

Evict(t) ==
    /\ work[t].at = "evict"
    /\ ~ Fits(t)
    /\ order' = Tail(order)
    /\ copy' = [ copy EXCEPT ![Head(order)] = 0 ]
    /\ total' = IF Bytes[Head(order)] <= total THEN total - Bytes[Head(order)] ELSE 0
    /\ UNCHANGED <<made, todo, work, verdicts>>

Insert(t) ==
    /\ work[t].at = "evict"
    /\ Fits(t)
    /\ made' = made + 1
    /\ order' = Append(order, Wanted(t))
    /\ copy' = [ copy EXCEPT ![Wanted(t)] = made + 1 ]
    /\ total' = total + Bytes[Wanted(t)]
    /\ Got(t, made + 1)
    /\ UNCHANGED <<todo, verdicts>>

(* A pair is analysed with both meshes, or is "separated" without one.      *)
Judge(t) ==
    /\ work[t].at = "judge"
    /\ verdicts' = [ verdicts EXCEPT ![work[t].pair] =
                        IF 0 \in {work[t].held[1], work[t].held[2]} THEN "separated" ELSE "analysed" ]
    /\ work' = [ work EXCEPT ![t] = Idle ]
    /\ UNCHANGED <<order, copy, total, made, todo>>

Next ==
    \/ \E t \in Threads : Take(t)
    \/ \E t \in Threads : Hit(t)
    \/ \E t \in Threads : Miss(t)
    \/ \E t \in Threads : Build(t)
    \/ \E t \in Threads : LoseRace(t)
    \/ \E t \in Threads : HandBack(t)
    \/ \E t \in Threads : Lock(t)
    \/ \E t \in Threads : Evict(t)
    \/ \E t \in Threads : Insert(t)
    \/ \E t \in Threads : Judge(t)

Spec == Init /\ [][Next]_vars
-----------------------------------------------------------------------------
TypeOK ==
    /\ order \in Seq(Meshes)
    /\ copy \in [Meshes -> Nat]
    /\ total \in Nat
    /\ made \in Nat
    /\ todo \subseteq Pairs
    /\ work \in [Threads -> [ at : {"idle", "fetch", "build", "insert", "evict", "judge"},
                              pair : Pairs \cup {<<>>},
                              held : Seq(Nat) ]]
    /\ verdicts \in [Pairs -> {"none", "separated", "analysed"}]

(* `order` lists the cached ids, each once, and `total` is what they weigh: *)
(* the running sums of the weights in `order` end in `total` and stay       *)
(* within the budget, although meshes are built with no lock held, races    *)
(* are lost and evicted meshes come back.                                   *)
CacheIsAccounted ==
    /\ \A m \in Meshes : copy[m] # 0 <=> \E i \in 1..Len(order) : order[i] = m
    /\ \A i, j \in 1..Len(order) : order[i] = order[j] => i = j
    /\ \E s \in [ 0..Len(order) -> 0..Budget ] :
          /\ s[0] = 0
          /\ \A i \in 1..Len(order) : s[i] = s[i - 1] + Bytes[order[i]]
          /\ s[Len(order)] = total

(* A copy in a worker's hands is the cached copy of its mesh unless that    *)
(* one is newer (the worker's was evicted), the mesh is not cached, or it   *)
(* does not fit the budget: racing workers share one copy.                  *)
RacersShareOneCopy ==
    \A t \in Threads : \A i \in 1..Len(work[t].held) :
        LET m == work[t].pair[i] IN
        copy[m] # 0 => work[t].held[i] # 0 /\ work[t].held[i] <= copy[m]

(* A pair's verdict does not depend on the cache: it is analysed exactly    *)
(* when both meshes can be prepared, as it is when all of them fit.         *)
VerdictsAreResident ==
    \A p \in Pairs : verdicts[p] # "none" =>
        (verdicts[p] = "analysed" <=> p[1] \in Prepares /\ p[2] \in Prepares)

(* The cache changes nothing but the time it takes: what a worker has in    *)
(* hand, and what it makes of it, does not depend on evictions and races.   *)
CacheIsTransparent == RacersShareOneCopy /\ VerdictsAreResident

(* ----- the inductive invariant ------------------------------------------ *)
(* What a worker holds for mesh m: nothing exactly if it cannot be prepared,*)
(* and otherwise a copy no newer than the cached one.                       *)
Good(m, c, newest, cached) ==
    /\ c <= newest
    /\ c = 0 <=> m \notin Prepares
    /\ cached # 0 => c <= cached
Fetched(m, c) == Good(m, c, made, copy[m])

AtWork(t) ==
    /\ work[t].at # "idle" => work[t].pair \in Pairs
    /\ work[t].at = "idle" => work[t].held = <<>>
    /\ work[t].at = "judge" => Len(work[t].held) = 2
    /\ work[t].at \notin {"idle", "judge"} => Len(work[t].held) \in {0, 1}
    /\ \A i \in 1..Len(work[t].held) : Fetched(work[t].pair[i], work[t].held[i])
    /\ work[t].at \in {"insert", "evict"} => Wanted(t) \in Prepares
    /\ work[t].at = "evict" => copy[Wanted(t)] = 0 /\ ~ TooLarge(Wanted(t))

OneEvicts == \A t, u \in Threads : work[t].at = "evict" /\ work[u].at = "evict" => t = u

Accounted(m) ==
    /\ copy[m] <= made
    /\ copy[m] # 0 <=> \E i \in 1..Len(order) : order[i] = m
    /\ copy[m] # 0 => m \in Prepares /\ ~ TooLarge(m)

(* Running sums of the weights, which only grow.                            *)
Sums(s) ==
    /\ s[0] = 0
    /\ \A i \in 1..Len(order) : s[i] = s[i - 1] + Bytes[order[i]]
    /\ \A i, j \in 0..Len(order) : i <= j => s[i] <= s[j]
    /\ s[Len(order)] = total

MeshInv ==
    /\ TypeOK
    /\ \A t \in Threads : AtWork(t)
    /\ OneEvicts
    /\ \A m \in Meshes : Accounted(m)
    /\ \A i, j \in 1..Len(order) : order[i] = order[j] => i = j
    /\ \E s \in [ 0..Len(order) -> 0..Budget ] : Sums(s)
    /\ VerdictsAreResident
=============================================================================
